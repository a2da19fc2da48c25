-------------------------- MODULE Verification_proofs --------------------------
(***************************************************************************)
(* Proofs about Verification, for any hosts, senders, keys, number of      *)
(* concurrent messages and lengths of time: a required check is passed, a  *)
(* pinned key is kept, and a key that passes is recent.                    *)
(***************************************************************************)
EXTENDS Verification, TLAPS

-----------------------------------------------------------------------------
(* Messages and pins in a form the provers can use.                        *)

Slot == {Free} \cup Unchecked \cup Checked

\* A message that is being checked has all the fields of one.
LEMMA CheckingSlot ==
    ASSUME TypeOK, NEW m \in Slots, Checking(m)
    PROVE  slot[m] \in Checked
BY DEF TypeOK, Checking, Free, Unchecked

\* So has a message that names a sender.
LEMMA MessageSlot ==
    ASSUME TypeOK, NEW m \in Slots, slot[m].pc # "free", slot[m].kind = "message"
    PROVE  slot[m] \in Checked
BY DEF TypeOK, Free, Unchecked

\* A pin is told from no pin by its time.
LEMMA PinTime ==
    ASSUME TypeOK, NEW h \in Hosts
    PROVE  /\ pinned[h] # NoPin => pinned[h] \in Pin /\ pinned[h].at \in Nat
                                   /\ pinned[h].key \in Keys
           /\ FreshPin(h) => pinned[h] # NoPin
BY DEF TypeOK, Pin, NoPin, FreshPin

\* What HandleMessage notes about a message is a checked slot.
LEMMA NewSlot ==
    ASSUME TypeOK, NEW s \in Senders
    PROVE  [pc |-> "checking", kind |-> "message", sender |-> s,
            probe |-> IF ~Uses("probe") THEN "unused"
                      ELSE IF FreshSender(s) THEN "passed" ELSE "waiting",
            spki |-> IF ~Uses("spki") THEN "unused"
                     ELSE IF FreshPin(HostOf[s]) THEN "passed" ELSE "waiting",
            key |-> IF FreshPin(HostOf[s]) THEN pinned[HostOf[s]].key
                                           ELSE key[HostOf[s]],
            at |-> now, start |-> now] \in Checked
<1>1. HostOf[s] \in Hosts
  BY VerificationAssumption
<1>2. key[HostOf[s]] \in Keys /\ now \in Nat
  BY <1>1 DEF TypeOK
<1>3. FreshPin(HostOf[s]) => pinned[HostOf[s]].key \in Keys
  BY <1>1, PinTime
<1> QED
  BY <1>2, <1>3 DEF Checked, Progress

-----------------------------------------------------------------------------
(* Types                                                                   *)

\* A step of a message that is being checked keeps the types.
LEMMA ProgressType ==
    ASSUME TypeOK, NEW m \in Slots, Progressing(m)
    PROVE  TypeOK'
<1>1. Checking(m)
  BY DEF Progressing, ProbeAnswered, KeySeen, ClosingFails, KeyCompared, Decide
<1>2. slot[m] \in Checked
  BY <1>1, CheckingSlot
<1>3. slot[m].sender \in Senders /\ HostFor(m) \in Hosts /\ now \in Nat
  BY <1>2, VerificationAssumption DEF Checked, HostFor, TypeOK
<1>4. ASSUME NEW ok \in BOOLEAN, ProbeAnswered(m, ok)
      PROVE  TypeOK'
  <2>1. [slot[m] EXCEPT !.probe = IF ok THEN "passed" ELSE "failed"] \in Checked
    BY <1>2 DEF Checked, Progress
  <2> QED
    BY <1>3, <1>4, <2>1 DEF ProbeAnswered, TypeOK
<1>5. ASSUME NEW ok \in BOOLEAN, KeySeen(m, ok)
      PROVE  TypeOK'
  <2>1. [slot[m] EXCEPT !.spki = IF ok THEN "seen" ELSE "failed",
                        !.key = key[HostFor(m)]] \in Checked
    BY <1>2, <1>3 DEF Checked, Progress, TypeOK
  <2> QED
    BY <1>5, <2>1 DEF KeySeen, TypeOK
<1>6a. ASSUME ClosingFails(m)
       PROVE  TypeOK'
  <2>1. [slot[m] EXCEPT !.spki = "failed"] \in Checked
    BY <1>2 DEF Checked, Progress
  <2> QED
    BY <1>6a, <2>1 DEF ClosingFails, TypeOK
<1>6. ASSUME KeyCompared(m)
      PROVE  TypeOK'
  <2> DEFINE ok == MayPin(HostFor(m), slot[m].key)
  <2>1. [slot[m] EXCEPT !.spki = IF ok THEN "passed" ELSE "failed",
                        !.at = now] \in Checked
    BY <1>2, <1>3 DEF Checked, Progress
  <2>2. [key |-> slot[m].key, at |-> now] \in Pin
    BY <1>2, <1>3 DEF Checked, Pin
  <2> QED
    BY <1>3, <1>6, <2>1, <2>2 DEF KeyCompared, TypeOK
<1>7. ASSUME Decide(m)
      PROVE  TypeOK'
  <2>1. [slot[m] EXCEPT !.pc = IF IsVerified(m) \/ config.mode # "required"
                                 THEN "delivered" ELSE "refused"] \in Checked
    BY <1>2 DEF Checked
  <2> QED
    BY <1>7, <2>1 DEF Decide, TypeOK
<1> QED
  BY <1>4, <1>5, <1>6a, <1>6, <1>7 DEF Progressing

\* So does every step.
LEMMA TypeStep ==
    ASSUME TypeOK, [Next]_vars
    PROVE  TypeOK'
<1>1. ASSUME NEW m \in Slots, NEW kind \in Kinds \ {"message"}, HandleUnchecked(m, kind)
      PROVE  TypeOK'
  <2>1. [pc |-> IF kind = "anonymous" /\ config.mode = "required"
                  THEN "refused" ELSE "delivered", kind |-> kind] \in Unchecked
    BY DEF Unchecked
  <2> QED
    BY <1>1, <2>1 DEF HandleUnchecked, Receive, TypeOK
<1>2. ASSUME NEW m \in Slots, NEW s \in Senders, HandleMessage(m, s)
      PROVE  TypeOK'
  BY <1>2, NewSlot DEF HandleMessage, Receive, TypeOK
<1>3. ASSUME NEW m \in Slots, Progressing(m)
      PROVE  TypeOK'
  BY <1>3, ProgressType
<1>4. ASSUME Tick
      PROVE  TypeOK'
  BY <1>4 DEF Tick, TypeOK
<1>5. ASSUME NEW h \in Hosts, Rotate(h)
      PROVE  TypeOK'
  <2>1. key' \in [Hosts -> Keys]
    BY <1>5 DEF Rotate, TypeOK
  <2>2. held[h] \in [Keys -> Nat \cup {Never}] /\ now \in Nat
    BY DEF TypeOK
  <2>3. [held[h] EXCEPT ![key[h]] = now] \in [Keys -> Nat \cup {Never}]
    BY <2>2
  <2>4. held' \in [Hosts -> [Keys -> Nat \cup {Never}]]
    BY <1>5, <2>3 DEF Rotate, TypeOK
  <2>5. count' \in [{"messages", "rotations", "clears", "crashes"} -> Nat]
    <3>1. count' = [count EXCEPT !.rotations = @ + 1]
      BY <1>5 DEF Rotate
    <3>2. count \in [{"messages", "rotations", "clears", "crashes"} -> Nat]
      BY DEF TypeOK
    <3> QED
      BY <3>1, <3>2
  <2> QED
    BY <1>5, <2>1, <2>4, <2>5 DEF Rotate, TypeOK
<1>6. ASSUME ClearPins
      PROVE  TypeOK'
  BY <1>6 DEF ClearPins, TypeOK
<1>7. ASSUME Crash
      PROVE  TypeOK'
  BY <1>7 DEF Crash, TypeOK
<1>8. ASSUME UNCHANGED vars
      PROVE  TypeOK'
  BY <1>8 DEF vars, TypeOK
<1> QED
  BY <1>1, <1>2, <1>3, <1>4, <1>5, <1>6, <1>7, <1>8 DEF Next

\* The type invariant of Verification.
THEOREM TypeCorrect == Spec => []TypeOK
<1>1. Init => TypeOK
  BY DEF Init, TypeOK
<1>2. TypeOK /\ [Next]_vars => TypeOK'
  BY TypeStep
<1> QED
  BY <1>1, <1>2, PTL DEF Spec

-----------------------------------------------------------------------------
(* A pinned key is kept.                                                   *)

\* With spki_on_change = "reject" no step gives a host another key than the
\* one that is pinned: _handle_spki_change is the only way to do so.
THEOREM PinsAreKept == Spec => PinIsKept
<1> DEFINE Kept == config.spki_on_change = "reject" =>
                     \A h \in Hosts : pinned[h] # NoPin /\ pinned'[h] # NoPin
                                        => pinned'[h].key = pinned[h].key
<1>1. ASSUME TypeOK, Next
      PROVE  Kept
  <2>1. ASSUME UNCHANGED pinned
        PROVE  Kept
    BY <2>1
  <2>2. ASSUME NEW m \in Slots, KeyCompared(m)
        PROVE  Kept
    <3>1. ASSUME config.spki_on_change = "reject", NEW h \in Hosts,
                 pinned[h] # NoPin, pinned'[h] # NoPin
          PROVE  pinned'[h].key = pinned[h].key
      <4>1. CASE h = HostFor(m) /\ MayPin(h, slot[m].key)
        <5>1. pinned[h].key = slot[m].key
          BY <3>1, <4>1 DEF MayPin
        <5>2. pinned'[h] = [key |-> slot[m].key, at |-> now]
          BY <1>1, <2>2, <4>1 DEF KeyCompared, TypeOK
        <5> QED
          BY <5>1, <5>2
      <4>2. CASE ~(h = HostFor(m) /\ MayPin(h, slot[m].key))
        BY <2>2, <4>2, <1>1 DEF KeyCompared, TypeOK
      <4> QED
        BY <4>1, <4>2
    <3> QED
      BY <3>1
  <2>3. ASSUME ClearPins
        PROVE  Kept
    BY <2>3 DEF ClearPins
  <2> QED
    BY <1>1, <2>1, <2>2, <2>3
       DEF Next, Progressing, HandleUnchecked, HandleMessage, ProbeAnswered, KeySeen,
           ClosingFails, Decide, Tick, Rotate, Crash
<1>2. TypeOK /\ [Next]_vars => [Kept]_vars
  BY <1>1
<1> QED
  BY <1>2, TypeCorrect, PTL DEF Spec, PinIsKept

-----------------------------------------------------------------------------
(* A required check is passed.  What Decide looks at must still be what    *)
(* the configuration asks for: a check is in use for a message from its    *)
(* arrival to its end, or is not.                                          *)

ChecksAsConfigured ==
    \A m \in Slots : slot[m].pc # "free" /\ slot[m].kind = "message" =>
        /\ Uses("probe") => slot[m].probe # "unused"
        /\ Uses("spki") => slot[m].spki # "unused"

RequiredInv == TypeOK /\ ChecksAsConfigured /\ RequiredMeansChecked

\* A slot that is as before, or is new, or makes progress, is as configured.
LEMMA RequiredSlot ==
    ASSUME RequiredInv, [Next]_vars, NEW m \in Slots,
           slot'[m].pc # "free", slot'[m].kind = "message"
    PROVE  /\ Uses("probe") => slot'[m].probe # "unused"
           /\ Uses("spki") => slot'[m].spki # "unused"
           /\ config.mode = "required" /\ slot'[m].pc = "delivered" =>
                /\ Uses("probe") => slot'[m].probe = "passed"
                /\ Uses("spki") => slot'[m].spki = "passed"
<1> DEFINE Good(r) ==
      /\ Uses("probe") => r.probe # "unused"
      /\ Uses("spki") => r.spki # "unused"
      /\ config.mode = "required" /\ r.pc = "delivered" =>
           /\ Uses("probe") => r.probe = "passed"
           /\ Uses("spki") => r.spki = "passed"
<1>1. slot \in [Slots -> Slot]
  BY DEF RequiredInv, TypeOK, Slot
<1>2. ASSUME slot'[m] = slot[m]
      PROVE  Good(slot'[m])
  BY <1>2 DEF RequiredInv, ChecksAsConfigured, RequiredMeansChecked
<1>3. ASSUME NEW n \in Slots, NEW kind \in Kinds \ {"message"}, HandleUnchecked(n, kind)
      PROVE  Good(slot'[m])
  <2>1. CASE n = m
    BY <1>1, <1>3, <2>1 DEF HandleUnchecked
  <2>2. CASE n # m
    BY <1>1, <1>2, <1>3, <2>2 DEF HandleUnchecked
  <2> QED
    BY <2>1, <2>2
<1>4. ASSUME NEW n \in Slots, NEW s \in Senders, HandleMessage(n, s)
      PROVE  Good(slot'[m])
  <2>1. CASE n = m
    BY <1>1, <1>4, <2>1 DEF HandleMessage
  <2>2. CASE n # m
    BY <1>1, <1>2, <1>4, <2>2 DEF HandleMessage
  <2> QED
    BY <2>1, <2>2
<1>5. ASSUME NEW n \in Slots, Progressing(n)
      PROVE  Good(slot'[m])
  <2>1. CASE n # m
    BY <1>1, <1>2, <1>5, <2>1
       DEF Progressing, ProbeAnswered, KeySeen, ClosingFails, KeyCompared, Decide
  <2>2. CASE n = m
    <3>1. Checking(m)
      BY <1>5, <2>2 DEF Progressing, ProbeAnswered, KeySeen, ClosingFails, KeyCompared, Decide
    <3>2. slot[m] \in Checked
      BY <3>1, CheckingSlot DEF RequiredInv
    <3>3. slot[m].pc = "checking" /\ Good(slot[m])
      BY <3>1, <3>2 DEF Checking, Checked, RequiredInv, ChecksAsConfigured
    <3>4. ASSUME NEW ok \in BOOLEAN, ProbeAnswered(m, ok)
          PROVE  Good(slot'[m])
      BY <1>1, <3>2, <3>3, <3>4 DEF ProbeAnswered, Checked
    <3>5. ASSUME NEW ok \in BOOLEAN, KeySeen(m, ok)
          PROVE  Good(slot'[m])
      BY <1>1, <3>2, <3>3, <3>5 DEF KeySeen, Checked
    <3>6a. ASSUME ClosingFails(m)
           PROVE  Good(slot'[m])
      BY <1>1, <3>2, <3>3, <3>6a DEF ClosingFails, Checked
    <3>6. ASSUME KeyCompared(m)
          PROVE  Good(slot'[m])
      BY <1>1, <3>2, <3>3, <3>6 DEF KeyCompared, Checked
    <3>7. ASSUME Decide(m)
          PROVE  Good(slot'[m])
      <4>1. IsVerified(m) => /\ Uses("probe") => slot[m].probe = "passed"
                             /\ Uses("spki") => slot[m].spki = "passed"
        BY <3>3 DEF IsVerified, Outcomes
      <4> QED
        BY <1>1, <3>2, <3>3, <3>7, <4>1 DEF Decide, Checked
    <3> QED
      BY <1>5, <2>2, <3>4, <3>5, <3>6a, <3>6, <3>7 DEF Progressing
  <2> QED
    BY <2>1, <2>2
<1>6. CASE UNCHANGED slot
  BY <1>2, <1>6
<1>7. CASE Crash
  BY <1>7 DEF Crash, Free
<1> QED
  BY <1>3, <1>4, <1>5, <1>6, <1>7 DEF Next, Tick, Rotate, ClearPins, vars

\* When verification is required, no message that names a sender is delivered
\* before every check in use has passed for it.
THEOREM RequiredIsChecked == Spec => []RequiredMeansChecked
<1>1. Init => RequiredInv
  BY DEF Init, RequiredInv, TypeOK, ChecksAsConfigured, RequiredMeansChecked, Free
<1>2. ASSUME RequiredInv, [Next]_vars
      PROVE  RequiredInv'
  <2>1. TypeOK'
    BY <1>2, TypeStep DEF RequiredInv
  <2>2. UNCHANGED config
    BY <1>2 DEF Next, vars, HandleUnchecked, HandleMessage, Progressing, ProbeAnswered,
                KeySeen, ClosingFails, KeyCompared, Decide, Tick, Rotate, ClearPins, Crash
  <2> QED
    BY <1>2, <2>1, <2>2, RequiredSlot
       DEF RequiredInv, ChecksAsConfigured, RequiredMeansChecked, Uses
<1>3. RequiredInv => RequiredMeansChecked
  BY DEF RequiredInv
<1> QED
  BY <1>1, <1>2, <1>3, PTL DEF Spec
-----------------------------------------------------------------------------
(* A key that passes is recent.  A key seen in a handshake was the host's  *)
(* own after the check began, and the check is soon over; so a pin is no   *)
(* older than a check when it is made, and than the TTL when it is used.   *)

IsMessage(m) == slot[m].pc # "free" /\ slot[m].kind = "message"

KeysInThePast == \A h \in Hosts, k \in Keys : held[h][k] <= now

PinsAreRecent ==
    \A h \in Hosts : pinned[h] # NoPin =>
        LastHeld(h, pinned[h].key) >= pinned[h].at - Delay

\* A check that waits, or has seen the key, began no more than Delay ago.
CheckInTime(m) ==
    /\ slot[m].spki \in {"waiting", "seen"} =>
         /\ Checking(m)
         /\ slot[m].start <= now /\ now <= slot[m].start + Delay
    /\ slot[m].spki = "seen" => LastHeld(HostFor(m), slot[m].key) >= slot[m].start

PassedIsRecent(m) ==
    slot[m].spki = "passed"
        => LastHeld(HostFor(m), slot[m].key) >= slot[m].at - TTL - Delay

RecentInv ==
    /\ TypeOK
    /\ KeysInThePast
    /\ PinsAreRecent
    /\ \A m \in Slots : IsMessage(m) => CheckInTime(m) /\ PassedIsRecent(m)

\* The last time a host held a key is a time, or never.
LEMMA LastHeldType ==
    ASSUME TypeOK, NEW h \in Hosts, NEW k \in Keys
    PROVE  /\ LastHeld(h, k) \in Int /\ held[h][k] \in Int /\ now \in Nat
           /\ KeysInThePast => LastHeld(h, k) <= now
<1>1. held[h] \in [Keys -> Nat \cup {Never}] /\ now \in Nat
  BY DEF TypeOK
<1>2. held[h][k] \in Nat \cup {Never}
  BY <1>1
<1>3. held[h][k] \in Int
  BY <1>2 DEF Never
<1> QED
  BY <1>1, <1>3 DEF LastHeld, KeysInThePast

\* The steps that leave time and the hosts alone.
LEMMA SameTime ==
    ASSUME Next
    PROVE  \/ UNCHANGED <<now, key, held>>
           \/ Tick
           \/ \E h \in Hosts : Rotate(h)
BY DEF Next, HandleUnchecked, HandleMessage, Progressing, ProbeAnswered, KeySeen,
       ClosingFails, KeyCompared, Decide, ClearPins, Crash

\* It only gets later, by time or by a change of the key.
LEMMA LastHeldGrows ==
    ASSUME TypeOK, KeysInThePast, [Next]_vars, NEW h \in Hosts, NEW k \in Keys
    PROVE  /\ LastHeld(h, k)' \in Int /\ LastHeld(h, k)' >= LastHeld(h, k)
           /\ held'[h][k] <= now'
<1>1. /\ LastHeld(h, k) \in Int /\ LastHeld(h, k) <= now /\ now \in Nat
      /\ held[h][k] \in Int /\ held[h][k] <= now
  BY LastHeldType DEF KeysInThePast
<1>2. CASE UNCHANGED <<now, key, held>>
  BY <1>1, <1>2 DEF LastHeld
<1>3. CASE Tick
  BY <1>1, <1>3 DEF Tick, LastHeld
<1>4. ASSUME NEW g \in Hosts, Rotate(g)
      PROVE  /\ LastHeld(h, k)' \in Int /\ LastHeld(h, k)' >= LastHeld(h, k)
             /\ held'[h][k] <= now'
  <2>1. PICK new \in Keys \ {key[g]} : key' = [key EXCEPT ![g] = new]
    BY <1>4 DEF Rotate
  <2>2. held' = [held EXCEPT ![g][key[g]] = now] /\ now' = now
    BY <1>4 DEF Rotate
  <2>3. key \in [Hosts -> Keys] /\ held \in [Hosts -> [Keys -> Nat \cup {Never}]]
    BY DEF TypeOK
  <2>4. CASE g # h
    BY <1>1, <2>1, <2>2, <2>3, <2>4 DEF LastHeld
  <2>5. CASE g = h
    <3>1. key'[h] = new /\ held[h] \in [Keys -> Nat \cup {Never}]
      BY <2>1, <2>3, <2>5
    <3>2. held'[h] = [held[h] EXCEPT ![key[h]] = now]
      BY <2>2, <2>3, <2>5
    <3>3. held'[h][k] = IF k = key[h] THEN now ELSE held[h][k]
      BY <3>1, <3>2
    <3> QED
      BY <1>1, <2>1, <2>2, <2>5, <3>1, <3>3 DEF LastHeld
  <2> QED
    BY <2>4, <2>5
<1> QED
  BY <1>2, <1>3, <1>4, SameTime DEF vars

\* What LastHeld is after a step, for a key of before or after it.
Later(h, k) == IF key'[h] = k THEN now' ELSE held'[h][k]

\* It is a time no earlier than before the step.
LEMMA LaterGrows ==
    ASSUME TypeOK, KeysInThePast, [Next]_vars, NEW h \in Hosts, NEW k \in Keys
    PROVE  Later(h, k) \in Int /\ Later(h, k) >= LastHeld(h, k)
BY LastHeldGrows DEF Later, LastHeld

\* The pins stay recent.
LEMMA PinsStayRecent ==
    ASSUME RecentInv, [Next]_vars
    PROVE  PinsAreRecent'
<1> USE DEF RecentInv
<1>1. SUFFICES ASSUME NEW h \in Hosts, pinned'[h] # NoPin
               PROVE  Later(h, pinned'[h].key) >= pinned'[h].at - Delay
  BY DEF PinsAreRecent, LastHeld, Later
<1>2. ASSUME pinned'[h] = pinned[h]
      PROVE  Later(h, pinned'[h].key) >= pinned'[h].at - Delay
  <2>1. pinned[h].key \in Keys /\ pinned[h].at \in Nat
    BY <1>1, <1>2, PinTime
  <2>2. LastHeld(h, pinned[h].key) >= pinned[h].at - Delay
    BY <1>1, <1>2 DEF PinsAreRecent
  <2> QED
    BY <1>2, <2>1, <2>2, LastHeldType, LaterGrows, VerificationAssumption
<1>3. ASSUME NEW m \in Slots, KeyCompared(m), pinned'[h] # pinned[h]
      PROVE  Later(h, pinned'[h].key) >= pinned'[h].at - Delay
  <2>1. slot[m] \in Checked
    BY <1>3, CheckingSlot DEF KeyCompared
  <2>2. h = HostFor(m) /\ pinned'[h] = [key |-> slot[m].key, at |-> now]
    BY <1>3 DEF KeyCompared, TypeOK
  <2>3. slot[m].spki = "seen" /\ IsMessage(m)
    BY <1>3, <2>1 DEF KeyCompared, Checking, Checked, IsMessage
  <2>4. /\ LastHeld(h, slot[m].key) >= slot[m].start
        /\ now <= slot[m].start + Delay
    BY <2>2, <2>3 DEF CheckInTime
  <2>5. slot[m].key \in Keys /\ slot[m].start \in Nat /\ now \in Nat /\ Delay \in Nat
    BY <2>1, VerificationAssumption DEF Checked, TypeOK
  <2>6. LastHeld(h, slot[m].key) >= now - Delay
    BY <2>4, <2>5, LastHeldType
  <2>7. Later(h, slot[m].key) = LastHeld(h, slot[m].key)
    BY <1>3 DEF KeyCompared, LastHeld, Later
  <2> QED
    BY <2>2, <2>6, <2>7
<1>4. CASE pinned'[h] = NoPin
  BY <1>1, <1>4
<1> QED
  BY <1>1, <1>2, <1>3, <1>4
     DEF Next, HandleUnchecked, HandleMessage, Progressing, ProbeAnswered, KeySeen,
         ClosingFails, Decide, Tick, Rotate, ClearPins, Crash, vars

\* A slot that a step leaves alone, unless it is time that passes, stays good.
LEMMA SameSlot ==
    ASSUME RecentInv, [Next]_vars, NEW m \in Slots, IsMessage(m),
           slot'[m] = slot[m], now' = now
    PROVE  (CheckInTime(m) /\ PassedIsRecent(m))'
<1>1. slot[m] \in Checked /\ HostFor(m) \in Hosts
  BY MessageSlot, VerificationAssumption DEF RecentInv, IsMessage, Checked, HostFor
<1>2. slot[m].key \in Keys /\ slot[m].start \in Nat /\ slot[m].at \in Nat
  BY <1>1 DEF Checked
<1>3. TTL \in Nat /\ Delay \in Nat
  BY VerificationAssumption
<1>4. CheckInTime(m) /\ PassedIsRecent(m)
  BY DEF RecentInv
<1>5. /\ LastHeld(HostFor(m), slot[m].key) \in Int
      /\ LastHeld(HostFor(m), slot[m].key)' \in Int
      /\ LastHeld(HostFor(m), slot[m].key)' >= LastHeld(HostFor(m), slot[m].key)
  <2>1. /\ LastHeld(HostFor(m), slot[m].key) \in Int
        /\ \A h \in Hosts, k \in Keys : LastHeld(h, k)' \in Int
                                        /\ LastHeld(h, k)' >= LastHeld(h, k)
    BY <1>1, <1>2, LastHeldType, LastHeldGrows DEF RecentInv
  <2> QED
    BY <1>1, <1>2, <2>1 DEF LastHeld, HostFor
<1> QED
  BY <1>2, <1>3, <1>4, <1>5 DEF CheckInTime, PassedIsRecent, Checking, HostFor, LastHeld

\* A message that arrives: a cached key is as recent as its pin.
LEMMA NewSlotGood ==
    ASSUME RecentInv, NEW m \in Slots, NEW s \in Senders, HandleMessage(m, s)
    PROVE  (CheckInTime(m) /\ PassedIsRecent(m))'
<1> DEFINE h == HostOf[s]
<1>1. h \in Hosts /\ TTL \in Nat /\ Delay \in Nat /\ now \in Nat
  BY VerificationAssumption DEF RecentInv, TypeOK
<1>2. /\ slot'[m].pc = "checking" /\ slot'[m].sender = s
      /\ slot'[m].at = now /\ slot'[m].start = now
      /\ slot'[m].spki \in {"unused", "passed", "waiting"}
      /\ slot'[m].spki = "passed" => FreshPin(h) /\ slot'[m].key = pinned[h].key
      /\ UNCHANGED <<now, key, held>>
  BY DEF HandleMessage, RecentInv, TypeOK
<1>3. ASSUME FreshPin(h)
      PROVE  LastHeld(h, pinned[h].key) >= now - TTL - Delay
  <2>1. pinned[h] # NoPin /\ pinned[h].at \in Nat /\ pinned[h].key \in Keys
    BY <1>1, <1>3, PinTime DEF RecentInv
  <2>2. LastHeld(h, pinned[h].key) >= pinned[h].at - Delay /\ pinned[h].at >= now - TTL
    BY <1>1, <1>3, <2>1 DEF RecentInv, PinsAreRecent, FreshPin
  <2>3. LastHeld(h, pinned[h].key) \in Int
    BY <1>1, <2>1, LastHeldType DEF RecentInv
  <2> QED
    BY <1>1, <2>1, <2>2, <2>3
<1> QED
  BY <1>1, <1>2, <1>3 DEF CheckInTime, PassedIsRecent, Checking, HostFor, LastHeld

\* A message that makes progress: a key that is seen is held now, and a key
\* that is compared was seen no longer ago than the check has lasted.
LEMMA ProgressGood ==
    ASSUME RecentInv, NEW m \in Slots, Progressing(m)
    PROVE  (CheckInTime(m) /\ PassedIsRecent(m))'
<1>1. Checking(m)
  BY DEF Progressing, ProbeAnswered, KeySeen, ClosingFails, KeyCompared, Decide
<1>2. slot[m] \in Checked
  BY <1>1, CheckingSlot DEF RecentInv
<1>3. /\ slot[m].key \in Keys /\ slot[m].start \in Nat /\ slot[m].at \in Nat
      /\ HostFor(m) \in Hosts
      /\ TTL \in Nat /\ Delay \in Nat /\ now \in Nat
  BY <1>2, VerificationAssumption DEF Checked, HostFor, RecentInv, TypeOK
<1>4. CheckInTime(m) /\ PassedIsRecent(m)
  BY <1>1, <1>2 DEF RecentInv, IsMessage, Checking, Checked
<1>5. LastHeld(HostFor(m), slot[m].key) \in Int
  BY <1>3, LastHeldType DEF RecentInv
<1>6. UNCHANGED <<now, key, held>>
  BY DEF Progressing, ProbeAnswered, KeySeen, ClosingFails, KeyCompared, Decide
<1>7. ASSUME NEW ok \in BOOLEAN, ProbeAnswered(m, ok)
      PROVE  (CheckInTime(m) /\ PassedIsRecent(m))'
  <2>1. /\ slot'[m].pc = slot[m].pc /\ slot'[m].sender = slot[m].sender
        /\ slot'[m].spki = slot[m].spki /\ slot'[m].key = slot[m].key
        /\ slot'[m].at = slot[m].at /\ slot'[m].start = slot[m].start
    BY <1>2, <1>7 DEF ProbeAnswered, RecentInv, TypeOK, Checked
  <2> QED
    BY <1>4, <1>6, <2>1 DEF CheckInTime, PassedIsRecent, Checking, HostFor, LastHeld
<1>8. ASSUME NEW ok \in BOOLEAN, KeySeen(m, ok)
      PROVE  (CheckInTime(m) /\ PassedIsRecent(m))'
  <2>1. /\ slot'[m].pc = "checking" /\ slot'[m].sender = slot[m].sender
        /\ slot'[m].spki \in {"seen", "failed"} /\ slot'[m].key = key[HostFor(m)]
        /\ slot'[m].start = slot[m].start
    BY <1>1, <1>2, <1>8 DEF KeySeen, RecentInv, TypeOK, Checked, Checking
  <2>2. slot[m].start <= now /\ now <= slot[m].start + Delay
    BY <1>4, <1>8 DEF KeySeen, CheckInTime
  <2> QED
    BY <1>3, <1>6, <2>1, <2>2
       DEF CheckInTime, PassedIsRecent, Checking, HostFor, LastHeld
<1>9a. ASSUME ClosingFails(m)
       PROVE  (CheckInTime(m) /\ PassedIsRecent(m))'
  <2>1. slot'[m].spki = "failed"
    BY <1>2, <1>9a DEF ClosingFails, RecentInv, TypeOK, Checked
  <2> QED
    BY <2>1 DEF CheckInTime, PassedIsRecent
<1>9. ASSUME KeyCompared(m)
      PROVE  (CheckInTime(m) /\ PassedIsRecent(m))'
  <2>1. /\ slot'[m].sender = slot[m].sender /\ slot'[m].spki \in {"passed", "failed"}
        /\ slot'[m].key = slot[m].key /\ slot'[m].at = now
    BY <1>2, <1>9 DEF KeyCompared, RecentInv, TypeOK, Checked
  <2>2. /\ LastHeld(HostFor(m), slot[m].key) >= slot[m].start
        /\ now <= slot[m].start + Delay
    BY <1>4, <1>9 DEF KeyCompared, CheckInTime
  <2>3. LastHeld(HostFor(m), slot[m].key) >= now - TTL - Delay
    BY <1>3, <1>5, <2>2
  <2> QED
    BY <1>6, <2>1, <2>3 DEF CheckInTime, PassedIsRecent, HostFor, LastHeld
<1>10. ASSUME Decide(m)
       PROVE  (CheckInTime(m) /\ PassedIsRecent(m))'
  <2>1. /\ slot'[m].sender = slot[m].sender /\ slot'[m].spki = slot[m].spki
        /\ slot'[m].key = slot[m].key /\ slot'[m].at = slot[m].at
    BY <1>2, <1>10 DEF Decide, RecentInv, TypeOK, Checked
  <2>2. slot[m].spki \notin {"waiting", "seen"}
    BY <1>10 DEF Decide, Outcomes
  <2> QED
    BY <1>4, <1>6, <2>1, <2>2 DEF CheckInTime, PassedIsRecent, HostFor, LastHeld
<1> QED
  BY <1>7, <1>8, <1>9a, <1>9, <1>10 DEF Progressing

\* Time passes only while no check of a key is over its time.
LEMMA TickGood ==
    ASSUME RecentInv, Tick, NEW m \in Slots, IsMessage(m)
    PROVE  (CheckInTime(m) /\ PassedIsRecent(m))'
<1>1. slot[m] \in Checked
  BY MessageSlot DEF RecentInv, IsMessage
<1>2. /\ slot[m].key \in Keys /\ slot[m].start \in Nat /\ slot[m].at \in Nat
      /\ HostFor(m) \in Hosts /\ TTL \in Nat /\ Delay \in Nat /\ now \in Nat
  BY <1>1, VerificationAssumption DEF Checked, HostFor, RecentInv, TypeOK
<1>3. CheckInTime(m) /\ PassedIsRecent(m)
  BY DEF RecentInv
<1>4. /\ LastHeld(HostFor(m), slot[m].key) \in Int
      /\ Later(HostFor(m), slot[m].key) \in Int
      /\ Later(HostFor(m), slot[m].key) >= LastHeld(HostFor(m), slot[m].key)
  BY <1>2, LastHeldType, LaterGrows DEF RecentInv, Next
<1>5. UNCHANGED slot /\ now' = now + 1
  BY DEF Tick
<1>6. slot[m].spki \in {"waiting", "seen"} => now < slot[m].start + Delay
  BY <1>3 DEF Tick, CheckInTime
<1> QED
  BY <1>2, <1>3, <1>4, <1>5, <1>6
     DEF CheckInTime, PassedIsRecent, Checking, HostFor, LastHeld, Later

\* Every step keeps the messages' keys recent.
LEMMA RecentStep ==
    ASSUME RecentInv, [Next]_vars
    PROVE  RecentInv'
<1>1. TypeOK' /\ KeysInThePast' /\ PinsAreRecent'
  BY TypeStep, LastHeldGrows, PinsStayRecent DEF RecentInv, KeysInThePast
<1>2. ASSUME NEW m \in Slots, IsMessage(m)'
      PROVE  (CheckInTime(m) /\ PassedIsRecent(m))'
  <2>1. ASSUME slot'[m] = slot[m], now' = now
        PROVE  (CheckInTime(m) /\ PassedIsRecent(m))'
    BY <1>2, <2>1, SameSlot DEF IsMessage
  <2>2. ASSUME NEW n \in Slots, NEW kind \in Kinds \ {"message"}, HandleUnchecked(n, kind)
        PROVE  (CheckInTime(m) /\ PassedIsRecent(m))'
    <3>1. CASE n = m
      BY <1>2, <2>2, <3>1 DEF HandleUnchecked, RecentInv, TypeOK, IsMessage
    <3>2. CASE n # m
      BY <2>1, <2>2, <3>2 DEF HandleUnchecked, RecentInv, TypeOK
    <3> QED
      BY <3>1, <3>2
  <2>3. ASSUME NEW n \in Slots, NEW s \in Senders, HandleMessage(n, s)
        PROVE  (CheckInTime(m) /\ PassedIsRecent(m))'
    <3>1. CASE n = m
      BY <2>3, <3>1, NewSlotGood
    <3>2. CASE n # m
      BY <2>1, <2>3, <3>2 DEF HandleMessage, RecentInv, TypeOK
    <3> QED
      BY <3>1, <3>2
  <2>4. ASSUME NEW n \in Slots, Progressing(n)
        PROVE  (CheckInTime(m) /\ PassedIsRecent(m))'
    <3>1. CASE n = m
      BY <2>4, <3>1, ProgressGood
    <3>2. CASE n # m
      BY <2>1, <2>4, <3>2
         DEF Progressing, ProbeAnswered, KeySeen, ClosingFails, KeyCompared, Decide, RecentInv, TypeOK
    <3> QED
      BY <3>1, <3>2
  <2>5. CASE Tick
    BY <1>2, <2>5, TickGood DEF Tick, IsMessage
  <2>6. CASE Crash
    BY <1>2, <2>6 DEF Crash, Free, IsMessage
  <2>7. CASE UNCHANGED vars
    BY <2>1, <2>7 DEF vars
  <2> QED
    BY <2>1, <2>2, <2>3, <2>4, <2>5, <2>6, <2>7 DEF Next, Rotate, ClearPins
<1> QED
  BY <1>1, <1>2 DEF RecentInv

\* A key that passes the SPKI check was the host's own no longer ago than the
\* TTL and the time of one connection.
THEOREM PassedKeysAreRecent == Spec => []PassedKeyIsRecent
<1>1. Init => RecentInv
  <2>1. ASSUME Init
        PROVE  TypeOK
    BY <2>1 DEF Init, TypeOK
  <2>2. ASSUME Init
        PROVE  KeysInThePast /\ PinsAreRecent
    BY <2>2 DEF Init, KeysInThePast, PinsAreRecent, Never
  <2>3. ASSUME Init, NEW m \in Slots
        PROVE  ~IsMessage(m)
    BY <2>3 DEF Init, IsMessage, Free
  <2> QED
    BY <2>1, <2>2, <2>3 DEF RecentInv
<1>2. RecentInv /\ [Next]_vars => RecentInv'
  BY RecentStep
<1>3. RecentInv => PassedKeyIsRecent
  BY DEF RecentInv, PassedIsRecent, PassedKeyIsRecent, IsMessage
<1> QED
  BY <1>1, <1>2, <1>3, PTL DEF Spec

=============================================================================
