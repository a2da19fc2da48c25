----------------------------- MODULE Verification -----------------------------
(***************************************************************************)
(* Sender verification: VerifyingHandler, the probe, SPKI and combined     *)
(* verifiers, and the cache they share (verification/).  Messages are      *)
(* verified concurrently, one coroutine each; an action is what a          *)
(* coroutine does between two awaits.  The senders' servers are the        *)
(* environment: they change their keys, answer late, refuse, or are gone.  *)
(*                                                                         *)
(* The probe asks a sender's server whether the mailbox exists; nothing    *)
(* compares the fingerprint it returns, so only its time is kept.  The     *)
(* SPKI check pins the key of the server's host at first contact.          *)
(***************************************************************************)
EXTENDS Integers

CONSTANTS
    Hosts,          \* names of the senders' servers
    Senders,        \* addresses of senders
    HostOf,         \* the host of each sender's address
    Keys,           \* public keys (SPKI hashes)
    Slots,          \* messages being handled at a time
    TTL,            \* cache_ttl, in ticks
    Delay,          \* longest time a connection to a host takes, its closing
                    \* included, in ticks
    MaxTime, MaxMessages, MaxRotations, MaxClears, MaxCrashes   \* bounds

ASSUME VerificationAssumption ==
    /\ HostOf \in [Senders -> Hosts]
    /\ TTL \in Nat /\ Delay \in Nat
    /\ {MaxTime, MaxMessages, MaxRotations, MaxClears, MaxCrashes} \subseteq Nat

VARIABLES
    config,     \* [verification] mode, method and spki_on_change
    now,
    verified,   \* verified_senders: time each address was verified, or Never
    pinned,     \* server_spki: key and time recorded for each host, or NoPin
    slot,       \* the messages being handled
    key,        \* key[h]: the key h's server has now
    held,       \* held[h][k]: when h's server last had k before now, or Never
    count       \* messages, rotations, clears and crashes so far

vars == <<config, now, verified, pinned, slot, key, held, count>>

Never == -1
Pin == [key : Keys, at : Nat]
NoPin == [at |-> Never]

\* A check has not begun, waits for its answer, or has passed or failed; the
\* SPKI check has "seen" the key when it has it and still has to compare it.
Progress == {"unused", "waiting", "seen", "passed", "failed"}

\* What request.parse_message() makes of a message.
Kinds == {"message", "probe request", "anonymous", "unparsable"}

Free == [pc |-> "free"]

Unchecked == [pc : {"delivered", "refused"}, kind : Kinds \ {"message"}]

\* "key" is the key compared, by the check or in the cache, "at" when.
Checked == [pc : {"checking", "delivered", "refused"}, kind : {"message"},
            sender : Senders, probe : Progress, spki : Progress,
            key : Keys, at : Nat, start : Nat]

Init ==
    /\ config \in [mode : {"off", "optional", "required"},
                   method : {"probe", "spki", "probe+spki"},
                   spki_on_change : {"accept", "reject"}]
    /\ now = 0
    /\ verified = [s \in Senders |-> Never]
    /\ pinned = [h \in Hosts |-> NoPin]
    /\ slot = [m \in Slots |-> Free]
    /\ key \in [Hosts -> Keys]
    /\ held = [h \in Hosts |-> [k \in Keys |-> Never]]
    /\ count = [messages |-> 0, rotations |-> 0, clears |-> 0, crashes |-> 0]

Uses(check) == config.method \in {check, "probe+spki"}

Checking(m) == slot[m].pc = "checking"

HostFor(m) == HostOf[slot[m].sender]

-----------------------------------------------------------------------------
(* The cache: rows older than the TTL are there, but not for every query. *)

\* get_fingerprint
FreshSender(s) == verified[s] # Never /\ verified[s] >= now - TTL

\* Faulty query: the "verified_at >= cutoff" condition is gone.
FreshPin_NoExpiry(h) == pinned[h] # NoPin

\* get_server_spki
FreshPin(h) == pinned[h] # NoPin /\ pinned[h].at >= now - TTL

\* Faulty: the expired pin is not compared, so each expiry is a first contact.
MayPin_FreshOnly(h, k) ==
    \/ ~FreshPin(h)
    \/ pinned[h].key = k
    \/ config.spki_on_change = "accept"

\* get_last_server_spki and the comparison: may the key be recorded?  NoPin
\* is true first contact, any pin is compared even if it has expired.
MayPin(h, k) ==
    \/ pinned[h] = NoPin
    \/ pinned[h].key = k
    \/ config.spki_on_change = "accept"

-----------------------------------------------------------------------------
(* VerifyingHandler.handle_message *)

Receive(m) ==
    /\ ~Checking(m)
    /\ count.messages < MaxMessages
    /\ count' = [count EXCEPT !.messages = @ + 1]

\* Faulty guard: a message without senders is verified as well.
HandleUnchecked_Checked(m, kind) ==
    /\ Receive(m)
    /\ slot' = [slot EXCEPT ![m] =
                  [pc |-> IF kind = "anonymous" /\ config.mode = "required"
                            THEN "checking" ELSE "delivered",
                   kind |-> kind]]
    /\ UNCHANGED <<config, now, verified, pinned, key, held>>

\* A message that is not verified goes straight to the wrapped handler,
\* unless it names no sender and a verified one is required.
HandleUnchecked(m, kind) ==
    /\ Receive(m)
    /\ slot' = [slot EXCEPT ![m] =
                  [pc |-> IF kind = "anonymous" /\ config.mode = "required"
                            THEN "refused" ELSE "delivered",
                   kind |-> kind]]
    /\ UNCHANGED <<config, now, verified, pinned, key, held>>

\* verify_sender(message.senders[0]): each check used answers from the cache
\* or starts to wait for the host.
HandleMessage(m, s) ==
    /\ Receive(m)
    /\ config.mode # "off"
    /\ slot' = [slot EXCEPT ![m] =
         [pc |-> "checking", kind |-> "message", sender |-> s,
          probe |-> IF ~Uses("probe") THEN "unused"
                    ELSE IF FreshSender(s) THEN "passed" ELSE "waiting",
          spki |-> IF ~Uses("spki") THEN "unused"
                   ELSE IF FreshPin(HostOf[s]) THEN "passed" ELSE "waiting",
          key |-> IF FreshPin(HostOf[s]) THEN pinned[HostOf[s]].key
                                         ELSE key[HostOf[s]],
          at |-> now, start |-> now]]
    /\ UNCHANGED <<config, now, verified, pinned, key, held>>

\* The probe's answer: only success (20 with a fingerprint) is cached.
ProbeAnswered(m, ok) ==
    /\ Checking(m) /\ slot[m].probe = "waiting"
    /\ slot' = [slot EXCEPT ![m].probe = IF ok THEN "passed" ELSE "failed"]
    /\ verified' = IF ok THEN [verified EXCEPT ![slot[m].sender] = now] ELSE verified
    /\ UNCHANGED <<config, now, pinned, key, held, count>>

\* _fetch_server_spki: the handshake shows the host's key, or fails.  The
\* connection is still to be closed.
KeySeen(m, ok) ==
    /\ Checking(m) /\ slot[m].spki = "waiting"
    /\ slot' = [slot EXCEPT ![m].spki = IF ok THEN "seen" ELSE "failed",
                            ![m].key = key[HostFor(m)]]
    /\ UNCHANGED <<config, now, verified, pinned, key, held, count>>

\* The connection does not close properly: an exception, and the key is lost.
ClosingFails(m) ==
    /\ Checking(m) /\ slot[m].spki = "seen"
    /\ slot' = [slot EXCEPT ![m].spki = "failed"]
    /\ UNCHANGED <<config, now, verified, pinned, key, held, count>>

\* The rest of SPKIVerifier.verify_sender, with _handle_spki_change: the last
\* known key is read now, after the await.
KeyCompared(m) ==
    /\ Checking(m) /\ slot[m].spki = "seen"
    /\ LET h == HostFor(m)
           ok == MayPin(h, slot[m].key)
       IN  /\ slot' = [slot EXCEPT ![m].spki = IF ok THEN "passed" ELSE "failed",
                                   ![m].at = now]
           /\ pinned' = IF ok THEN [pinned EXCEPT ![h] = [key |-> slot[m].key, at |-> now]]
                              ELSE pinned
    /\ UNCHANGED <<config, now, verified, key, held, count>>

Outcomes(m) == {slot[m].probe, slot[m].spki} \ {"unused"}

\* Faulty combination: one check that passes is enough.
IsVerified_Any(m) == "passed" \in Outcomes(m)

\* CombinedVerifier: both checks must pass.
IsVerified(m) == Outcomes(m) = {"passed"}

\* All checks have answered: deliver, or refuse.
Decide(m) ==
    /\ Checking(m)
    /\ Outcomes(m) \subseteq {"passed", "failed"}
    /\ slot' = [slot EXCEPT ![m].pc =
                  IF IsVerified(m) \/ config.mode # "required"
                    THEN "delivered" ELSE "refused"]
    /\ UNCHANGED <<config, now, verified, pinned, key, held, count>>

-----------------------------------------------------------------------------
(* The environment *)

\* The connection of an SPKI check does not last longer than its timeout; a
\* probe, which may redirect and retry, can take any time.
Tick ==
    /\ now < MaxTime
    /\ \A m \in Slots :
         Checking(m) /\ slot[m].spki \in {"waiting", "seen"} => now < slot[m].start + Delay
    /\ now' = now + 1
    /\ UNCHANGED <<config, verified, pinned, slot, key, held, count>>

\* A host's operator renews its key.
Rotate(h) ==
    /\ count.rotations < MaxRotations
    /\ \E k \in Keys \ {key[h]} : key' = [key EXCEPT ![h] = k]
    /\ held' = [held EXCEPT ![h][key[h]] = now]
    /\ count' = [count EXCEPT !.rotations = @ + 1]
    /\ UNCHANGED <<config, now, verified, pinned, slot>>

\* "titlani verification spki clear", another process: clear_server_spki.
ClearPins ==
    /\ count.clears < MaxClears
    /\ pinned' = [h \in Hosts |-> NoPin]
    /\ count' = [count EXCEPT !.clears = @ + 1]
    /\ UNCHANGED <<config, now, verified, slot, key, held>>

\* The server stops and starts again: the cache is on disk.
Crash ==
    /\ count.crashes < MaxCrashes
    /\ slot' = [m \in Slots |-> Free]
    /\ count' = [count EXCEPT !.crashes = @ + 1]
    /\ UNCHANGED <<config, now, verified, pinned, key, held>>

-----------------------------------------------------------------------------

Progressing(m) ==
    \/ \E ok \in BOOLEAN : ProbeAnswered(m, ok) \/ KeySeen(m, ok)
    \/ ClosingFails(m) \/ KeyCompared(m)
    \/ Decide(m)

Next ==
    \/ \E m \in Slots :
         \/ \E kind \in Kinds \ {"message"} : HandleUnchecked(m, kind)
         \/ \E s \in Senders : HandleMessage(m, s)
         \/ Progressing(m)
    \/ Tick
    \/ \E h \in Hosts : Rotate(h)
    \/ ClearPins
    \/ Crash

Spec == Init /\ [][Next]_vars

-----------------------------------------------------------------------------
(* Properties *)

TypeOK ==
    /\ config \in [mode : {"off", "optional", "required"},
                   method : {"probe", "spki", "probe+spki"},
                   spki_on_change : {"accept", "reject"}]
    /\ now \in Nat
    /\ verified \in [Senders -> Nat \cup {Never}]
    /\ pinned \in [Hosts -> Pin \cup {NoPin}]
    /\ slot \in [Slots -> {Free} \cup Unchecked \cup Checked]
    /\ key \in [Hosts -> Keys]
    /\ held \in [Hosts -> [Keys -> Nat \cup {Never}]]
    /\ count \in [{"messages", "rotations", "clears", "crashes"} -> Nat]

\* The last time h's server had key k.
LastHeld(h, k) == IF key[h] = k THEN now ELSE held[h][k]

\* A key that passes the SPKI check, from the network or from the cache, was
\* the host's own no longer ago than the TTL and one connection's time, also
\* when an answer is late, the key changes under way, another message
\* refreshes the pin meanwhile, or the server has restarted.
PassedKeyIsRecent ==
    \A m \in Slots :
        slot[m].pc # "free" /\ slot[m].kind = "message" /\ slot[m].spki = "passed"
            => LastHeld(HostFor(m), slot[m].key) >= slot[m].at - TTL - Delay

\* With spki_on_change = "reject" a pinned key is never replaced, whatever
\* the order in which concurrent checks end, and neither by the expiry of
\* the pin nor by a restart: only "spki clear" removes it.
PinIsKept ==
    [][config.spki_on_change = "reject" =>
         \A h \in Hosts : pinned[h] # NoPin /\ pinned'[h] # NoPin
                            => pinned'[h].key = pinned[h].key]_vars

\* When verification is required, a message that names a sender is delivered
\* only if every check in use has passed for it.
RequiredMeansChecked ==
    \A m \in Slots :
        config.mode = "required" /\ slot[m].pc = "delivered" /\ slot[m].kind = "message"
            => /\ Uses("probe") => slot[m].probe = "passed"
               /\ Uses("spki") => slot[m].spki = "passed"
=============================================================================
