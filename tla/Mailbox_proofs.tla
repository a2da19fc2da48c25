---------------------------- MODULE Mailbox_proofs ----------------------------
(***************************************************************************)
(* Proofs about Mailbox, for any number of addresses, shells and messages  *)
(* and any workload.  The state is in three parts that share no variable,  *)
(* the block list, the list's identity and the messages; each has its      *)
(* invariant, and every step is a step of some of the parts.  The last     *)
(* part proves that the messages are a MailStore.                          *)
(***************************************************************************)
EXTENDS Mailbox, FiniteSetTheorems, TLAPS

-----------------------------------------------------------------------------
(* What a step may be to each of the three parts *)

BlockStep ==
    \/ \E s \in Shells, a \in Addresses :
         editing[s].pc = "idle" /\ (Block(s, a) \/ Unblock(s, a))
    \/ \E s \in Shells : TruncateBlocked(s) \/ WriteBlocked(s) \/ UnlinkBlocked(s) \/ EditKilled(s)
    \/ UNCHANGED blockVars

IdentityStep ==
    \/ \E m \in Makers :
         \/ making[m].pc = "idle" /\ GetIdentity(m)
         \/ OpenCert(m) \/ WriteCert(m) \/ OpenKey(m) \/ WriteKey(m) \/ LoadIdentity(m)
         \/ MakeKilled(m)
    \/ UNCHANGED identityVars

\* "StartTask" and "ServerCrash" are steps of the messages and the identity.
MailStep ==
    \/ \E senders \in SUBSET Addresses, checked \in BOOLEAN : Receive(senders, checked)
    \/ CreateFile \/ FillFile \/ ChmodFile \/ TruncateMeta \/ WriteMeta \/ Reply
    \/ StartTask
    \/ ServerCrash
    \/ \E s \in Shells :
         \/ \E what \in {"list", "read", "delete"}, i \in Nat : MailCommand(s, what, i)
         \/ GlobRead(s) \/ GlobNew(s) \/ Parse(s) \/ ReadFile(s) \/ Unlink(s)
    \/ UNCHANGED mailVars

CountStep ==
    \/ UNCHANGED count
    \/ \E what \in Kinds : Counted(what)

LEMMA Parts == [Next]_vars => BlockStep /\ IdentityStep /\ MailStep /\ CountStep
<1> SUFFICES ASSUME [Next]_vars
             PROVE  BlockStep /\ IdentityStep /\ MailStep /\ CountStep
  OBVIOUS
<1> USE MailboxAssumption
<1> DEFINE MailSame == UNCHANGED mailVars
           BlockSame == UNCHANGED blockVars
           IdentitySame == UNCHANGED identityVars
<1>1. CASE UNCHANGED vars
  BY <1>1 DEF vars, BlockStep, IdentityStep, MailStep, CountStep
<1>2. ASSUME NEW senders \in SUBSET Addresses, NEW checked \in BOOLEAN,
             Receive(senders, checked)
      PROVE  BlockStep /\ IdentityStep /\ MailStep /\ CountStep
  BY <1>2 DEF Receive, BlockStep, IdentityStep, MailStep, CountStep, Kinds
<1>3. CASE CreateFile \/ FillFile \/ ChmodFile \/ TruncateMeta \/ WriteMeta \/ Reply
  <2>1. BlockSame /\ IdentitySame /\ UNCHANGED count
    BY <1>3 DEF CreateFile, FillFile, ChmodFile, TruncateMeta, WriteMeta, Reply
  <2> QED BY <1>3, <2>1 DEF BlockStep, IdentityStep, MailStep, CountStep
<1>4. CASE StartTask
  <2>1. BlockSame /\ Counted("identity") /\ making[Server].pc = "idle" /\ GetIdentity(Server)
    BY <1>4 DEF StartTask, ServerIdle
  <2> QED BY <1>4, <2>1 DEF BlockStep, IdentityStep, MailStep, CountStep, Kinds
<1>5. CASE ServerCrash
  <2>1. BlockSame /\ Counted("crashes") /\ (IdentitySame \/ MakeKilled(Server))
    BY <1>5 DEF ServerCrash
  <2> QED BY <1>5, <2>1 DEF BlockStep, IdentityStep, MailStep, CountStep, Kinds
<1>6. ASSUME NEW s \in Shells, NEW what \in {"list", "read", "delete"}, NEW i \in Nat,
             MailCommand(s, what, i)
      PROVE  BlockStep /\ IdentityStep /\ MailStep /\ CountStep
  <2>1. BlockSame /\ IdentitySame /\ Counted("mail")
    BY <1>6 DEF MailCommand, Starts
  <2> QED BY <1>6, <2>1 DEF BlockStep, IdentityStep, MailStep, CountStep, Kinds
<1>7. ASSUME NEW s \in Shells,
             GlobRead(s) \/ GlobNew(s) \/ Parse(s) \/ ReadFile(s) \/ Unlink(s)
      PROVE  BlockStep /\ IdentityStep /\ MailStep /\ CountStep
  <2>1. BlockSame /\ IdentitySame /\ UNCHANGED count
    BY <1>7 DEF GlobRead, GlobNew, Parse, ReadFile, Unlink, OnlyReads
  <2> QED BY <1>7, <2>1 DEF BlockStep, IdentityStep, MailStep, CountStep
<1>8. ASSUME NEW s \in Shells, NEW a \in Addresses, BlockCommand(s, a)
      PROVE  BlockStep /\ IdentityStep /\ MailStep /\ CountStep
  <2>1. MailSame /\ IdentitySame /\ Counted("block") /\ editing[s].pc = "idle"
    BY <1>8 DEF BlockCommand, Starts
  <2> QED BY <1>8, <2>1 DEF BlockCommand, BlockStep, IdentityStep, MailStep, CountStep, Kinds
<1>9. ASSUME NEW s \in Shells, EditStep(s), UNCHANGED <<identityVars, mailVars, count>>
      PROVE  BlockStep /\ IdentityStep /\ MailStep /\ CountStep
  BY <1>9 DEF EditStep, BlockStep, IdentityStep, MailStep, CountStep
<1>10. ASSUME NEW s \in Shells, ListAdd(s)
       PROVE  BlockStep /\ IdentityStep /\ MailStep /\ CountStep
  <2>1. MailSame /\ BlockSame /\ Counted("identity") /\ making[s].pc = "idle" /\ GetIdentity(s)
    BY <1>10 DEF ListAdd, Starts
  <2> QED BY <2>1 DEF BlockStep, IdentityStep, MailStep, CountStep, Kinds
<1>11. ASSUME NEW s \in Shells, KillCommand(s)
       PROVE  BlockStep /\ IdentityStep /\ MailStep /\ CountStep
  <2>1. MailSame /\ Counted("crashes")
    BY <1>11 DEF KillCommand
  <2>2. CASE EditKilled(s) /\ IdentitySame
    BY <2>1, <2>2 DEF BlockStep, IdentityStep, MailStep, CountStep, Kinds
  <2>3. CASE MakeKilled(s) /\ BlockSame
    BY <2>1, <2>3 DEF BlockStep, IdentityStep, MailStep, CountStep, Kinds
  <2> QED BY <1>11, <2>2, <2>3 DEF KillCommand
<1>12. ASSUME NEW m \in Makers, MakeStep(m), UNCHANGED <<blockVars, mailVars, count>>
       PROVE  BlockStep /\ IdentityStep /\ MailStep /\ CountStep
  BY <1>12 DEF MakeStep, BlockStep, IdentityStep, MailStep, CountStep
<1>13. ASSUME NEW i \in 1..Cardinality(Names)
       PROVE  i \in Nat
  BY <1>13
<1>14. CASE ServerStep
  BY <1>2, <1>3, <1>4, <1>5, <1>14 DEF ServerStep
<1>15. ASSUME NEW s \in Shells, ShellStep(s)
       PROVE  BlockStep /\ IdentityStep /\ MailStep /\ CountStep
  BY <1>6, <1>7, <1>8, <1>9, <1>10, <1>11, <1>13, <1>15 DEF ShellStep
<1> QED BY <1>1, <1>12, <1>14, <1>15 DEF Next

-----------------------------------------------------------------------------
(* The block list *)

\* What is reported when s's command ends.
Outcome(s) ==
    IF editing[s].addr \subseteq editing[s].lines THEN reported \cup editing[s].addr
                                                  ELSE reported \ editing[s].addr

AtWork(s) == editing[s].pc # "idle"

\* Without overlaps there is one command at work at most; what it is about to
\* write is what it will report, and until it opens the file, and after it has
\* written it, the file is what has been reported.
OneEdit ==
    /\ \A s, q \in Shells : AtWork(s) /\ AtWork(q) => s = q
    /\ \A s \in Shells : AtWork(s) =>
         /\ Outcome(s) = editing[s].lines
         /\ editing[s].pc # "writeGone"
         /\ editing[s].pc = "write" => blocked.lines = {}
         /\ editing[s].pc \in {"truncate", "unlink"} => blocked.lines = reported
         /\ editing[s].pc = "unlink" => blocked.there /\ editing[s].lines = {}
    /\ (\A s \in Shells : ~AtWork(s)) => blocked.lines = reported

BlockInv ==
    /\ BlockTypeOK
    /\ ~blocked.there => blocked.lines = {}
    /\ ~rough => OneEdit

LEMMA BlockListStarts == Init => BlockInv
<1> SUFFICES ASSUME Init PROVE BlockInv
  OBVIOUS
<1>1. /\ blocked = [there |-> FALSE, lines |-> {}]
      /\ editing = [s \in Shells |-> NoEdit] /\ reported = {} /\ rough = FALSE
  BY DEF Init, BlockInit, NoBlockFile
<1>2. NoEdit \in Edit /\ NoEdit.pc = "idle"
  BY DEF NoEdit, Edit
<1>3. BlockTypeOK
  BY <1>1, <1>2 DEF BlockTypeOK, BlockFile
<1>4. OneEdit
  BY <1>1, <1>2 DEF OneEdit, AtWork
<1> QED BY <1>1, <1>3, <1>4 DEF BlockInv

LEMMA BlockTypeStep == BlockTypeOK /\ BlockStep => BlockTypeOK'
<1> SUFFICES ASSUME BlockTypeOK, BlockStep PROVE BlockTypeOK'
  OBVIOUS
<1> USE DEF BlockTypeOK, BlockFile, Edit, NoEdit, NoBlockFile
<1>1. ASSUME NEW s \in Shells, NEW a \in Addresses, Block(s, a) \/ Unblock(s, a)
      PROVE  BlockTypeOK'
  <2>1. rough' \in BOOLEAN
    BY <1>1 DEF Block, Unblock
  <2>2. ASSUME NEW set \in SUBSET Addresses, OnlyReports(set)
        PROVE  blocked' \in BlockFile /\ editing' \in [Shells -> Edit] /\ reported' \subseteq Addresses
    BY <2>2 DEF OnlyReports
  <2>3. ASSUME NEW step \in {"truncate", "unlink"}, NEW lines \in SUBSET Addresses,
               Edits(s, a, step, lines)
        PROVE  blocked' \in BlockFile /\ editing' \in [Shells -> Edit] /\ reported' \subseteq Addresses
    BY <2>3 DEF Edits
  <2>4. /\ blocked.lines \cup {a} \in SUBSET Addresses /\ blocked.lines \ {a} \in SUBSET Addresses
        /\ reported \cup {a} \in SUBSET Addresses /\ reported \ {a} \in SUBSET Addresses
    OBVIOUS
  <2> HIDE DEF BlockFile, Edit
  <2>5. CASE Block(s, a)
    BY <2>1, <2>2, <2>3, <2>4, <2>5 DEF Block
  <2>6. CASE Unblock(s, a)
    BY <2>1, <2>2, <2>3, <2>4, <2>6 DEF Unblock
  <2> QED BY <1>1, <2>5, <2>6
<1>2. ASSUME NEW s \in Shells, TruncateBlocked(s)
      PROVE  BlockTypeOK'
  BY <1>2 DEF TruncateBlocked
<1>3. ASSUME NEW s \in Shells, WriteBlocked(s)
      PROVE  BlockTypeOK'
  <2>1. blocked' \in BlockFile
    <3>1. CASE editing[s].pc = "write"
      <4>1. PICK rest \in SUBSET blocked.lines :
              blocked' = [there |-> TRUE, lines |-> editing[s].lines \cup rest]
        BY <1>3, <3>1 DEF WriteBlocked
      <4> QED BY <4>1
    <3>2. CASE editing[s].pc # "write"
      BY <1>3, <3>2 DEF WriteBlocked
    <3> QED BY <3>1, <3>2
  <2>2. editing' \in [Shells -> Edit]
    BY <1>3 DEF WriteBlocked, EditEnds
  <2>3. reported' \subseteq Addresses /\ rough' \in BOOLEAN
    BY <1>3 DEF WriteBlocked, ReportEdit
  <2> QED BY <2>1, <2>2, <2>3
<1>4. ASSUME NEW s \in Shells, UnlinkBlocked(s)
      PROVE  BlockTypeOK'
  <2>1. \A q \in Shells : [editing[q] EXCEPT !.pc = "writeGone"] \in Edit
    OBVIOUS
  <2>2. editing' \in [Shells -> Edit]
    BY <1>4, <2>1 DEF UnlinkBlocked
  <2>3. blocked' \in BlockFile /\ reported' \subseteq Addresses /\ rough' \in BOOLEAN
    BY <1>4 DEF UnlinkBlocked, ReportEdit
  <2> QED BY <2>2, <2>3
<1>5. ASSUME NEW s \in Shells, EditKilled(s)
      PROVE  BlockTypeOK'
  BY <1>5 DEF EditKilled, EditEnds
<1>6. CASE UNCHANGED blockVars
  BY <1>6 DEF blockVars
<1> QED BY <1>1, <1>2, <1>3, <1>4, <1>5, <1>6 DEF BlockStep

LEMMA BlockInvStep == BlockInv /\ BlockStep => BlockInv'
<1> SUFFICES ASSUME BlockInv, BlockStep PROVE BlockInv'
  OBVIOUS
<1>1. BlockTypeOK' /\ editing \in [Shells -> Edit] /\ blocked \in BlockFile
  BY BlockTypeStep DEF BlockInv, BlockTypeOK
<1> USE <1>1 DEF BlockInv, AtWork
<1>2. ASSUME NEW s \in Shells, NEW a \in Addresses, editing[s].pc = "idle",
             Block(s, a) \/ Unblock(s, a)
      PROVE  BlockInv'
  <2>1. ~blocked'.there => blocked'.lines = {}
    BY <1>2 DEF Block, Unblock, OnlyReports, Edits
  <2>2. ASSUME ~rough' PROVE OneEdit'
    <3>1. ~rough /\ OneEdit /\ \A q \in Shells : editing[q].pc = "idle"
      BY <1>2, <2>2 DEF Block, Unblock, Calm
    <3>2. blocked.lines = reported
      BY <3>1 DEF OneEdit
    <3>3. CASE \E set \in {reported \cup {a}, reported \ {a}} : OnlyReports(set) /\ set = reported
      BY <3>1, <3>2, <3>3 DEF OneEdit, OnlyReports
    <3>4. ASSUME NEW step \in {"truncate", "unlink"}, NEW lines \in SUBSET Addresses,
                 Edits(s, a, step, lines),
                 \/ lines = reported \cup {a} /\ step = "truncate"
                 \/ /\ lines = reported \ {a} /\ a \in reported
                    /\ step = "unlink" => lines = {}
          PROVE  OneEdit'
      <4>1. /\ editing'[s] = [pc |-> step, addr |-> {a}, lines |-> lines]
            /\ \A q \in Shells \ {s} : editing'[q] = editing[q]
            /\ UNCHANGED <<blocked, reported>>
        BY <3>4 DEF Edits
      <4>2. Outcome(s)' = editing'[s].lines
        BY <3>4, <4>1 DEF Outcome
      <4>3. step = "unlink" => blocked.there
        BY <3>2, <3>4
      <4> QED BY <3>1, <3>2, <3>4, <4>1, <4>2, <4>3 DEF OneEdit
    <3>5. CASE Block(s, a)
      <4>1. reported \cup {a} \in SUBSET Addresses
        BY <3>2 DEF BlockFile
      <4>2. CASE a \in blocked.lines
        <5>1. OnlyReports(reported \cup {a}) /\ reported \cup {a} = reported
          BY <3>2, <3>5, <4>2 DEF Block
        <5> QED BY <3>3, <5>1
      <4>3. CASE a \notin blocked.lines
        <5>1. Edits(s, a, "truncate", reported \cup {a})
          BY <3>2, <3>5, <4>3 DEF Block
        <5> QED BY <3>4, <4>1, <5>1
      <4> QED BY <4>2, <4>3
    <3>6. CASE Unblock(s, a)
      <4>1. reported \ {a} \in SUBSET Addresses
        BY <3>2 DEF BlockFile
      <4>2. CASE a \notin blocked.lines
        <5>1. OnlyReports(reported \ {a}) /\ reported \ {a} = reported
          BY <3>2, <3>6, <4>2 DEF Unblock
        <5> QED BY <3>3, <5>1
      <4>3. CASE a \in blocked.lines
        <5>1. /\ a \in reported
              /\ Edits(s, a, IF reported \ {a} = {} THEN "unlink" ELSE "truncate",
                       reported \ {a})
          BY <3>2, <3>6, <4>3 DEF Unblock
        <5> QED BY <3>4, <4>1, <5>1
      <4> QED BY <4>2, <4>3
    <3> QED BY <1>2, <3>5, <3>6
  <2> QED BY <2>1, <2>2
<1>3. ASSUME NEW s \in Shells, TruncateBlocked(s)
      PROVE  BlockInv'
  <2>1. /\ editing[s].pc = "truncate" /\ editing'[s] = [editing[s] EXCEPT !.pc = "write"]
        /\ \A q \in Shells \ {s} : editing'[q] = editing[q]
        /\ blocked' = [there |-> TRUE, lines |-> {}]
        /\ UNCHANGED <<reported, rough>>
    BY <1>3 DEF TruncateBlocked
  <2>2. editing'[s].pc = "write" /\ editing'[s].addr = editing[s].addr
        /\ editing'[s].lines = editing[s].lines
    BY <2>1 DEF Edit
  <2>3. Outcome(s)' = Outcome(s)
    BY <2>1, <2>2 DEF Outcome
  <2>4. ASSUME ~rough PROVE OneEdit'
    <3>1. \A q \in Shells \ {s} : editing'[q].pc = "idle"
      BY <2>1, <2>4 DEF OneEdit
    <3>2. Outcome(s) = editing[s].lines
      BY <2>1, <2>4 DEF OneEdit
    <3>3. Outcome(s)' = editing'[s].lines /\ blocked'.lines = {}
      BY <2>1, <2>2, <2>3, <3>2
    <3> QED BY <2>2, <3>1, <3>3 DEF OneEdit
  <2> QED BY <2>1, <2>4
<1>4. ASSUME NEW s \in Shells, WriteBlocked(s)
      PROVE  BlockInv'
  <2>1. /\ editing[s].pc \in {"write", "writeGone"} /\ editing'[s] = NoEdit
        /\ \A q \in Shells \ {s} : editing'[q] = editing[q]
        /\ reported' = Outcome(s) /\ UNCHANGED rough
    BY <1>4 DEF WriteBlocked, EditEnds, ReportEdit, Outcome
  <2>2. editing'[s].pc = "idle"
    BY <2>1 DEF NoEdit
  <2>3. ~blocked'.there => blocked'.lines = {}
    BY <1>4 DEF WriteBlocked
  <2>4. ASSUME ~rough PROVE OneEdit'
    <3>1. /\ \A q \in Shells : editing'[q].pc = "idle"
          /\ editing[s].pc = "write" /\ blocked.lines = {} /\ Outcome(s) = editing[s].lines
      BY <2>1, <2>2, <2>4 DEF OneEdit
    <3>2. blocked'.lines = editing[s].lines
      <4>1. PICK rest \in SUBSET blocked.lines :
              blocked' = [there |-> TRUE, lines |-> editing[s].lines \cup rest]
        BY <1>4, <3>1 DEF WriteBlocked
      <4> QED BY <3>1, <4>1
    <3> QED BY <2>1, <3>1, <3>2 DEF OneEdit
  <2> QED BY <2>1, <2>3, <2>4
<1>5. ASSUME NEW s \in Shells, UnlinkBlocked(s)
      PROVE  BlockInv'
  <2>1. /\ editing[s].pc = "unlink" /\ blocked' = NoBlockFile /\ UNCHANGED rough
        /\ blocked.there => reported' = Outcome(s)
    BY <1>5 DEF UnlinkBlocked, ReportEdit, Outcome
  <2>2. /\ editing'[s] = NoEdit
        /\ \A q \in Shells \ {s} : editing[q].pc # "write" => editing'[q] = editing[q]
    BY <1>5 DEF UnlinkBlocked
  <2>3. ASSUME ~rough PROVE OneEdit'
    <3>1. /\ \A q \in Shells \ {s} : editing[q].pc = "idle"
          /\ blocked.there /\ Outcome(s) = {}
      BY <2>1, <2>3 DEF OneEdit
    <3>2. \A q \in Shells : editing'[q].pc = "idle"
      BY <2>2, <3>1 DEF NoEdit
    <3> QED BY <2>1, <3>1, <3>2 DEF OneEdit, NoBlockFile
  <2> QED BY <2>1, <2>3 DEF NoBlockFile
<1>6. ASSUME NEW s \in Shells, EditKilled(s)
      PROVE  BlockInv'
  BY <1>6 DEF EditKilled
<1>7. CASE UNCHANGED blockVars
  BY <1>7 DEF blockVars, OneEdit, Outcome
<1> QED BY <1>2, <1>3, <1>4, <1>5, <1>6, <1>7 DEF BlockStep

-----------------------------------------------------------------------------
(* The identity *)

\* Without a clash one process makes a pair at most.  While it has not opened
\* the key, the key there is none of a pair; from when the certificate is
\* written to when the key is, the certificate is of the pair being made.
OneMaker ==
    /\ \A m, q \in Makers : Making(m) /\ Making(q) => m = q
    /\ \A m \in Makers : Making(m) =>
         /\ ~Generated(key)
         /\ making[m].pc \in {"openKey", "writeKey"} => cert = making[m].pair
    /\ Generated(key) => cert = key

IdentityInv == IdentityTypeOK /\ (~clash => OneMaker)

LEMMA IdentityStarts == Init => IdentityInv
<1> SUFFICES ASSUME Init PROVE IdentityInv
  OBVIOUS
<1>1. /\ cert = 0 /\ key = 0 /\ made = 0 /\ clash = FALSE
      /\ making = [m \in Makers |-> NoMake]
  BY DEF Init, IdentityInit, Absent
<1>2. NoMake \in Make /\ NoMake.pc = "idle"
  BY DEF NoMake, Make
<1>3. IdentityTypeOK
  BY <1>1, <1>2 DEF IdentityTypeOK
<1>4. OneMaker
  BY <1>1, <1>2 DEF OneMaker, Making, Generated
<1> QED BY <1>3, <1>4 DEF IdentityInv

LEMMA IdentityInvStep == IdentityInv /\ IdentityStep => IdentityInv'
<1> SUFFICES ASSUME IdentityInv, IdentityStep PROVE IdentityInv'
  OBVIOUS
<1>1. /\ cert \in Nat /\ key \in Nat /\ made \in Nat /\ clash \in BOOLEAN
      /\ making \in [Makers -> Make]
  BY DEF IdentityInv, IdentityTypeOK
<1>2. ASSUME NEW m \in Makers, making[m].pc = "idle", GetIdentity(m)
      PROVE  IdentityInv'
  <2>1. CASE cert # Absent /\ key # Absent
    <3>1. /\ making' = [making EXCEPT ![m] = [pc |-> "load", pair |-> 0]]
          /\ UNCHANGED <<cert, key, made, clash>>
      BY <1>2, <2>1 DEF GetIdentity
    <3>2. IdentityTypeOK'
      BY <1>1, <3>1 DEF IdentityTypeOK, Make
    <3>3. /\ ~Making(m)' /\ \A q \in Makers \ {m} : making'[q] = making[q]
      BY <1>1, <3>1 DEF Making
    <3>4. OneMaker => OneMaker'
      BY <3>1, <3>3 DEF OneMaker, Making, Generated
    <3> QED BY <3>1, <3>2, <3>4 DEF IdentityInv
  <2>2. CASE ~(cert # Absent /\ key # Absent)
    <3>1. /\ making' = [making EXCEPT ![m] = [pc |-> "openCert", pair |-> made + 2]]
          /\ made' = made + 1 /\ UNCHANGED <<cert, key>>
          /\ clash' = (clash \/ \E q \in Makers \ {m} : Making(q))
      BY <1>2, <2>2 DEF GetIdentity
    <3>2. IdentityTypeOK'
      BY <1>1, <3>1 DEF IdentityTypeOK, Make
    <3>3. ASSUME ~clash' PROVE OneMaker'
      <4>1. /\ ~clash /\ OneMaker
            /\ \A q \in Makers \ {m} : ~Making(q) /\ making'[q] = making[q]
        BY <1>1, <3>1, <3>3 DEF IdentityInv
      <4>2. ~Generated(key)
        BY <2>2, <4>1 DEF OneMaker, Generated, Absent
      <4>3. making'[m].pc = "openCert"
        BY <1>1, <3>1
      <4> QED BY <3>1, <4>1, <4>2, <4>3 DEF OneMaker, Making, Generated
    <3> QED BY <3>2, <3>3 DEF IdentityInv
  <2> QED BY <2>1, <2>2
<1>3. ASSUME NEW m \in Makers, OpenCert(m)
      PROVE  IdentityInv'
  <2>1. /\ making[m].pc = "openCert" /\ cert' = 1 /\ UNCHANGED <<key, made, clash>>
        /\ making' = [making EXCEPT ![m].pc = "writeCert"]
    BY <1>3 DEF OpenCert, MakingOn, Empty
  <2>2. IdentityTypeOK'
    BY <1>1, <2>1 DEF IdentityTypeOK, Make
  <2>3. making'[m].pc = "writeCert" /\ \A q \in Makers \ {m} : making'[q] = making[q]
    BY <1>1, <2>1 DEF Make
  <2>4. OneMaker => OneMaker'
    BY <2>1, <2>3 DEF OneMaker, Making, Generated
  <2> QED BY <2>1, <2>2, <2>4 DEF IdentityInv
<1>4. ASSUME NEW m \in Makers, WriteCert(m)
      PROVE  IdentityInv'
  <2>1. /\ making[m].pc = "writeCert" /\ cert' = making[m].pair
        /\ UNCHANGED <<key, made, clash>>
        /\ making' = [making EXCEPT ![m].pc = "openKey"]
    BY <1>4 DEF WriteCert, MakingOn
  <2>2. IdentityTypeOK'
    BY <1>1, <2>1 DEF IdentityTypeOK, Make
  <2>3. /\ making'[m].pc = "openKey" /\ making'[m].pair = making[m].pair
        /\ \A q \in Makers \ {m} : making'[q] = making[q]
    BY <1>1, <2>1 DEF Make
  <2>4. OneMaker => OneMaker'
    BY <2>1, <2>3 DEF OneMaker, Making, Generated
  <2> QED BY <2>1, <2>2, <2>4 DEF IdentityInv
<1>5. ASSUME NEW m \in Makers, OpenKey(m)
      PROVE  IdentityInv'
  <2>1. /\ making[m].pc = "openKey" /\ key' = 1 /\ UNCHANGED <<cert, made, clash>>
        /\ making' = [making EXCEPT ![m].pc = "writeKey"]
    BY <1>5 DEF OpenKey, MakingOn, Empty
  <2>2. IdentityTypeOK'
    BY <1>1, <2>1 DEF IdentityTypeOK, Make
  <2>3. /\ making'[m].pc = "writeKey" /\ making'[m].pair = making[m].pair
        /\ \A q \in Makers \ {m} : making'[q] = making[q]
    BY <1>1, <2>1 DEF Make
  <2>4. OneMaker => OneMaker'
    BY <2>1, <2>3 DEF OneMaker, Making, Generated
  <2> QED BY <2>1, <2>2, <2>4 DEF IdentityInv
<1>6. ASSUME NEW m \in Makers, WriteKey(m)
      PROVE  IdentityInv'
  <2>1. /\ making[m].pc = "writeKey" /\ key' = making[m].pair
        /\ UNCHANGED <<cert, made, clash>>
        /\ making' = [making EXCEPT ![m].pc = "load"]
    BY <1>6 DEF WriteKey, MakingOn
  <2>2. IdentityTypeOK'
    BY <1>1, <2>1 DEF IdentityTypeOK, Make
  <2>3. making'[m].pc = "load" /\ \A q \in Makers \ {m} : making'[q] = making[q]
    BY <1>1, <2>1 DEF Make
  <2>4. OneMaker => OneMaker'
    BY <2>1, <2>3 DEF OneMaker, Making, Generated
  <2> QED BY <2>1, <2>2, <2>4 DEF IdentityInv
<1>7. ASSUME NEW m \in Makers, LoadIdentity(m) \/ MakeKilled(m)
      PROVE  IdentityInv'
  <2>1. /\ making' = [making EXCEPT ![m] = NoMake] /\ UNCHANGED <<cert, key, made, clash>>
    BY <1>7 DEF LoadIdentity, MakeKilled
  <2>2. IdentityTypeOK'
    BY <1>1, <2>1 DEF IdentityTypeOK, Make, NoMake
  <2>3. making'[m].pc = "idle" /\ \A q \in Makers \ {m} : making'[q] = making[q]
    BY <1>1, <2>1 DEF NoMake
  <2>4. OneMaker => OneMaker'
    BY <2>1, <2>3 DEF OneMaker, Making, Generated
  <2> QED BY <2>1, <2>2, <2>4 DEF IdentityInv
<1>8. CASE UNCHANGED identityVars
  BY <1>8 DEF identityVars, IdentityInv, IdentityTypeOK, OneMaker, Making, Generated
<1> QED BY <1>2, <1>3, <1>4, <1>5, <1>6, <1>7, <1>8 DEF IdentityStep

-----------------------------------------------------------------------------
(* The messages: types *)

LEMMA PositionIsNatural ==
    ASSUME NEW files \in SUBSET Names, NEW n \in Names
    PROVE  Position(files, n) \in Nat
<1> DEFINE newer == {m \in files : m > n}
<1>1. IsFiniteSet(Names) /\ newer \in SUBSET Names
  BY MailboxAssumption
<1>2. Cardinality(newer) \in Nat
  BY <1>1, FS_Subset, FS_CardinalityType
<1> QED BY <1>2 DEF Position

\* The parts of MailTypeOK that different steps change.
FilesOK ==
    /\ inbox \subseteq Names /\ unread \subseteq inbox /\ whole \subseteq inbox
    /\ verdicts \subseteq Names /\ removed \subseteq Names
    /\ told \in [Names -> {"nothing", "wait", "stored", "failed"}]
    /\ sealed \in BOOLEAN /\ tears \in BOOLEAN
    /\ stale \in [Shells -> BOOLEAN] /\ missed \in [Shells -> SUBSET Names]

ServingOK ==
    serving \in Serving /\ tasks \in Nat /\ meta \in [torn : BOOLEAN, entries : SUBSET Names]

ReadingOK ==
    /\ reading \in [Shells -> Reading]
    /\ DOMAIN seen = Shells
    /\ \A s \in Shells : \E files \in SUBSET Names : seen[s] \in [files -> Nat]

MailOK == FilesOK /\ ServingOK /\ ReadingOK

LEMMA Defaults == NotServing \in Serving /\ NotReading \in Reading /\ SomeName \in Names
<1>1. SomeName \in Names
  BY MailboxAssumption DEF SomeName
<1> QED BY <1>1 DEF NotServing, Serving, NotReading, Reading

LEMMA FilesStep == MailOK /\ MailStep => FilesOK'
<1> SUFFICES ASSUME MailOK, MailStep PROVE FilesOK'
  OBVIOUS
<1>1. /\ FilesOK /\ serving.name \in Names
      /\ \A s \in Shells : reading[s].name \in Names
  BY DEF MailOK, ServingOK, Serving, ReadingOK, Reading
<1> USE <1>1 DEF FilesOK, AllStale
<1>2. ASSUME NEW senders, NEW checked, Receive(senders, checked) PROVE FilesOK'
  BY <1>2 DEF Receive
<1>3. CASE CreateFile
  <2>1. PICK n \in FreshNames :
          /\ inbox' = inbox \cup {n} /\ unread' = unread \cup {n}
          /\ told' = [told EXCEPT ![n] = "wait"]
          /\ verdicts' = IF serving.checked THEN verdicts \cup {n} ELSE verdicts
    BY <1>3 DEF CreateFile
  <2>2. n \in Names
    BY DEF FreshNames
  <2> QED BY <1>3, <2>1, <2>2 DEF CreateFile
<1>4. CASE FillFile
  BY <1>4 DEF FillFile
<1>5. CASE ChmodFile
  BY <1>5 DEF ChmodFile
<1>6. CASE TruncateMeta \/ WriteMeta
  BY <1>6 DEF TruncateMeta, WriteMeta
<1>7. CASE Reply
  BY <1>7 DEF Reply
<1>8. CASE StartTask
  BY <1>8 DEF StartTask
<1>9. CASE ServerCrash
  BY <1>9 DEF ServerCrash
<1>10. ASSUME NEW s \in Shells, NEW what, NEW i, MailCommand(s, what, i) PROVE FilesOK'
  BY <1>10 DEF MailCommand
<1>11. ASSUME NEW s \in Shells, GlobRead(s) \/ GlobNew(s) \/ Parse(s) PROVE FilesOK'
  BY <1>11 DEF GlobRead, GlobNew, Parse, OnlyReads
<1>12. ASSUME NEW s \in Shells, ReadFile(s) PROVE FilesOK'
  <2>1. UNCHANGED <<inbox, whole, verdicts, removed, told, sealed, tears>>
    BY <1>12 DEF ReadFile
  <2>2. unread' \subseteq unread
    BY <1>12 DEF ReadFile
  <2>3. stale' \in [Shells -> BOOLEAN] /\ missed' \in [Shells -> SUBSET Names]
    <3>1. CASE UNCHANGED <<stale, missed>>
      BY <3>1
    <3>2. CASE ~UNCHANGED <<stale, missed>>
      <4>1. /\ stale' = [q \in Shells |->
                 stale[q] \/ (reading[q].what = "list" /\ Searching(q))]
            /\ missed' = [q \in Shells |->
                 IF Searching(q) THEN missed[q] \cup {reading[s].name} ELSE missed[q]]
        BY <1>12, <3>2 DEF ReadFile
      <4>2. stale' \in [Shells -> BOOLEAN]
        BY <4>1, Zenon
      <4>3. missed' \in [Shells -> SUBSET Names]
        BY <4>1
      <4> QED BY <4>2, <4>3
    <3> QED BY <3>1, <3>2
  <2> QED BY <2>1, <2>2, <2>3
<1>13. ASSUME NEW s \in Shells, Unlink(s) PROVE FilesOK'
  BY <1>13 DEF Unlink
<1>14. CASE UNCHANGED mailVars
  BY <1>14 DEF mailVars
<1> QED BY <1>2, <1>3, <1>4, <1>5, <1>6, <1>7, <1>8, <1>9, <1>10, <1>11, <1>12, <1>13, <1>14
        DEF MailStep

LEMMA ServingStep == MailOK /\ MailStep => ServingOK'
<1> SUFFICES ASSUME MailOK, MailStep PROVE ServingOK'
  OBVIOUS
<1>1. ServingOK /\ NotServing \in Serving
  BY Defaults DEF MailOK
<1> USE <1>1 DEF ServingOK
<1>2. ASSUME NEW senders \in SUBSET Addresses, NEW checked \in BOOLEAN,
             Receive(senders, checked)
      PROVE  ServingOK'
  <2>1. \A step \in {"refuse", "create"} :
          [NotServing EXCEPT !.pc = step, !.from = senders, !.checked = checked] \in Serving
    BY DEF Serving
  <2> QED BY <1>2, <2>1 DEF Receive
<1>3. CASE CreateFile
  <2>1. PICK n \in FreshNames :
          /\ inbox' = inbox \cup {n} /\ unread' = unread \cup {n}
          /\ told' = [told EXCEPT ![n] = "wait"]
          /\ verdicts' = IF serving.checked THEN verdicts \cup {n} ELSE verdicts
          /\ serving' = [serving EXCEPT !.pc = "fill", !.name = n, !.from = {}]
    BY <1>3, Zenon DEF CreateFile
  <2>2. n \in Names
    BY DEF FreshNames
  <2>3. UNCHANGED <<tasks, meta>>
    BY <1>3 DEF CreateFile
  <2>4. serving' \in Serving
    BY <2>1, <2>2 DEF Serving
  <2> QED BY <2>3, <2>4
<1>4. CASE FillFile
  BY <1>4 DEF FillFile, Serves, Serving
<1>5. CASE ChmodFile
  <2>1. serving' = NotServing \/ \E step \in {"truncateMeta", "reply"} :
                                    serving' = [serving EXCEPT !.pc = step]
    BY <1>5 DEF ChmodFile, Serves
  <2>2. \A step \in {"truncateMeta", "reply"} : [serving EXCEPT !.pc = step] \in Serving
    BY DEF Serving
  <2> QED BY <1>5, <2>1, <2>2 DEF ChmodFile
<1>6. CASE TruncateMeta
  <2> DEFINE index == IF meta.torn THEN {} ELSE meta.entries
  <2>1. index \in SUBSET Names
    OBVIOUS
  <2>2. [serving EXCEPT !.pc = "writeMeta", !.index = index] \in Serving
    BY <2>1 DEF Serving
  <2> QED BY <1>6, <2>2 DEF TruncateMeta
<1>7. CASE WriteMeta
  <2>1. serving.index \cup {serving.name} \in SUBSET Names
    BY DEF Serving
  <2>2. [serving EXCEPT !.pc = "reply", !.index = {}] \in Serving
    BY DEF Serving
  <2> QED BY <1>7, <2>1, <2>2 DEF WriteMeta
<1>8. CASE Reply
  BY <1>8 DEF Reply
<1>9. CASE StartTask
  BY <1>9 DEF StartTask
<1>10. CASE ServerCrash
  BY <1>10 DEF ServerCrash
<1>11. ASSUME NEW s \in Shells, NEW what, NEW i, MailCommand(s, what, i) PROVE ServingOK'
  BY <1>11 DEF MailCommand
<1>12. ASSUME NEW s \in Shells, GlobRead(s) \/ GlobNew(s) \/ Parse(s) PROVE ServingOK'
  BY <1>12 DEF GlobRead, GlobNew, Parse, OnlyReads
<1>13. ASSUME NEW s \in Shells, ReadFile(s) \/ Unlink(s) PROVE ServingOK'
  BY <1>13 DEF ReadFile, Unlink
<1>14. CASE UNCHANGED mailVars
  BY <1>14 DEF mailVars
<1> QED BY <1>2, <1>3, <1>4, <1>5, <1>6, <1>7, <1>8, <1>9, <1>10, <1>11, <1>12, <1>13, <1>14
        DEF MailStep

LEMMA ReadingStep == MailOK /\ MailStep => ReadingOK'
<1> SUFFICES ASSUME MailOK, MailStep PROVE ReadingOK'
  OBVIOUS
<1>1. /\ ReadingOK /\ FilesOK /\ NotReading \in Reading
  BY Defaults DEF MailOK
<1> USE <1>1 DEF ReadingOK
<1>2. CASE UNCHANGED <<reading, seen>>
  BY <1>2
<1>3. ASSUME NEW s \in Shells, NEW what \in {"list", "read", "delete"}, NEW i \in Nat,
             MailCommand(s, what, i)
      PROVE  ReadingOK'
  <2>1. [NotReading EXCEPT !.pc = "globRead", !.what = what, !.index = i] \in Reading
    BY DEF Reading
  <2> QED BY <1>3, <2>1 DEF MailCommand
<1>4. ASSUME NEW s \in Shells, GlobRead(s) PROVE ReadingOK'
  <2>1. [reading[s] EXCEPT !.pc = "globNew", !.read = inbox \ unread] \in Reading
    BY DEF Reading, FilesOK
  <2>2. reading' = [reading EXCEPT ![s] = [reading[s] EXCEPT !.pc = "globNew", !.read = inbox \ unread]]
    BY <1>4 DEF GlobRead
  <2> QED BY <1>4, <2>1, <2>2 DEF GlobRead
<1>5. ASSUME NEW s \in Shells, GlobNew(s) PROVE ReadingOK'
  <2>1. [reading[s] EXCEPT !.pc = "parse", !.new = unread] \in Reading
    BY DEF Reading, FilesOK
  <2>2. reading' = [reading EXCEPT ![s] = [reading[s] EXCEPT !.pc = "parse", !.new = unread]]
    BY <1>5 DEF GlobNew
  <2> QED BY <1>5, <2>1, <2>2 DEF GlobNew
<1>6. ASSUME NEW s \in Shells, Parse(s) PROVE ReadingOK'
  <2> DEFINE files == Listed(s)
  <2>1. files \in SUBSET Names
    BY DEF Listed, Reading
  <2>2. CASE reading[s].what = "list"
    <3>1. /\ seen' = [seen EXCEPT ![s] = [n \in files |-> Position(files, n)]]
          /\ reading' = [reading EXCEPT ![s] = NotReading]
      BY <1>6, <2>2 DEF Parse
    <3>2. [n \in files |-> Position(files, n)] \in [files -> Nat]
      BY <2>1, PositionIsNatural
    <3> HIDE DEF files
    <3>3. DOMAIN seen' = Shells /\ \A q \in Shells \ {s} : seen'[q] = seen[q]
      BY <3>1
    <3>4. seen'[s] \in [files -> Nat]
      BY <3>1, <3>2
    <3> QED BY <2>1, <3>1, <3>3, <3>4
  <2>3. CASE reading[s].what # "list"
    <3>1. UNCHANGED seen
      BY <1>6, <2>3 DEF Parse
    <3>2. CASE reading' = [reading EXCEPT ![s] = NotReading]
      BY <3>1, <3>2
    <3>3. CASE reading' # [reading EXCEPT ![s] = NotReading]
      <4>1. PICK n \in At(files, reading[s].index) :
              reading' = [reading EXCEPT
                ![s].pc = IF reading[s].what = "read" THEN "readFile" ELSE "unlink",
                ![s].name = n]
        BY <1>6, <2>3, <3>3 DEF Parse
      <4>2. n \in Names
        BY <2>1 DEF At
      <4>3. PICK step \in {"readFile", "unlink"} :
              reading' = [reading EXCEPT ![s] = [reading[s] EXCEPT !.pc = step, !.name = n]]
        BY <4>1
      <4>4. [reading[s] EXCEPT !.pc = step, !.name = n] \in Reading
        BY <4>2 DEF Reading
      <4> QED BY <3>1, <4>3, <4>4
    <3> QED BY <3>2, <3>3
  <2> QED BY <2>2, <2>3
<1>7. ASSUME NEW s \in Shells, ReadFile(s) \/ Unlink(s) PROVE ReadingOK'
  BY <1>7 DEF ReadFile, Unlink
<1>8. ASSUME NEW senders, NEW checked, Receive(senders, checked)
      PROVE  UNCHANGED <<reading, seen>>
  BY <1>8 DEF Receive
<1>9. CASE CreateFile \/ FillFile \/ ChmodFile \/ TruncateMeta \/ WriteMeta \/ Reply
  <2>1. UNCHANGED <<reading, seen>>
    BY <1>9, Zenon DEF CreateFile, FillFile, ChmodFile, TruncateMeta, WriteMeta, Reply
  <2> QED BY <1>2, <2>1
<1>10. CASE StartTask \/ ServerCrash \/ UNCHANGED mailVars
  BY <1>2, <1>10 DEF StartTask, ServerCrash, mailVars
<1> QED BY <1>2, <1>3, <1>4, <1>5, <1>6, <1>7, <1>8, <1>9, <1>10 DEF MailStep

-----------------------------------------------------------------------------
(* The messages: deliveries *)

Written == {"chmod", "truncateMeta", "writeMeta", "reply"}

\* A name not in use stands for no file and no verdict; the message being
\* delivered is in the mailbox or removed, and is not answered yet.
NamesInv ==
    /\ \A n \in Names : told[n] = "nothing" => n \notin inbox \cup removed \cup verdicts
    /\ serving.pc \in Written \cup {"fill"} =>
         told[serving.name] = "wait" /\ (serving.checked <=> serving.name \in verdicts)
    /\ serving.pc = "fill" => serving.name \in inbox \cup removed
    /\ serving.pc \in Written => serving.name \in whole \cup removed

\* Without a crash the index is torn only while it is being written, and a
\* verified message is in it before its sender is answered.
IndexInv ==
    /\ serving.pc \in {"truncateMeta", "writeMeta"} => serving.checked
    /\ serving.pc = "writeMeta" => meta.entries = {}
    /\ ~tears /\ meta.torn => serving.pc = "writeMeta"
    /\ ~tears /\ serving.pc = "reply" /\ serving.checked => serving.name \in meta.entries

DeliveryInv ==
    NamesInv /\ IndexInv /\ AcknowledgedIsStored /\ FailureMeansTouched /\ VerdictsKept

LEMMA DeliveryStep == MailOK /\ DeliveryInv /\ MailStep => DeliveryInv'
<1> SUFFICES ASSUME MailOK, DeliveryInv, MailStep PROVE DeliveryInv'
  OBVIOUS
<1>1. FilesOK /\ ServingOK
  BY DEF MailOK
<1> DEFINE all == NamesInv' /\ IndexInv' /\ AcknowledgedIsStored' /\ FailureMeansTouched'
                    /\ VerdictsKept'
<1> SUFFICES all
  BY DEF DeliveryInv
<1> USE DEF Written
<1>2. CASE UNCHANGED <<inbox, whole, unread, removed, verdicts, told, serving, meta, tears>>
  BY <1>2 DEF DeliveryInv, NamesInv, IndexInv, AcknowledgedIsStored, FailureMeansTouched,
              VerdictsKept
<1>3. ASSUME NEW senders, NEW checked, Receive(senders, checked) PROVE all
  <2>1. /\ UNCHANGED <<inbox, whole, unread, removed, verdicts, told, meta, tears>>
        /\ serving'.pc \in {"refuse", "create"} /\ serving.pc = "idle"
    BY <1>3 DEF Receive, ServerIdle, NotServing
  <2> QED BY <2>1 DEF DeliveryInv, NamesInv, IndexInv, AcknowledgedIsStored,
                      FailureMeansTouched, VerdictsKept
<1>4. CASE CreateFile
  <2>1. PICK n \in FreshNames :
          /\ inbox' = inbox \cup {n} /\ unread' = unread \cup {n}
          /\ told' = [told EXCEPT ![n] = "wait"]
          /\ verdicts' = IF serving.checked THEN verdicts \cup {n} ELSE verdicts
          /\ serving' = [serving EXCEPT !.pc = "fill", !.name = n, !.from = {}]
    BY <1>4, Zenon DEF CreateFile
  <2>2. n \in Names /\ told[n] = "nothing" /\ serving.pc = "create"
    BY <1>4 DEF CreateFile, FreshNames, Used
  <2>3. UNCHANGED <<whole, removed, meta, tears>>
    BY <1>4 DEF CreateFile
  <2>4. serving'.pc = "fill" /\ serving'.name = n /\ serving'.checked = serving.checked
    BY <1>1, <2>1 DEF ServingOK, Serving
  <2>5. told'[n] = "wait" /\ \A x \in Names \ {n} : told'[x] = told[x]
    BY <1>1, <2>1, <2>2 DEF FilesOK
  <2>6. n \notin inbox \cup removed \cup verdicts
    BY <2>2 DEF DeliveryInv, NamesInv
  <2>7. NamesInv'
    BY <2>1, <2>2, <2>3, <2>4, <2>5, <2>6 DEF DeliveryInv, NamesInv
  <2>8. IndexInv'
    BY <2>2, <2>3, <2>4 DEF DeliveryInv, IndexInv
  <2>9. AcknowledgedIsStored' /\ FailureMeansTouched'
    BY <2>1, <2>3, <2>5 DEF DeliveryInv, AcknowledgedIsStored, FailureMeansTouched
  <2>10. VerdictsKept'
    <3>1. \A x \in verdicts' : told'[x] = "stored" => x \in verdicts /\ told[x] = "stored"
      BY <1>1, <2>1, <2>5 DEF FilesOK
    <3> QED BY <2>2, <2>3, <3>1 DEF DeliveryInv, VerdictsKept
  <2> QED BY <2>7, <2>8, <2>9, <2>10
<1>5. CASE FillFile
  <2>1. /\ UNCHANGED <<inbox, unread, removed, verdicts, told, meta, tears>>
        /\ serving' = [serving EXCEPT !.pc = "chmod"] /\ serving.pc = "fill"
        /\ whole' = IF serving.name \in inbox THEN whole \cup {serving.name} ELSE whole
    BY <1>5 DEF FillFile, Serves
  <2>2. /\ serving'.pc = "chmod" /\ serving'.name = serving.name
        /\ serving'.checked = serving.checked
    BY <1>1, <2>1 DEF ServingOK, Serving
  <2>3. NamesInv' /\ IndexInv'
    BY <2>1, <2>2 DEF DeliveryInv, NamesInv, IndexInv
  <2> QED BY <2>1, <2>2, <2>3 DEF DeliveryInv, AcknowledgedIsStored, FailureMeansTouched,
                                  VerdictsKept
<1>6. CASE ChmodFile
  <2>1. /\ UNCHANGED <<inbox, whole, unread, removed, verdicts, meta, tears>>
        /\ serving.pc = "chmod"
    BY <1>6 DEF ChmodFile
  <2>2. CASE serving.name \in inbox \cap unread
    <3>1. /\ serving' = [serving EXCEPT !.pc = IF serving.checked THEN "truncateMeta" ELSE "reply"]
          /\ UNCHANGED told
      BY <1>6, <2>2 DEF ChmodFile, Serves
    <3>2. /\ serving'.pc = (IF serving.checked THEN "truncateMeta" ELSE "reply")
          /\ serving'.name = serving.name /\ serving'.checked = serving.checked
      BY <1>1, <3>1 DEF ServingOK, Serving
    <3> QED BY <2>1, <3>1, <3>2 DEF DeliveryInv, NamesInv, IndexInv, AcknowledgedIsStored,
                                    FailureMeansTouched, VerdictsKept
  <2>3. CASE serving.name \notin inbox \cap unread
    <3>1. serving' = NotServing /\ told' = [told EXCEPT ![serving.name] = "failed"]
      BY <1>6, <2>3 DEF ChmodFile
    <3>2. serving'.pc = "idle" /\ serving.name \in Names /\ serving.name \notin unread
      BY <1>1, <2>3, <3>1 DEF NotServing, ServingOK, Serving, FilesOK
    <3>3. /\ told'[serving.name] = "failed"
          /\ \A n \in Names \ {serving.name} : told'[n] = told[n]
      BY <1>1, <3>1, <3>2 DEF FilesOK
    <3>4. NamesInv' /\ IndexInv'
      BY <2>1, <3>2, <3>3 DEF DeliveryInv, NamesInv, IndexInv
    <3>5. AcknowledgedIsStored' /\ FailureMeansTouched'
      BY <2>1, <3>2, <3>3 DEF DeliveryInv, AcknowledgedIsStored, FailureMeansTouched
    <3>6. VerdictsKept'
      <4>1. \A x \in verdicts : told'[x] = "stored" => told[x] = "stored"
        BY <1>1, <3>3 DEF FilesOK
      <4> QED BY <2>1, <4>1 DEF DeliveryInv, VerdictsKept
    <3> QED BY <3>4, <3>5, <3>6
  <2> QED BY <2>2, <2>3
<1>7. CASE TruncateMeta
  <2>1. /\ UNCHANGED <<inbox, whole, unread, removed, verdicts, told, tears>>
        /\ serving.pc = "truncateMeta" /\ meta' = [torn |-> TRUE, entries |-> {}]
        /\ serving' = [serving EXCEPT !.pc = "writeMeta",
                                      !.index = IF meta.torn THEN {} ELSE meta.entries]
    BY <1>7 DEF TruncateMeta
  <2>2. /\ serving'.pc = "writeMeta" /\ serving'.name = serving.name
        /\ serving'.checked = serving.checked
        /\ ~meta.torn => serving'.index = meta.entries
    BY <1>1, <2>1 DEF ServingOK, Serving
  <2>3. NamesInv' /\ IndexInv'
    BY <2>1, <2>2 DEF DeliveryInv, NamesInv, IndexInv
  <2>4. VerdictsKept'
    BY <2>1, <2>2 DEF DeliveryInv, IndexInv, VerdictsKept
  <2> QED BY <2>1, <2>3, <2>4 DEF DeliveryInv, AcknowledgedIsStored, FailureMeansTouched
<1>8. CASE WriteMeta
  <2>1. /\ UNCHANGED <<inbox, whole, unread, removed, verdicts, told, tears>>
        /\ serving.pc = "writeMeta"
        /\ meta' = [torn |-> FALSE, entries |-> serving.index \cup {serving.name}]
        /\ serving' = [serving EXCEPT !.pc = "reply", !.index = {}]
    BY <1>8 DEF WriteMeta
  <2>2. /\ serving'.pc = "reply" /\ serving'.name = serving.name
        /\ serving'.checked = serving.checked
    BY <1>1, <2>1 DEF ServingOK, Serving
  <2>3. ~meta'.torn /\ meta'.entries = serving.index \cup {serving.name}
    BY <2>1
  <2>4. NamesInv' /\ IndexInv'
    BY <2>1, <2>2, <2>3 DEF DeliveryInv, NamesInv, IndexInv
  <2>5. VerdictsKept'
    <3>1. \A n \in verdicts : told[n] = "stored" /\ ~tears =>
            n \in serving.index
      BY <2>1 DEF DeliveryInv, IndexInv, VerdictsKept
    <3> QED BY <2>1, <2>3, <3>1 DEF VerdictsKept
  <2> QED BY <2>1, <2>4, <2>5 DEF DeliveryInv, AcknowledgedIsStored, FailureMeansTouched
<1>9. CASE Reply
  <2>1. /\ UNCHANGED <<inbox, whole, unread, removed, verdicts, meta, tears>>
        /\ serving' = NotServing
    BY <1>9 DEF Reply
  <2>2. serving'.pc = "idle" /\ serving.name \in Names
    BY <1>1, <2>1 DEF NotServing, ServingOK, Serving
  <2>3. CASE serving.pc = "reply"
    <3>1. told' = [told EXCEPT ![serving.name] = "stored"]
      BY <1>9, <2>3 DEF Reply
    <3>2. /\ told'[serving.name] = "stored"
          /\ \A n \in Names \ {serving.name} : told'[n] = told[n]
      BY <1>1, <2>2, <3>1 DEF FilesOK
    <3>3. NamesInv' /\ IndexInv'
      BY <2>1, <2>2, <2>3, <3>2 DEF DeliveryInv, NamesInv, IndexInv
    <3>4. AcknowledgedIsStored' /\ FailureMeansTouched'
      BY <2>1, <2>3, <3>2 DEF DeliveryInv, NamesInv, AcknowledgedIsStored, FailureMeansTouched
    <3>5. VerdictsKept'
      <4>1. ASSUME NEW n \in verdicts, told'[n] = "stored", ~tears
            PROVE  n \in meta.entries
        <5>1. CASE n = serving.name
          BY <2>3, <4>1, <5>1 DEF DeliveryInv, NamesInv, IndexInv
        <5>2. CASE n # serving.name
          <6>1. told[n] = "stored"
            BY <1>1, <3>2, <4>1, <5>2 DEF FilesOK
          <6> QED BY <2>3, <4>1, <6>1 DEF DeliveryInv, VerdictsKept
        <5> QED BY <5>1, <5>2
      <4> QED BY <2>1, <4>1 DEF VerdictsKept
    <3> QED BY <3>3, <3>4, <3>5
  <2>4. CASE serving.pc # "reply"
    <3>1. UNCHANGED told /\ serving.pc = "refuse"
      BY <1>9, <2>4 DEF Reply
    <3> QED BY <2>1, <2>2, <3>1 DEF DeliveryInv, NamesInv, IndexInv, AcknowledgedIsStored,
                                    FailureMeansTouched, VerdictsKept
  <2> QED BY <2>3, <2>4
<1>10. CASE ServerCrash
  <2>1. /\ UNCHANGED <<inbox, whole, unread, removed, verdicts, told, meta>>
        /\ serving' = NotServing /\ tears' = (tears \/ serving.pc = "writeMeta")
    BY <1>10 DEF ServerCrash
  <2>2. serving'.pc = "idle"
    BY <2>1 DEF NotServing
  <2>3. ~tears' => ~tears /\ serving.pc # "writeMeta"
    BY <2>1
  <2> QED BY <2>1, <2>2, <2>3 DEF DeliveryInv, NamesInv, IndexInv, AcknowledgedIsStored,
                                  FailureMeansTouched, VerdictsKept
<1>11. CASE StartTask
  <2>1. UNCHANGED <<inbox, whole, unread, removed, verdicts, told, serving, meta, tears>>
    BY <1>11 DEF StartTask
  <2> QED BY <1>2, <2>1
<1>12. ASSUME NEW s \in Shells, NEW what, NEW i, MailCommand(s, what, i) PROVE all
  <2>1. UNCHANGED <<inbox, whole, unread, removed, verdicts, told, serving, meta, tears>>
    BY <1>12 DEF MailCommand
  <2> QED BY <1>2, <2>1
<1>13. ASSUME NEW s \in Shells, GlobRead(s) \/ GlobNew(s) \/ Parse(s) PROVE all
  <2>1. UNCHANGED <<inbox, whole, unread, removed, verdicts, told, serving, meta, tears>>
    BY <1>13 DEF GlobRead, GlobNew, Parse, OnlyReads
  <2> QED BY <1>2, <2>1
<1>14. ASSUME NEW s \in Shells, ReadFile(s) PROVE all
  <2>1. /\ UNCHANGED <<inbox, whole, removed, verdicts, told, serving, meta, tears>>
        /\ unread' \subseteq unread
    BY <1>14 DEF ReadFile
  <2> QED BY <2>1 DEF DeliveryInv, NamesInv, IndexInv, AcknowledgedIsStored,
                      FailureMeansTouched, VerdictsKept
<1>15. ASSUME NEW s \in Shells, Unlink(s) PROVE all
  <2>1. /\ UNCHANGED <<verdicts, told, serving, meta, tears>>
        /\ unread' \subseteq unread /\ inbox' \subseteq inbox
        /\ inbox \cup removed = inbox' \cup removed'
        /\ whole \cup removed \subseteq whole' \cup removed'
        /\ removed' \subseteq inbox \cup removed
    <3>1. UNCHANGED <<verdicts, told, serving, meta, tears>>
      BY <1>15 DEF Unlink
    <3>2. CASE UNCHANGED <<inbox, unread, whole, removed>>
      BY <3>1, <3>2
    <3>3. CASE ~UNCHANGED <<inbox, unread, whole, removed>>
      <4>1. PICK n \in inbox :
              /\ inbox' = inbox \ {n} /\ unread' = unread \ {n} /\ whole' = whole \ {n}
              /\ removed' = removed \cup {n}
        BY <1>1, <1>15, <3>3 DEF Unlink, StillThere, FilesOK
      <4> QED BY <3>1, <4>1
    <3> QED BY <3>2, <3>3
  <2>2. NamesInv'
    BY <2>1 DEF DeliveryInv, NamesInv
  <2> QED BY <2>1, <2>2 DEF DeliveryInv, IndexInv, AcknowledgedIsStored,
                            FailureMeansTouched, VerdictsKept
<1>16. CASE UNCHANGED mailVars
  BY <1>2, <1>16 DEF mailVars
<1> QED BY <1>3, <1>4, <1>5, <1>6, <1>7, <1>8, <1>9, <1>10, <1>11, <1>12, <1>13, <1>14,
           <1>15, <1>16 DEF MailStep

-----------------------------------------------------------------------------
(* The messages: numbers *)

\* What a list made now would show.
Shown == {n \in inbox : sealed \/ n \in whole}

\* The message with this name has this number, when some of the lost messages
\* are not counted.
Within(index, n, shown, lost) ==
    \E files \in SUBSET shown : shown \ files \subseteq lost /\ index = Position(files, n)

\* As long as no message comes or goes, every list that s makes is the one it
\* was shown, less what was marked as read while it searched, wherever s is
\* with making it.
InSync(s) ==
    LET r == reading[s]
    IN  /\ r.pc \in {"globNew", "parse"} =>
             r.read \subseteq inbox \ unread /\ (inbox \ unread) \ r.read \subseteq missed[s]
        /\ r.pc = "parse" => unread \subseteq r.new /\ r.new \ unread \subseteq missed[s]
                             /\ r.new \subseteq inbox
        /\ r.pc # "idle" /\ r.what = "list" => missed[s] = {}
        /\ r.pc = "idle" \/ r.what # "list" => seen[s] = [n \in Shown |-> Position(Shown, n)]
        /\ r.pc \in {"readFile", "unlink"} =>
             /\ r.what # "list" /\ r.name \in Shown
             /\ Within(r.index, r.name, Shown, missed[s])

NumbersInv == \A s \in Shells : ~stale[s] => InSync(s)

\* The numbers differ by no more than there are lost messages that are newer.
LEMMA LostAreFewer ==
    ASSUME NEW shown \in SUBSET Names, NEW lost \in SUBSET Names, NEW n, NEW index,
           Within(index, n, shown, lost)
    PROVE  Position(shown, n) - index \in 0..Cardinality({m \in lost : m > n})
<1>1. PICK files \in SUBSET shown :
        shown \ files \subseteq lost /\ index = Position(files, n)
  BY DEF Within
<1> DEFINE A == {m \in shown : m > n}
           B == {m \in files : m > n}
           C == {m \in lost : m > n}
<1>2. /\ A \in SUBSET Names /\ B \in SUBSET A /\ C \in SUBSET Names
      /\ A \in SUBSET (B \cup C) /\ IsFiniteSet(Names)
  BY <1>1, MailboxAssumption
<1>3. Position(shown, n) = 1 + Cardinality(A) /\ index = 1 + Cardinality(B)
  BY <1>1 DEF Position
<1> HIDE DEF A, B, C
<1>4. IsFiniteSet(A) /\ IsFiniteSet(B) /\ IsFiniteSet(C)
  BY <1>2, FS_Subset
<1>5. Cardinality(B) <= Cardinality(A)
  BY <1>2, <1>4, FS_Subset
<1>6. /\ IsFiniteSet(B \cup C) /\ IsFiniteSet(B \cap C)
      /\ Cardinality(B \cup C) = Cardinality(B) + Cardinality(C) - Cardinality(B \cap C)
  <2>1. B \cap C \in SUBSET B
    OBVIOUS
  <2> QED BY <1>4, <2>1, FS_Union, FS_Subset
<1>7. Cardinality(A) <= Cardinality(B \cup C)
  BY <1>2, <1>6, FS_Subset
<1>8. /\ Cardinality(A) \in Nat /\ Cardinality(B) \in Nat /\ Cardinality(C) \in Nat
      /\ Cardinality(B \cap C) \in Nat
  BY <1>4, <1>6, FS_CardinalityType
<1>9. Cardinality(A) - Cardinality(B) \in 0..Cardinality(C)
  BY <1>5, <1>6, <1>7, <1>8
<1>10. Position(shown, n) - index = Cardinality(A) - Cardinality(B)
  BY <1>3, <1>8
<1> QED BY <1>9, <1>10 DEF C

LEMMA NumbersStep == MailOK /\ NumbersInv /\ MailStep => NumbersInv'
<1> SUFFICES ASSUME MailOK, NumbersInv, MailStep PROVE NumbersInv'
  OBVIOUS
<1>1. FilesOK /\ ReadingOK
  BY DEF MailOK
<1> DEFINE Directory == <<inbox, unread, whole, sealed>>
<1>20. \A q \in Shells :
         Within(reading[q].index, reading[q].name, Shown, missed[q])'
           <=> Within(reading'[q].index, reading'[q].name, Shown', missed'[q])
  BY DEF Within, Position
<1>2. ASSUME NEW q \in Shells, UNCHANGED <<inbox, whole, sealed>>,
             reading'[q] = reading[q], seen'[q] = seen[q], InSync(q),
             \/ UNCHANGED <<unread, missed[q]>>
             \/ reading[q].pc \notin {"globNew", "parse"} /\ missed'[q] = missed[q]
      PROVE  InSync(q)'
  <2>1. Shown' = Shown
    BY <1>2 DEF Shown
  <2>2. \A n : Position(Shown, n)' = Position(Shown, n)
    BY <2>1 DEF Position
  <2> QED BY <1>2, <1>20, <2>1, <2>2 DEF InSync
<1>3. CASE UNCHANGED <<Directory, reading, seen, stale, missed>>
  BY <1>2, <1>3 DEF NumbersInv
<1>4. CASE stale' = AllStale
  BY <1>4 DEF NumbersInv, AllStale
<1>5. ASSUME NEW senders, NEW checked, Receive(senders, checked) PROVE NumbersInv'
  BY <1>3, <1>5 DEF Receive
<1>6. CASE CreateFile \/ FillFile
  <2>1. stale' = AllStale
    BY <1>6, Zenon DEF CreateFile, FillFile
  <2> QED BY <1>4, <2>1
<1>7. CASE ChmodFile \/ TruncateMeta \/ WriteMeta \/ Reply
  <2>1. UNCHANGED <<Directory, reading, seen, stale, missed>>
    BY <1>7, Zenon DEF ChmodFile, TruncateMeta, WriteMeta, Reply
  <2> QED BY <1>3, <2>1
<1>8. CASE StartTask \/ ServerCrash
  BY <1>3, <1>8 DEF StartTask, ServerCrash
<1>9. ASSUME NEW s \in Shells, NEW what \in {"list", "read", "delete"}, NEW i \in Nat,
             MailCommand(s, what, i)
      PROVE  NumbersInv'
  <2>1. /\ reading[s].pc = "idle"
        /\ UNCHANGED <<Directory, seen>>
        /\ reading' = [reading EXCEPT ![s] =
                         [NotReading EXCEPT !.pc = "globRead", !.what = what, !.index = i]]
        /\ stale' = IF what = "list" THEN [stale EXCEPT ![s] = FALSE] ELSE stale
        /\ missed' = [missed EXCEPT ![s] = {}]
    BY <1>9 DEF MailCommand, Starts
  <2>2. reading'[s].pc = "globRead" /\ reading'[s].what = what /\ missed'[s] = {}
    BY <1>1, <2>1 DEF NotReading, ReadingOK, FilesOK
  <2>3. \A q \in Shells \ {s} : /\ reading'[q] = reading[q] /\ stale'[q] = stale[q]
                                /\ missed'[q] = missed[q]
    BY <1>1, <2>1 DEF FilesOK, ReadingOK
  <2>4. what # "list" => stale'[s] = stale[s]
    BY <2>1
  <2>5. ASSUME NEW q \in Shells \ {s}, ~stale'[q] PROVE InSync(q)'
    BY <1>2, <2>1, <2>3, <2>5 DEF NumbersInv
  <2>6. ASSUME ~stale'[s] PROVE InSync(s)'
    <3>1. CASE what = "list"
      BY <2>2, <3>1 DEF InSync
    <3>2. CASE what # "list"
      <4>1. seen[s] = [n \in Shown |-> Position(Shown, n)]
        BY <2>1, <2>4, <2>6, <3>2 DEF NumbersInv, InSync
      <4>2. Shown' = Shown /\ seen'[s] = seen[s]
        BY <2>1 DEF Shown
      <4>3. \A n : Position(Shown, n)' = Position(Shown, n)
        BY <4>2 DEF Position
      <4> QED BY <2>2, <4>1, <4>2, <4>3 DEF InSync
    <3> QED BY <3>1, <3>2
  <2> QED BY <2>5, <2>6 DEF NumbersInv
<1>10. ASSUME NEW s \in Shells, GlobRead(s) PROVE NumbersInv'
  <2>1. /\ reading[s].pc = "globRead" /\ UNCHANGED <<Directory, seen, stale, missed>>
        /\ reading' = [reading EXCEPT ![s].pc = "globNew", ![s].read = inbox \ unread]
    BY <1>10 DEF GlobRead, OnlyReads
  <2>2. /\ reading'[s].pc = "globNew" /\ reading'[s].read = inbox \ unread
        /\ reading'[s].what = reading[s].what
        /\ \A q \in Shells \ {s} : reading'[q] = reading[q]
    BY <1>1, <2>1 DEF ReadingOK, Reading
  <2>3. ASSUME NEW q \in Shells \ {s}, ~stale'[q] PROVE InSync(q)'
    BY <1>2, <2>1, <2>2, <2>3 DEF NumbersInv
  <2>4. Shown' = Shown /\ seen'[s] = seen[s]
    BY <2>1 DEF Shown
  <2>5. \A n : Position(Shown, n)' = Position(Shown, n)
    BY <2>4 DEF Position
  <2>6. ASSUME ~stale'[s] PROVE InSync(s)'
    <3>1. InSync(s) /\ missed'[s] = missed[s]
      BY <2>1, <2>6 DEF NumbersInv
    <3>2. inbox' \ unread' = inbox \ unread
      BY <2>1
    <3> QED BY <2>1, <2>2, <2>4, <2>5, <3>1, <3>2 DEF InSync
  <2> QED BY <2>3, <2>6 DEF NumbersInv
<1>11. ASSUME NEW s \in Shells, GlobNew(s) PROVE NumbersInv'
  <2>1. /\ reading[s].pc = "globNew" /\ UNCHANGED <<Directory, seen, stale, missed>>
        /\ reading' = [reading EXCEPT ![s].pc = "parse", ![s].new = unread]
    BY <1>11 DEF GlobNew, OnlyReads
  <2>2. /\ reading'[s].pc = "parse" /\ reading'[s].new = unread
        /\ reading'[s].read = reading[s].read /\ reading'[s].what = reading[s].what
        /\ \A q \in Shells \ {s} : reading'[q] = reading[q]
    BY <1>1, <2>1 DEF ReadingOK, Reading
  <2>3. ASSUME NEW q \in Shells \ {s}, ~stale'[q] PROVE InSync(q)'
    BY <1>2, <2>1, <2>2, <2>3 DEF NumbersInv
  <2>4. Shown' = Shown /\ seen'[s] = seen[s]
    BY <2>1 DEF Shown
  <2>5. \A n : Position(Shown, n)' = Position(Shown, n)
    BY <2>4 DEF Position
  <2>6. ASSUME ~stale'[s] PROVE InSync(s)'
    <3>1. InSync(s) /\ missed'[s] = missed[s]
      BY <2>1, <2>6 DEF NumbersInv
    <3>2. UNCHANGED <<inbox, unread>> /\ unread \subseteq inbox
      BY <1>1, <2>1 DEF FilesOK
    <3> QED BY <2>1, <2>2, <2>4, <2>5, <3>1, <3>2 DEF InSync
  <2> QED BY <2>3, <2>6 DEF NumbersInv
<1>12. ASSUME NEW s \in Shells, Parse(s) PROVE NumbersInv'
  <2>1. reading[s].pc = "parse" /\ UNCHANGED <<Directory, stale, missed>>
    BY <1>12 DEF Parse, OnlyReads
  <2>2. \A q \in Shells \ {s} : reading'[q] = reading[q] /\ seen'[q] = seen[q]
    BY <1>1, <1>12, Zenon DEF Parse, ReadingOK
  <2>3. ASSUME NEW q \in Shells \ {s}, ~stale'[q] PROVE InSync(q)'
    BY <1>2, <2>1, <2>2, <2>3 DEF NumbersInv
  <2>4. ASSUME ~stale'[s] PROVE InSync(s)'
    <3>1. InSync(s)
      BY <2>1, <2>4 DEF NumbersInv
    <3>2. /\ reading[s].read \subseteq inbox /\ reading[s].new \subseteq inbox
          /\ inbox \subseteq reading[s].read \cup reading[s].new \cup missed[s]
          /\ reading[s].new \ unread \subseteq missed[s]
      BY <1>1, <2>1, <3>1 DEF InSync, FilesOK
    <3>3. Listed(s) \subseteq Shown /\ Shown \ Listed(s) \subseteq missed[s]
      BY <1>1, <3>2 DEF Listed, StillThere, Shown, FilesOK
    <3>4. Shown' = Shown
      BY <2>1 DEF Shown
    <3>5. \A n : Position(Shown, n)' = Position(Shown, n)
      BY <3>4 DEF Position
    <3>6. CASE reading[s].what = "list"
      <4>1. /\ seen' = [seen EXCEPT ![s] = [n \in Shown |-> Position(Shown, n)]]
            /\ reading' = [reading EXCEPT ![s] = NotReading]
        <5>1. Listed(s) = Shown
          BY <2>1, <3>1, <3>3, <3>6 DEF InSync
        <5> QED BY <1>12, <3>6, <5>1 DEF Parse
      <4>2. /\ seen'[s] = [n \in Shown |-> Position(Shown, n)]
            /\ reading'[s].pc = "idle"
        BY <1>1, <4>1 DEF ReadingOK, NotReading
      <4> QED BY <3>4, <3>5, <4>2 DEF InSync
    <3>7. CASE reading[s].what # "list"
      <4>1. seen' = seen /\ seen[s] = [n \in Shown |-> Position(Shown, n)]
        BY <1>12, <3>1, <3>7 DEF Parse, InSync
      <4>2. CASE reading' = [reading EXCEPT ![s] = NotReading]
        <5>1. reading'[s].pc = "idle"
          BY <1>1, <4>2 DEF ReadingOK, NotReading
        <5> QED BY <3>4, <3>5, <4>1, <5>1 DEF InSync
      <4>3. CASE reading' # [reading EXCEPT ![s] = NotReading]
        <5>1. PICK n \in At(Listed(s), reading[s].index) :
                reading' = [reading EXCEPT
                  ![s].pc = IF reading[s].what = "read" THEN "readFile" ELSE "unlink",
                  ![s].name = n]
          BY <1>12, <3>7, <4>3 DEF Parse
        <5>2. n \in Shown /\ reading[s].index = Position(Listed(s), n)
          BY <3>3 DEF At
        <5>4. Within(reading[s].index, n, Shown', missed'[s])
          BY <2>1, <3>3, <3>4, <5>2 DEF Within
        <5>3. /\ reading'[s].pc \in {"readFile", "unlink"} /\ reading'[s].name = n
              /\ reading'[s].what = reading[s].what /\ reading'[s].index = reading[s].index
          BY <1>1, <5>1 DEF ReadingOK, Reading
        <5> QED BY <1>20, <2>1, <3>4, <3>5, <3>7, <4>1, <5>2, <5>3, <5>4 DEF InSync
      <4> QED BY <4>2, <4>3
    <3> QED BY <3>6, <3>7
  <2> QED BY <2>3, <2>4 DEF NumbersInv
<1>13. ASSUME NEW s \in Shells, ReadFile(s) \/ Unlink(s), stale' # AllStale PROVE NumbersInv'
  <2>1. /\ UNCHANGED <<inbox, whole, sealed, seen>>
        /\ reading' = [reading EXCEPT ![s] = NotReading]
        /\ reading[s].pc \in {"readFile", "unlink"}
    BY <1>13 DEF ReadFile, Unlink
  <2>2. \/ UNCHANGED <<unread, stale, missed>>
        \/ /\ stale' = [q \in Shells |->
                stale[q] \/ (reading[q].what = "list" /\ Searching(q))]
           /\ missed' = [q \in Shells |->
                IF Searching(q) THEN missed[q] \cup {reading[s].name} ELSE missed[q]]
           /\ unread' = unread \ {reading[s].name}
    BY <1>13 DEF ReadFile, Unlink
  <2>3. /\ reading'[s].pc = "idle" /\ \A q \in Shells \ {s} : reading'[q] = reading[q]
    BY <1>1, <2>1 DEF ReadingOK, NotReading
  <2>4. ASSUME NEW q \in Shells, ~stale'[q] PROVE ~stale[q]
    BY <2>2, <2>4
  <2>5. ASSUME NEW q \in Shells \ {s}, ~stale'[q] PROVE InSync(q)'
    <3>1. InSync(q) /\ reading'[q] = reading[q] /\ seen'[q] = seen[q]
      BY <2>1, <2>3, <2>4, <2>5 DEF NumbersInv
    <3>2. CASE UNCHANGED <<unread, missed[q]>>
      BY <1>2, <2>1, <3>1, <3>2
    <3>3. CASE ~Searching(q) /\ missed'[q] = missed[q]
      BY <1>2, <2>1, <3>1, <3>3 DEF Searching
    <3>4. CASE Searching(q) /\ ~UNCHANGED <<unread, missed[q]>>
      <4>1. /\ reading[q].what # "list" /\ unread' = unread \ {reading[s].name}
            /\ missed'[q] = missed[q] \cup {reading[s].name}
        BY <2>2, <2>5, <3>4
      <4>2. Shown' = Shown
        BY <2>1 DEF Shown
      <4>3. \A n : Position(Shown, n)' = Position(Shown, n)
        BY <4>2 DEF Position
      <4>4. reading[q].pc \in {"globNew", "parse"}
        BY <3>4 DEF Searching
      <4> QED BY <2>1, <3>1, <4>1, <4>2, <4>3, <4>4 DEF InSync
    <3> QED BY <2>2, <3>2, <3>3, <3>4
  <2>6. ASSUME ~stale'[s] PROVE InSync(s)'
    <3>1. seen[s] = [n \in Shown |-> Position(Shown, n)]
      BY <2>1, <2>4, <2>6 DEF NumbersInv, InSync
    <3>2. Shown' = Shown /\ seen'[s] = seen[s]
      BY <2>1 DEF Shown
    <3>3. \A n : Position(Shown, n)' = Position(Shown, n)
      BY <3>2 DEF Position
    <3> QED BY <2>3, <3>1, <3>2, <3>3 DEF InSync
  <2> QED BY <2>5, <2>6 DEF NumbersInv
<1>14. CASE UNCHANGED mailVars
  BY <1>3, <1>14 DEF mailVars
<1> QED BY <1>4, <1>5, <1>6, <1>7, <1>8, <1>9, <1>10, <1>11, <1>12, <1>13, <1>14 DEF MailStep

-----------------------------------------------------------------------------
(* All parts together *)

CountOK == count \in [Kinds -> Nat]

MailboxInv ==
    BlockInv /\ IdentityInv /\ MailOK /\ DeliveryInv /\ NumbersInv /\ CountOK

LEMMA MailStarts == Init => MailOK /\ DeliveryInv /\ NumbersInv /\ CountOK
<1> SUFFICES ASSUME Init PROVE MailOK /\ DeliveryInv /\ NumbersInv /\ CountOK
  OBVIOUS
<1>1. FilesOK
  BY DEF Init, FilesOK
<1>2. ServingOK
  BY Defaults DEF Init, ServingOK
<1>3. ReadingOK
  <2>1. reading \in [Shells -> Reading]
    BY Defaults DEF Init
  <2>2. [n \in {} |-> 0] \in [{} -> Nat] /\ {} \in SUBSET Names
    OBVIOUS
  <2>3. DOMAIN seen = Shells /\ \A s \in Shells : seen[s] \in [{} -> Nat]
    BY <2>2 DEF Init
  <2> QED BY <2>1, <2>2, <2>3 DEF ReadingOK
<1>4. serving.pc = "idle"
  BY DEF Init, NotServing
<1>5. DeliveryInv
  BY <1>4 DEF Init, DeliveryInv, NamesInv, IndexInv, AcknowledgedIsStored,
              FailureMeansTouched, VerdictsKept, Written
<1>6. NumbersInv
  BY DEF Init, NumbersInv
<1>7. CountOK
  BY MailboxAssumption DEF Init, CountOK
<1> QED BY <1>1, <1>2, <1>3, <1>5, <1>6, <1>7 DEF MailOK

LEMMA CountStays == CountOK /\ CountStep => CountOK'
<1> SUFFICES ASSUME CountOK, CountStep PROVE CountOK'
  OBVIOUS
<1>1. ASSUME NEW what \in Kinds, Counted(what) PROVE CountOK'
  BY <1>1 DEF CountOK, Counted
<1> QED BY <1>1 DEF CountStep, CountOK

LEMMA Invariant == Spec => []MailboxInv
<1>1. Init => MailboxInv
  BY BlockListStarts, IdentityStarts, MailStarts DEF MailboxInv
<1>2. MailboxInv /\ [Next]_vars => MailboxInv'
  <2> SUFFICES ASSUME MailboxInv, [Next]_vars PROVE MailboxInv'
    OBVIOUS
  <2>1. BlockStep /\ IdentityStep /\ MailStep /\ CountStep
    BY Parts
  <2>2. MailOK'
    BY <2>1, FilesStep, ServingStep, ReadingStep DEF MailboxInv, MailOK
  <2>3. BlockInv' /\ IdentityInv'
    BY <2>1, BlockInvStep, IdentityInvStep DEF MailboxInv
  <2>4. DeliveryInv' /\ NumbersInv' /\ CountOK'
    BY <2>1, DeliveryStep, NumbersStep, CountStays DEF MailboxInv
  <2> QED BY <2>2, <2>3, <2>4 DEF MailboxInv
<1> QED BY <1>1, <1>2, PTL DEF Spec

\* Every variable has its type, in every mailbox.
THEOREM TypeCorrect == Spec => []TypeOK
<1>1. MailboxInv => TypeOK
  BY DEF MailboxInv, BlockInv, IdentityInv, MailOK, FilesOK, ServingOK, ReadingOK, CountOK,
         TypeOK, MailTypeOK
<1> QED BY <1>1, Invariant, PTL

\* A message whose sender was told of success is in the mailbox, whole, or
\* was deleted by the user.  It rests on the order of store_message: the name
\* is new and the answer comes last.
THEOREM AcknowledgedMailIsThere == Spec => []AcknowledgedIsStored
<1>1. MailboxInv => AcknowledgedIsStored
  BY DEF MailboxInv, DeliveryInv
<1> QED BY <1>1, Invariant, PTL

\* A message whose sender was told of a failure is not among the unread: the
\* failure came of the user's reading or deleting it under the server's hands.
THEOREM FailuresAreOfTouchedMail == Spec => []FailureMeansTouched
<1>1. MailboxInv => FailureMeansTouched
  BY DEF MailboxInv, DeliveryInv
<1> QED BY <1>1, Invariant, PTL

\* The verdict on an acknowledged message outlives every later rewriting of
\* .meta.json that no crash has torn.
THEOREM VerdictsStay == Spec => []VerdictsKept
<1>1. MailboxInv => VerdictsKept
  BY DEF MailboxInv, DeliveryInv
<1> QED BY <1>1, Invariant, PTL

\* A number means the message that was seen at it, however many shells list,
\* read and delete at once, or one as far below it as there were newer messages
\* renamed during the search.
THEOREM NumbersAreStable == Spec => []IndexMeansWhatWasSeen
<1>1. MailboxInv => IndexMeansWhatWasSeen
  <2> SUFFICES ASSUME MailboxInv, NEW s \in Shells,
                      reading[s].pc \in {"readFile", "unlink"}, ~stale[s],
                      NEW n, n = reading[s].name
               PROVE  /\ n \in DOMAIN seen[s]
                      /\ seen[s][n] - reading[s].index
                           \in 0..Cardinality({m \in missed[s] : m > n})
    BY DEF IndexMeansWhatWasSeen
  <2>1. InSync(s)
    BY DEF MailboxInv, NumbersInv
  <2>2. /\ n \in Shown /\ seen[s] = [m \in Shown |-> Position(Shown, m)]
        /\ Within(reading[s].index, n, Shown, missed[s])
    BY <2>1 DEF InSync
  <2>3. Shown \in SUBSET Names /\ missed[s] \in SUBSET Names
    BY DEF MailboxInv, MailOK, FilesOK, Shown
  <2>4. Position(Shown, n) - reading[s].index \in 0..Cardinality({m \in missed[s] : m > n})
    BY <2>2, <2>3, LostAreFewer
  <2> QED BY <2>2, <2>4
<1> QED BY <1>1, Invariant, PTL

\* Without two makers at once no key stays beside another pair's certificate,
\* wherever processes are stopped.
THEOREM IdentityFits == Spec => []IdentityIsAPair
<1>1. MailboxInv => IdentityIsAPair
  BY DEF MailboxInv, IdentityInv, OneMaker, IdentityIsAPair
<1> QED BY <1>1, Invariant, PTL

\* The server obeys what the block commands have reported.
THEOREM BlocksAreObeyed == Spec => BlockListIsObeyed
<1>1. MailboxInv /\ [Next]_vars =>
        [count'.messages < count.messages /\ Calm
           => (serving'.pc = "refuse" <=> serving'.from \cap reported # {})]_vars
  <2> SUFFICES ASSUME MailboxInv, Next, count'.messages < count.messages, Calm
               PROVE  serving'.pc = "refuse" <=> serving'.from \cap reported # {}
    OBVIOUS
  <2>1. blocked.lines = reported
    BY DEF MailboxInv, BlockInv, Calm, OneEdit, AtWork
  <2>2. ASSUME NEW senders, NEW checked, Receive(senders, checked)
        PROVE  serving'.pc = "refuse" <=> serving'.from \cap reported # {}
    BY <2>1, <2>2 DEF Receive, IsBlocked, NotServing
  <2>3. ASSUME Counted("mail") \/ Counted("block") \/ Counted("identity") \/ Counted("crashes")
        PROVE  FALSE
    BY <2>3 DEF Counted, MailboxInv, CountOK, Kinds
  <2>4. ASSUME UNCHANGED count PROVE FALSE
    BY <2>4 DEF MailboxInv, CountOK, Kinds
  <2>5. CASE ServerStep
    <3>1. CASE CreateFile \/ FillFile \/ ChmodFile \/ TruncateMeta \/ WriteMeta \/ Reply
      BY <2>4, <3>1, Zenon DEF CreateFile, FillFile, ChmodFile, TruncateMeta, WriteMeta, Reply
    <3>2. CASE StartTask \/ ServerCrash
      BY <2>3, <3>2 DEF StartTask, ServerCrash
    <3> QED BY <2>2, <2>5, <3>1, <3>2 DEF ServerStep
  <2>6. ASSUME NEW s \in Shells, ShellStep(s) PROVE FALSE
    <3>1. ASSUME NEW what, NEW i, MailCommand(s, what, i) PROVE FALSE
      BY <2>3, <3>1 DEF MailCommand, Starts
    <3>2. CASE GlobRead(s) \/ GlobNew(s) \/ Parse(s) \/ ReadFile(s) \/ Unlink(s)
      BY <2>4, <3>2, Zenon DEF GlobRead, GlobNew, Parse, OnlyReads, ReadFile, Unlink
    <3>3. ASSUME NEW a, BlockCommand(s, a) PROVE FALSE
      BY <2>3, <3>3 DEF BlockCommand, Starts
    <3>4. CASE ListAdd(s) \/ KillCommand(s)
      BY <2>3, <3>4 DEF ListAdd, KillCommand, Starts
    <3> QED BY <2>4, <2>6, <3>1, <3>2, <3>3, <3>4 DEF ShellStep
  <2> QED BY <2>4, <2>5, <2>6 DEF Next
<1> QED BY <1>1, Invariant, PTL DEF Spec, BlockListIsObeyed
-----------------------------------------------------------------------------
(* A mailbox is a MailStore *)

\* What is not whole is unread, and what was removed is not there.
StoreInv == inbox \ whole \subseteq unread /\ inbox \cap removed = {}

\* The phases, one by one.
LEMMA Phases ==
    ASSUME FilesOK, NEW n \in Names
    PROVE  /\ Phase[n] = PhaseOf(n)
           /\ n \in inbox \ whole => PhaseOf(n) = "partial"
           /\ n \in whole \cap unread => PhaseOf(n) = "new"
           /\ n \in whole \ unread => PhaseOf(n) = "read"
           /\ n \notin inbox /\ n \in removed => PhaseOf(n) = "gone"
           /\ n \notin inbox /\ n \notin removed => PhaseOf(n) = "none"
<1>1. whole \subseteq inbox /\ unread \subseteq inbox
  BY DEF FilesOK
<1> QED BY <1>1 DEF Phase, PhaseOf

\* A step moves one message from one phase to another, ...
LEMMA Moves ==
    ASSUME NEW n \in Names, NEW p, PhaseOf(n)' = p,
           \A m \in Names \ {n} : PhaseOf(m)' = PhaseOf(m)
    PROVE  Phase' = [Phase EXCEPT ![n] = p]
  BY DEF Phase

\* ... or none.
LEMMA Stays ==
    ASSUME UNCHANGED <<inbox, whole, unread, removed>>
    PROVE  Phase' = Phase
  BY DEF Phase, PhaseOf

\* A message that is not concerned keeps its phase.
LEMMA StaysFor ==
    ASSUME NEW n \in Names,
           n \in inbox' <=> n \in inbox, n \in whole' <=> n \in whole,
           n \in unread' <=> n \in unread, n \in removed' <=> n \in removed
    PROVE  PhaseOf(n)' = PhaseOf(n)
  BY DEF PhaseOf

\* Each step preserves the invariant.
LEMMA StoreInvStep == MailOK /\ DeliveryInv /\ StoreInv /\ MailStep => StoreInv'
<1> SUFFICES ASSUME MailOK, DeliveryInv, StoreInv, MailStep PROVE StoreInv'
  OBVIOUS
<1>1. CASE UNCHANGED <<inbox, whole, unread, removed>>
  BY <1>1 DEF StoreInv
<1>2. ASSUME NEW senders, NEW checked, Receive(senders, checked) PROVE StoreInv'
  BY <1>1, <1>2 DEF Receive
<1>3. CASE CreateFile
  <2>1. PICK n \in FreshNames : inbox' = inbox \cup {n} /\ unread' = unread \cup {n}
    BY <1>3, Zenon DEF CreateFile
  <2>2. n \notin removed
    BY DEF FreshNames, Used, DeliveryInv, NamesInv
  <2>3. UNCHANGED <<whole, removed>>
    BY <1>3 DEF CreateFile
  <2> QED BY <2>1, <2>2, <2>3 DEF StoreInv
<1>4. CASE FillFile
  <2>1. UNCHANGED <<inbox, unread, removed>> /\ whole \subseteq whole'
    BY <1>4 DEF FillFile
  <2> QED BY <2>1 DEF StoreInv
<1>5. CASE ChmodFile \/ TruncateMeta \/ WriteMeta \/ Reply
  <2>1. UNCHANGED <<inbox, whole, unread, removed>>
    BY <1>5, Zenon DEF ChmodFile, TruncateMeta, WriteMeta, Reply
  <2> QED BY <1>1, <2>1
<1>6. CASE StartTask \/ ServerCrash \/ UNCHANGED mailVars
  BY <1>1, <1>6 DEF StartTask, ServerCrash, mailVars
<1>7. ASSUME NEW s \in Shells, NEW what, NEW i, MailCommand(s, what, i) PROVE StoreInv'
  BY <1>1, <1>7 DEF MailCommand
<1>8. ASSUME NEW s \in Shells, GlobRead(s) \/ GlobNew(s) \/ Parse(s) PROVE StoreInv'
  BY <1>1, <1>8 DEF GlobRead, GlobNew, Parse, OnlyReads
<1>9. ASSUME NEW s \in Shells, ReadFile(s) PROVE StoreInv'
  <2>1. UNCHANGED <<inbox, whole, removed>> /\ unread \subseteq unread' \cup whole
    BY <1>9 DEF ReadFile
  <2> QED BY <2>1 DEF StoreInv
<1>10. ASSUME NEW s \in Shells, Unlink(s) PROVE StoreInv'
  BY <1>10 DEF Unlink, StoreInv
<1> QED BY <1>2, <1>3, <1>4, <1>5, <1>6, <1>7, <1>8, <1>9, <1>10 DEF MailStep

\* Each step of the messages is one of MailStore's, or none.
LEMMA StoreSimulation ==
    MailOK /\ DeliveryInv /\ StoreInv /\ MailStep => [Store!Next]_(Store!vars)
<1> SUFFICES ASSUME MailOK, DeliveryInv, StoreInv, MailStep
             PROVE  [Store!Next]_(Store!vars)
  OBVIOUS
<1>1. FilesOK /\ ServingOK /\ FilesOK'
  BY FilesStep DEF MailOK
<1>2. ASSUME NEW n \in Names,
             Store!Create(n) \/ Store!Fill(n) \/ Store!Read(n) \/ Store!Delete(n)
      PROVE  [Store!Next]_(Store!vars)
  BY <1>2 DEF Store!Next
<1>3. ASSUME NEW n \in Names, NEW outcome \in {"stored", "failed"}, Store!Tell(n, outcome)
      PROVE  [Store!Next]_(Store!vars)
  BY <1>3 DEF Store!Next
<1>4. CASE UNCHANGED <<inbox, whole, unread, removed, told>> /\ Current' = Current
  BY <1>4, Stays DEF Store!vars
<1>5. ASSUME NEW senders, NEW checked, Receive(senders, checked)
      PROVE  [Store!Next]_(Store!vars)
  <2>1. UNCHANGED <<inbox, whole, unread, removed, told>>
    BY <1>5 DEF Receive
  <2>2. serving.pc = "idle" /\ serving'.pc \in {"refuse", "create"}
    BY <1>5 DEF Receive, ServerIdle, NotServing
  <2> QED BY <1>4, <2>1, <2>2 DEF Current
<1>6. CASE CreateFile
  <2>1. PICK n \in FreshNames :
          /\ inbox' = inbox \cup {n} /\ unread' = unread \cup {n}
          /\ told' = [told EXCEPT ![n] = "wait"]
          /\ serving' = [serving EXCEPT !.pc = "fill", !.name = n, !.from = {}]
    BY <1>6, Zenon DEF CreateFile
  <2>2. /\ n \in Names /\ told[n] = "nothing" /\ serving.pc = "create"
        /\ UNCHANGED <<whole, removed>>
    BY <1>6 DEF CreateFile, FreshNames, Used
  <2>3. n \notin inbox /\ n \notin whole /\ n \notin removed
    BY <1>1, <2>2 DEF DeliveryInv, NamesInv, FilesOK
  <2>4. Phase[n] = "none"
    BY <1>1, <2>2, <2>3, Phases
  <2>5. PhaseOf(n)' = "partial"
    BY <2>1, <2>2, <2>3 DEF PhaseOf
  <2>7. \A m \in Names \ {n} : PhaseOf(m)' = PhaseOf(m)
    BY <2>1, <2>2, StaysFor
  <2>8. Phase' = [Phase EXCEPT ![n] = "partial"]
    BY <2>2, <2>5, <2>7, Moves
  <2>9. serving'.pc = "fill" /\ serving'.name = n
    BY <1>1, <2>1 DEF ServingOK, Serving
  <2>10. Current = {} /\ Current' = {n}
    BY <2>2, <2>9 DEF Current
  <2> QED BY <1>2, <2>1, <2>2, <2>4, <2>8, <2>10 DEF Store!Create
<1>7. CASE FillFile
  <2>1. /\ UNCHANGED <<inbox, unread, removed, told>>
        /\ serving' = [serving EXCEPT !.pc = "chmod"] /\ serving.pc = "fill"
        /\ whole' = IF serving.name \in inbox THEN whole \cup {serving.name} ELSE whole
    BY <1>7 DEF FillFile, Serves
  <2>2. serving'.pc = "chmod" /\ serving'.name = serving.name /\ serving.name \in Names
    BY <1>1, <2>1 DEF ServingOK, Serving
  <2>3. Current = {serving.name} /\ Current' = Current
    BY <2>1, <2>2 DEF Current
  <2>4. CASE serving.name \in inbox \ whole
    <3>1. Phase[serving.name] = "partial" /\ serving.name \in unread
      BY <1>1, <2>2, <2>4, Phases DEF StoreInv
    <3>2. PhaseOf(serving.name)' = "new"
      BY <2>1, <2>4, <3>1 DEF PhaseOf
    <3>3. \A m \in Names \ {serving.name} : PhaseOf(m)' = PhaseOf(m)
      BY <2>1, StaysFor
    <3>4. Phase' = [Phase EXCEPT ![serving.name] = "new"]
      BY <2>2, <3>2, <3>3, Moves
    <3> QED BY <1>2, <2>1, <2>2, <2>3, <3>1, <3>4 DEF Store!Fill
  <2>5. CASE serving.name \notin inbox \ whole
    <3>1. whole' = whole
      BY <2>1, <2>5
    <3> QED BY <1>4, <2>1, <2>3, <3>1
  <2> QED BY <2>4, <2>5
<1>8. CASE ChmodFile
  <2>1. UNCHANGED <<inbox, whole, unread, removed>> /\ serving.pc = "chmod"
    BY <1>8 DEF ChmodFile
  <2>2. serving.name \in Names /\ Current = {serving.name}
    BY <1>1, <2>1 DEF ServingOK, Serving, Current
  <2>3. told[serving.name] = "wait" /\ serving.name \in whole \cup removed
    BY <2>1 DEF DeliveryInv, NamesInv, Written
  <2>4. CASE serving.name \in inbox \cap unread
    <3>1. /\ serving' = [serving EXCEPT !.pc = IF serving.checked THEN "truncateMeta" ELSE "reply"]
          /\ UNCHANGED told
      BY <1>8, <2>4 DEF ChmodFile, Serves
    <3>2. serving'.pc \in {"truncateMeta", "reply"} /\ serving'.name = serving.name
      BY <1>1, <3>1 DEF ServingOK, Serving
    <3>3. Current' = Current
      BY <2>2, <3>2 DEF Current
    <3> QED BY <1>4, <2>1, <3>1, <3>3
  <2>5. CASE serving.name \notin inbox \cap unread
    <3>1. serving' = NotServing /\ told' = [told EXCEPT ![serving.name] = "failed"]
      BY <1>8, <2>5 DEF ChmodFile
    <3>2. Current' = {}
      BY <3>1 DEF Current, NotServing
    <3>3. CASE serving.name \in inbox
      <4>1. serving.name \in whole \ unread
        BY <2>3, <2>5, <3>3 DEF StoreInv
      <4>2. Phase[serving.name] = "read"
        BY <1>1, <2>2, <4>1, Phases
      <4>3. Phase' = Phase
        BY <2>1, Stays
      <4> QED BY <1>3, <2>2, <2>3, <3>1, <3>2, <4>2, <4>3 DEF Store!Tell
    <3>4. CASE serving.name \notin inbox
      <4>1. Phase[serving.name] = "gone"
        BY <1>1, <2>2, <2>3, <3>4, Phases
      <4>2. Phase' = Phase
        BY <2>1, Stays
      <4> QED BY <1>3, <2>2, <2>3, <3>1, <3>2, <4>1, <4>2 DEF Store!Tell
    <3> QED BY <3>3, <3>4
  <2> QED BY <2>4, <2>5
<1>9. CASE TruncateMeta \/ WriteMeta
  <2>1. UNCHANGED <<inbox, whole, unread, removed, told>>
    BY <1>9, Zenon DEF TruncateMeta, WriteMeta
  <2>2. /\ serving.pc \in {"truncateMeta", "writeMeta"}
        /\ serving'.pc \in {"writeMeta", "reply"} /\ serving'.name = serving.name
    BY <1>1, <1>9 DEF TruncateMeta, WriteMeta, ServingOK, Serving
  <2> QED BY <1>4, <2>1, <2>2 DEF Current
<1>10. CASE Reply
  <2>1. UNCHANGED <<inbox, whole, unread, removed>> /\ serving.pc \in {"reply", "refuse"}
    BY <1>10 DEF Reply
  <2>2. Current' = {}
    BY <1>10 DEF Reply, Current, NotServing
  <2>3. CASE serving.pc = "refuse"
    BY <1>4, <1>10, <2>1, <2>2, <2>3 DEF Reply, Current
  <2>4. CASE serving.pc = "reply"
    <3>1. serving.name \in Names /\ Current = {serving.name}
      BY <1>1, <2>4 DEF ServingOK, Serving, Current
    <3>2. told[serving.name] = "wait" /\ serving.name \in whole \cup removed
      BY <2>4 DEF DeliveryInv, NamesInv, Written
    <3>3. told' = [told EXCEPT ![serving.name] = "stored"]
      BY <1>10, <2>4 DEF Reply
    <3>4. Phase' = Phase
      BY <2>1, Stays
    <3>5. Phase[serving.name] \in {"new", "read", "gone"}
      BY <1>1, <3>1, <3>2, Phases DEF StoreInv
    <3> QED BY <1>3, <2>2, <3>1, <3>2, <3>3, <3>4, <3>5 DEF Store!Tell
  <2> QED BY <2>1, <2>3, <2>4
<1>11. CASE ServerCrash
  <2>1. UNCHANGED <<inbox, whole, unread, removed, told>> /\ serving' = NotServing
    BY <1>11 DEF ServerCrash
  <2>2. Phase' = Phase /\ Current' = {}
    BY <2>1, Stays DEF Current, NotServing
  <2> QED BY <2>1, <2>2 DEF Store!Next, Store!Crash
<1>12. CASE StartTask \/ UNCHANGED mailVars
  <2>1. UNCHANGED <<inbox, whole, unread, removed, told, serving>>
    BY <1>12, Zenon DEF StartTask, mailVars
  <2> QED BY <1>4, <2>1 DEF Current
<1>13. ASSUME NEW s \in Shells, NEW what, NEW i, MailCommand(s, what, i)
       PROVE  [Store!Next]_(Store!vars)
  <2>1. UNCHANGED <<inbox, whole, unread, removed, told, serving>>
    BY <1>13 DEF MailCommand
  <2> QED BY <1>4, <2>1 DEF Current
<1>14. ASSUME NEW s \in Shells, GlobRead(s) \/ GlobNew(s) \/ Parse(s)
       PROVE  [Store!Next]_(Store!vars)
  <2>1. UNCHANGED <<inbox, whole, unread, removed, told, serving>>
    BY <1>14 DEF GlobRead, GlobNew, Parse, OnlyReads
  <2> QED BY <1>4, <2>1 DEF Current
<1>15. ASSUME NEW s \in Shells, ReadFile(s) PROVE [Store!Next]_(Store!vars)
  <2>1. UNCHANGED <<inbox, whole, removed, told, serving>>
    BY <1>15 DEF ReadFile
  <2>2. Current' = Current
    BY <2>1 DEF Current
  <2>3. CASE unread' = unread
    BY <1>4, <2>1, <2>2, <2>3
  <2>4. CASE unread' # unread
    <3>1. PICK n \in whole \cap unread : unread' = unread \ {n}
      BY <1>15, <2>4 DEF ReadFile
    <3>2. n \in Names /\ Phase[n] = "new"
      BY <1>1, <3>1, Phases DEF FilesOK
    <3>3. PhaseOf(n)' = "read"
      <4>1. n \in inbox' /\ n \in whole' /\ n \notin unread'
        BY <1>1, <2>1, <3>1 DEF FilesOK
      <4> QED BY <4>1 DEF PhaseOf
    <3>4. \A m \in Names \ {n} : PhaseOf(m)' = PhaseOf(m)
      BY <2>1, <3>1, StaysFor
    <3>5. Phase' = [Phase EXCEPT ![n] = "read"]
      BY <3>2, <3>3, <3>4, Moves
    <3> QED BY <1>2, <2>1, <2>2, <3>2, <3>5 DEF Store!Read
  <2> QED BY <2>3, <2>4
<1>16. ASSUME NEW s \in Shells, Unlink(s) PROVE [Store!Next]_(Store!vars)
  <2>1. UNCHANGED <<told, serving>>
    BY <1>16 DEF Unlink
  <2>2. Current' = Current
    BY <2>1 DEF Current
  <2>3. CASE UNCHANGED <<inbox, whole, unread, removed>>
    BY <1>4, <2>1, <2>2, <2>3
  <2>4. CASE ~UNCHANGED <<inbox, whole, unread, removed>>
    <3>1. PICK n \in inbox :
            /\ inbox' = inbox \ {n} /\ unread' = unread \ {n} /\ whole' = whole \ {n}
            /\ removed' = removed \cup {n}
      BY <1>1, <1>16, <2>4 DEF Unlink, StillThere, FilesOK
    <3>2. n \in Names /\ told[n] # "nothing"
      BY <1>1, <3>1 DEF FilesOK, DeliveryInv, NamesInv
    <3>3. Phase[n] \in {"partial", "new", "read"}
      BY <1>1, <3>1, <3>2, Phases
    <3>4. PhaseOf(n)' = "gone"
      BY <1>1, <2>1, <3>1, <3>2 DEF PhaseOf, FilesOK
    <3>5. \A m \in Names \ {n} : PhaseOf(m)' = PhaseOf(m)
      BY <2>1, <3>1, StaysFor
    <3>6. Phase' = [Phase EXCEPT ![n] = "gone"]
      BY <3>2, <3>4, <3>5, Moves
    <3> QED BY <1>2, <2>1, <2>2, <3>2, <3>3, <3>6 DEF Store!Delete
  <2> QED BY <2>3, <2>4
<1> QED BY <1>5, <1>6, <1>7, <1>8, <1>9, <1>10, <1>11, <1>12, <1>13, <1>14, <1>15, <1>16
        DEF MailStep

\* The directory is a MailStore, whatever deliveries, commands and crashes
\* meet in it: no message comes back or becomes unread again, what a crash has
\* left in pieces stays so, and each sender is told once, and truly.
THEOREM MailboxIsMailStore == Spec => ImplementsMailStore
<1>1. Init => MailboxInv /\ StoreInv
  BY BlockListStarts, IdentityStarts, MailStarts DEF MailboxInv, Init, StoreInv
<1>2. Init => Store!Init
  <2> SUFFICES ASSUME Init PROVE Store!Init
    OBVIOUS
  <2>1. inbox = {} /\ whole = {} /\ removed = {} /\ told = [n \in Names |-> "nothing"]
    BY DEF Init
  <2>2. Phase = [n \in Names |-> "none"]
    BY <2>1 DEF Phase, PhaseOf
  <2>3. Current = {}
    BY DEF Init, NotServing, Current
  <2> QED BY <2>1, <2>2, <2>3 DEF Store!Init
<1>3. MailboxInv /\ StoreInv /\ [Next]_vars => StoreInv' /\ [Store!Next]_(Store!vars)
  BY Parts, StoreInvStep, StoreSimulation DEF MailboxInv
<1> QED BY <1>1, <1>2, <1>3, Invariant, PTL DEF Spec, ImplementsMailStore, Store!Spec
===============================================================================
