----------------------------- MODULE ListIdentity -----------------------------
(***************************************************************************)
(* The certificate and key a mailing list signs its messages with: two     *)
(* files in its mailbox, made by the first process that needs them.        *)
(* get_or_create_list_identity (server/lists.py) runs in the server, for a *)
(* forward or a confirmation, and in "titlani list add".  The server's own *)
(* certificates are made in the same order (_ensure_certificates of        *)
(* server/server.py), at start-up.  One action is one operation on a file. *)
(***************************************************************************)
EXTENDS Naturals

CONSTANTS Makers        \* the processes that may need the identity

VARIABLES
    cert, key,  \* the files: Absent, Empty, or the generated pair they are of
    making,     \* what each process is doing about them
    \* What has happened.
    made,       \* how many pairs have been generated
    clash       \* have two processes made a pair at the same time?

identityVars == <<cert, key, making, made, clash>>

Absent == 0

Empty == 1

\* Pairs generated are counted from 2 on.
Generated(file) == file >= 2

Make == [pc : {"idle", "openCert", "writeCert", "openKey", "writeKey", "load"}, pair : Nat]

NoMake == [pc |-> "idle", pair |-> 0]

IdentityInit ==
    /\ cert = Absent
    /\ key = Absent
    /\ making = [m \in Makers |-> NoMake]
    /\ made = 0
    /\ clash = FALSE

\* Is m writing a pair of its own?
Making(m) == making[m].pc \notin {"idle", "load"}

MakingOn(m, step) == making' = [making EXCEPT ![m].pc = step]

\* Both files are there, or a new pair is generated.
GetIdentity(m) ==
    /\ IF cert # Absent /\ key # Absent
         THEN /\ making' = [making EXCEPT ![m] = [pc |-> "load", pair |-> 0]]
              /\ UNCHANGED <<made, clash>>
         ELSE /\ making' = [making EXCEPT ![m] = [pc |-> "openCert", pair |-> made + 2]]
              /\ made' = made + 1
              /\ clash' = (clash \/ \E q \in Makers \ {m} : Making(q))
    /\ UNCHANGED <<cert, key>>

\* Faulty repair: a certificate that is there already is kept.
OpenCert_KeepsOld(m) ==
    /\ making[m].pc = "openCert"
    /\ IF cert = Absent
         THEN cert' = Empty /\ MakingOn(m, "writeCert")
         ELSE MakingOn(m, "openKey") /\ UNCHANGED cert
    /\ UNCHANGED <<key, made, clash>>

\* The certificate: write_bytes opens the file and then writes it.
OpenCert(m) ==
    /\ making[m].pc = "openCert"
    /\ cert' = Empty
    /\ MakingOn(m, "writeCert")
    /\ UNCHANGED <<key, made, clash>>

WriteCert(m) ==
    /\ making[m].pc = "writeCert"
    /\ cert' = making[m].pair
    /\ MakingOn(m, "openKey")
    /\ UNCHANGED <<key, made, clash>>

\* Then the key, in the same way.
OpenKey(m) ==
    /\ making[m].pc = "openKey"
    /\ key' = Empty
    /\ MakingOn(m, "writeKey")
    /\ UNCHANGED <<cert, made, clash>>

WriteKey(m) ==
    /\ making[m].pc = "writeKey"
    /\ key' = making[m].pair
    /\ MakingOn(m, "load")
    /\ UNCHANGED <<cert, made, clash>>

\* The client loads the two files, and works with them or fails.
LoadIdentity(m) ==
    /\ making[m].pc = "load"
    /\ making' = [making EXCEPT ![m] = NoMake]
    /\ UNCHANGED <<cert, key, made, clash>>

MakeStep(m) ==
    OpenCert(m) \/ WriteCert(m) \/ OpenKey(m) \/ WriteKey(m) \/ LoadIdentity(m)

\* The process is stopped.
MakeKilled(m) ==
    /\ making[m].pc # "idle"
    /\ making' = [making EXCEPT ![m] = NoMake]
    /\ UNCHANGED <<cert, key, made, clash>>

-----------------------------------------------------------------------------
(* Properties *)

IdentityTypeOK ==
    /\ cert \in Nat
    /\ key \in Nat
    /\ making \in [Makers -> Make]
    /\ made \in Nat
    /\ clash \in BOOLEAN

\* Wherever a process is stopped, no key stays beside a certificate it does
\* not belong to: what is left is made again, or is an empty file.  Two
\* processes that find no identity at the same time are the exception.
IdentityIsAPair == ~clash /\ Generated(key) => cert = key
===============================================================================
