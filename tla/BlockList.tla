------------------------------ MODULE BlockList -------------------------------
(***************************************************************************)
(* The .blocked file of a mailbox: written by the user's "titlani mail     *)
(* block" and "mail unblock" commands (cli/commands/mail.py), each a       *)
(* process of its own, and read by the server before it takes a message    *)
(* (server/handler.py).  One action is one operation on the file.          *)
(***************************************************************************)
CONSTANTS
    Addresses,  \* addresses of senders, in lower case
    Shells      \* processes the user runs commands in, one after the other

VARIABLES
    blocked,    \* the file: is it there, and the addresses on its lines
    editing,    \* what each shell's block or unblock command is doing
    \* What has happened.
    reported,   \* the blocked addresses, by what the commands have reported
    rough       \* has a command begun during another, or been cut short?

blockVars == <<blocked, editing, reported, rough>>

BlockFile == [there : BOOLEAN, lines : SUBSET Addresses]

NoBlockFile == [there |-> FALSE, lines |-> {}]

\* "lines" is the set the command has computed from what it read, "addr" its
\* argument, in a set; "writeGone" is "write" to a file unlinked since.
Edit == [pc : {"idle", "truncate", "write", "writeGone", "unlink"},
         addr : SUBSET Addresses, lines : SUBSET Addresses]

NoEdit == [pc |-> "idle", addr |-> {}, lines |-> {}]

BlockInit ==
    /\ blocked = NoBlockFile
    /\ editing = [s \in Shells |-> NoEdit]
    /\ reported = {}
    /\ rough = FALSE

EditEnds(s) == editing' = [editing EXCEPT ![s] = NoEdit]

\* The server's reading of the file: one of those who sent or passed on a
\* message is on it.
IsBlocked(senders) == senders \cap blocked.lines # {}

Calm == ~rough /\ \A s \in Shells : editing[s].pc = "idle"

-----------------------------------------------------------------------------
(* Commands *)

\* A command reads the file, and has nothing to change ...
OnlyReports(set) == reported' = set /\ UNCHANGED <<blocked, editing>>

\* ... or goes on with the lines the file is to have.
Edits(s, a, step, lines) ==
    /\ editing' = [editing EXCEPT ![s] = [pc |-> step, addr |-> {a}, lines |-> lines]]
    /\ UNCHANGED <<blocked, reported>>

\* Faulty command: the address is put in a new set, not in the one read.
Block_Forgets(s, a) ==
    /\ IF a \in blocked.lines THEN OnlyReports(reported \cup {a})
                              ELSE Edits(s, a, "truncate", {a})
    /\ rough' = (rough \/ ~Calm)

\* mail_block.
Block(s, a) ==
    /\ IF a \in blocked.lines THEN OnlyReports(reported \cup {a})
                              ELSE Edits(s, a, "truncate", blocked.lines \cup {a})
    /\ rough' = (rough \/ ~Calm)

\* mail_unblock: a file with nobody left on it is removed.
Unblock(s, a) ==
    /\ LET rest == blocked.lines \ {a}
       IN  IF a \notin blocked.lines THEN OnlyReports(reported \ {a})
           ELSE Edits(s, a, IF rest = {} THEN "unlink" ELSE "truncate", rest)
    /\ rough' = (rough \/ ~Calm)

\* _write_blocked_set opens the file, which empties it or makes a new one, ...
TruncateBlocked(s) ==
    /\ editing[s].pc = "truncate"
    /\ blocked' = [there |-> TRUE, lines |-> {}]
    /\ editing' = [editing EXCEPT ![s].pc = "write"]
    /\ UNCHANGED <<reported, rough>>

ReportEdit(s) ==
    reported' = IF editing[s].addr \subseteq editing[s].lines
                  THEN reported \cup editing[s].addr
                  ELSE reported \ editing[s].addr

\* ... and writes the lines from the start: what another command has written
\* meanwhile may be longer and stick out at the end.
WriteBlocked(s) ==
    /\ editing[s].pc \in {"write", "writeGone"}
    /\ IF editing[s].pc = "write"
         THEN \E rest \in SUBSET blocked.lines :
                blocked' = [there |-> TRUE, lines |-> editing[s].lines \cup rest]
         ELSE UNCHANGED blocked
    /\ EditEnds(s)
    /\ ReportEdit(s)
    /\ UNCHANGED rough

\* unlink: commands that have opened the file go on writing to it, but nobody
\* will read that; a file already gone is reported as an error.
UnlinkBlocked(s) ==
    /\ editing[s].pc = "unlink"
    /\ blocked' = NoBlockFile
    /\ editing' = [q \in Shells |->
         CASE q = s -> NoEdit
           [] q # s /\ editing[q].pc = "write" -> [editing[q] EXCEPT !.pc = "writeGone"]
           [] OTHER -> editing[q]]
    /\ IF blocked.there THEN ReportEdit(s) ELSE UNCHANGED reported
    /\ UNCHANGED rough

EditStep(s) == TruncateBlocked(s) \/ WriteBlocked(s) \/ UnlinkBlocked(s)

\* The user stops a command.
EditKilled(s) ==
    /\ editing[s].pc # "idle"
    /\ EditEnds(s)
    /\ rough' = TRUE
    /\ UNCHANGED <<blocked, reported>>

-----------------------------------------------------------------------------
(* Properties *)

BlockTypeOK ==
    /\ blocked \in BlockFile
    /\ editing \in [Shells -> Edit]
    /\ reported \subseteq Addresses
    /\ rough \in BOOLEAN
===============================================================================
