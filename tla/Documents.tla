----------------------------- MODULE Documents -----------------------------
(***************************************************************************)
(* KYC documents: the row in the database, the bytes on the disk, and the  *)
(* script that moves the bytes of old rows from the one to the other       *)
(* (documents.service.ts, documents.repository.ts, local-disk.storage.ts,  *)
(* migrate-documents.ts).                                                  *)
(*                                                                         *)
(* A file is written under a fresh random name, so Files are names that    *)
(* are used once.  A process is a request of the API or a run of the       *)
(* script; between two of its calls any other may move, and it may die.    *)
(* The script reads the encryption key from the environment when it        *)
(* starts, the API when it booted.  A key may be introduced where there    *)
(* was none (development; in production the boot demands one); replacing   *)
(* one key by another has no code yet.                                     *)
(***************************************************************************)
EXTENDS Naturals

CONSTANTS
  Docs,     \* documents
  Legacy,   \* documents that old rows hold inline
  Unowned,  \* old documents that no account owns
  Files,    \* file names
  Procs,    \* requests of the API and runs of the script
  Faults,   \* "disk": a write leaves wrong bytes; "db": an insert fails;
            \* "audit": an audit row is not written; "crash"
  MaxReads, \* bound: downloads by reviewers
  None      \* no file, no document

Homes == Files \cup {"absent", "inline"}
Pcs == {"idle", "write", "insert", "next", "readBack", "move", "get", "audit", "reply"}

VARIABLES
  home,       \* home[d]: where the row of d says its bytes are; "absent" without a row
  encrypted,  \* encrypted[d]: what the row of d says of its file
  disk,       \* disk[f]: what the file holds ("free", "torn", "bad", "whole")
  sealed,     \* the files written with the key
  env,        \* the environment configures a key
  booted,     \* the API booted with a key
  pc, doc, file,
  sealing,    \* sealing[p]: p has the key
  todo,       \* todo[p]: the documents a run of the script has still to move
  read,       \* read[p]: the home in the row that p read
  reads,      \* downloads by reviewers so far
  audited, unaudited, delivered  \* of each document, for a reviewer

rows == <<home, encrypted>>
storage == <<disk, sealed>>
config == <<env, booted>>
local == <<doc, file, sealing, todo, read>>
trail == <<reads, audited, unaudited, delivered>>
vars == <<rows, storage, config, pc, local, trail>>

Init ==
  /\ home = [d \in Docs |-> IF d \in Legacy THEN "inline" ELSE "absent"]
  /\ encrypted = [d \in Docs |-> FALSE]
  /\ disk = [f \in Files |-> "free"] /\ sealed = {}
  /\ env \in BOOLEAN /\ booted = env
  /\ pc = [p \in Procs |-> "idle"]
  /\ doc = [p \in Procs |-> None] /\ file = [p \in Procs |-> None]
  /\ sealing = [p \in Procs |-> FALSE] /\ todo = [p \in Procs |-> {}]
  /\ read = [p \in Procs |-> "absent"]
  /\ reads = 0 /\ audited = [d \in Docs |-> 0] /\ unaudited = [d \in Docs |-> 0]
  /\ delivered = [d \in Docs |-> 0]

At(p, point) == pc[p] = point
Goto(p, point) == pc' = [pc EXCEPT ![p] = point]

\* A process that is done keeps nothing.
Finish(p) ==
  /\ Goto(p, "idle")
  /\ doc' = [doc EXCEPT ![p] = None] /\ file' = [file EXCEPT ![p] = None]
  /\ sealing' = [sealing EXCEPT ![p] = FALSE] /\ todo' = [todo EXCEPT ![p] = {}]
  /\ read' = [read EXCEPT ![p] = "absent"]

-----------------------------------------------------------------------------
(* Writing bytes, for an upload and for the script. *)

\* put(): a fresh name; the bytes appear while writeFile runs.
NewFile(p, d) ==
  LET f == CHOOSE f \in Files : disk[f] = "free" IN
    /\ \E free \in Files : disk[free] = "free"
    /\ disk' = [disk EXCEPT ![f] = "torn"]
    /\ sealed' = IF sealing'[p] THEN sealed \cup {f} ELSE sealed
    /\ doc' = [doc EXCEPT ![p] = d] /\ file' = [file EXCEPT ![p] = f]
    /\ Goto(p, "write")

\* A person uploads a document that passed the checks of type and size.
Upload(p, d) ==
  /\ At(p, "idle") /\ home[d] = "absent"
  /\ \A q \in Procs : doc[q] # d
  /\ sealing' = [sealing EXCEPT ![p] = booted]
  /\ NewFile(p, d)
  /\ UNCHANGED <<rows, config, todo, read, trail>>

\* writeFile() returns; with "disk", the bytes are not the ones it was given.
Put(p) ==
  /\ At(p, "write")
  /\ \E result \in {"whole", "bad"} :
       /\ result = "bad" => "disk" \in Faults
       /\ disk' = [disk EXCEPT ![file[p]] = result]
  /\ Goto(p, IF home[doc[p]] = "absent" THEN "insert" ELSE "readBack")
  /\ UNCHANGED <<rows, sealed, config, local, trail>>

\* The row of an uploaded document; if it fails the file stays, without a row.
Insert(p) ==
  /\ At(p, "insert")
  /\ \/ /\ home' = [home EXCEPT ![doc[p]] = file[p]]
        /\ encrypted' = [encrypted EXCEPT ![doc[p]] = sealing[p]]
     \/ "db" \in Faults /\ UNCHANGED rows
  /\ Finish(p)
  /\ UNCHANGED <<storage, config, trail>>

-----------------------------------------------------------------------------
(* The script (with --confirm). *)

\* One SELECT of the rows that are inline; those that no account owns are skipped.
Pending == {d \in Docs \ Unowned : home[d] = "inline"}

Migrate(p) ==
  /\ At(p, "idle") /\ Pending # {}
  /\ todo' = [todo EXCEPT ![p] = Pending]
  /\ sealing' = [sealing EXCEPT ![p] = env]
  /\ Goto(p, "next")
  /\ UNCHANGED <<rows, storage, config, doc, file, read, trail>>

\* The next document of the list, or the end of the run.
MoveNext(p) ==
  /\ At(p, "next")
  /\ UNCHANGED <<rows, config, trail>>
  /\ \/ /\ todo[p] = {}
        /\ Finish(p)
        /\ UNCHANGED storage
     \/ \E d \in todo[p] :
          /\ todo' = [todo EXCEPT ![p] = @ \ {d}]
          /\ UNCHANGED <<sealing, read>>
          /\ NewFile(p, d)

\* Mutant: the run trusts the write and does not read it back.
ReadBackTrusts(p) ==
  /\ At(p, "readBack")
  /\ Goto(p, "move")
  /\ UNCHANGED <<rows, storage, config, local, trail>>

\* The file is read back and compared; a mismatch ends the run.
ReadBack(p) ==
  /\ At(p, "readBack")
  /\ IF disk[file[p]] = "whole"
       THEN Goto(p, "move") /\ UNCHANGED local
       ELSE Finish(p)
  /\ UNCHANGED <<rows, storage, config, trail>>

\* The row gives up its content for the file, whatever the row says by now.
Move(p) ==
  /\ At(p, "move")
  /\ home' = [home EXCEPT ![doc[p]] = file[p]]
  /\ encrypted' = [encrypted EXCEPT ![doc[p]] = sealing[p]]
  /\ doc' = [doc EXCEPT ![p] = None] /\ file' = [file EXCEPT ![p] = None]
  /\ Goto(p, "next")
  /\ UNCHANGED <<storage, config, sealing, todo, read, trail>>

-----------------------------------------------------------------------------
(* Reading bytes, by a reviewer. *)

Download(p, d) ==
  /\ At(p, "idle") /\ home[d] # "absent"
  /\ reads < MaxReads
  /\ reads' = reads + 1
  /\ doc' = [doc EXCEPT ![p] = d]
  /\ sealing' = [sealing EXCEPT ![p] = booted]
  /\ read' = [read EXCEPT ![p] = home[d]]
  /\ Goto(p, IF home[d] = "inline" THEN "audit" ELSE "get")
  /\ UNCHANGED <<rows, storage, config, file, todo, audited, unaudited, delivered>>

\* With a key the file must open with it; without one the bytes are taken as they are.
Get(p) ==
  /\ At(p, "get")
  /\ IF sealing[p] => read[p] \in sealed /\ disk[read[p]] = "whole"
       THEN Goto(p, "audit") /\ UNCHANGED local
       ELSE Finish(p)
  /\ UNCHANGED <<rows, storage, config, trail>>

\* Mutant: the bytes leave and the audit row is written behind them.
AuditLater(p) ==
  /\ At(p, "audit")
  /\ delivered' = [delivered EXCEPT ![doc[p]] = @ + 1]
  /\ Goto(p, "reply")
  /\ UNCHANGED <<rows, storage, config, local, reads, audited, unaudited>>

\* The audit row; when it cannot be written the read goes on, with an error in the log.
Audit(p) ==
  /\ At(p, "audit")
  /\ \/ /\ audited' = [audited EXCEPT ![doc[p]] = @ + 1]
        /\ UNCHANGED unaudited
     \/ /\ "audit" \in Faults
        /\ unaudited' = [unaudited EXCEPT ![doc[p]] = @ + 1]
        /\ UNCHANGED audited
  /\ Goto(p, "reply")
  /\ UNCHANGED <<rows, storage, config, local, reads, delivered>>

Reply(p) ==
  /\ At(p, "reply")
  /\ delivered' = [delivered EXCEPT ![doc[p]] = @ + 1]
  /\ Finish(p)
  /\ UNCHANGED <<rows, storage, config, reads, audited, unaudited>>

-----------------------------------------------------------------------------
\* The environment gets a key, which the API takes at its next boot.
SetKey ==
  /\ ~env
  /\ env' = TRUE
  /\ UNCHANGED <<rows, storage, booted, pc, local, trail>>

Boot ==
  /\ booted # env
  /\ \A p \in Procs : At(p, "idle")
  /\ booted' = env
  /\ UNCHANGED <<rows, storage, env, pc, local, trail>>

Crash(p) ==
  /\ "crash" \in Faults /\ ~At(p, "idle")
  /\ Finish(p)
  /\ UNCHANGED <<rows, storage, config, trail>>

Call(p) == Migrate(p) \/ \E d \in Docs : Upload(p, d) \/ Download(p, d)

Advance(p) ==
  Put(p) \/ Insert(p) \/ MoveNext(p) \/ ReadBack(p) \/ Move(p) \/ Get(p) \/ Audit(p) \/ Reply(p)

Next == SetKey \/ Boot \/ \E p \in Procs : Call(p) \/ Advance(p) \/ Crash(p)

Spec == Init /\ [][Next]_vars

-----------------------------------------------------------------------------
(* Properties. *)

\* Every variable has its type.
TypeOK ==
  /\ home \in [Docs -> Homes] /\ encrypted \in [Docs -> BOOLEAN]
  /\ disk \in [Files -> {"free", "torn", "bad", "whole"}] /\ sealed \subseteq Files
  /\ env \in BOOLEAN /\ booted \in BOOLEAN
  /\ pc \in [Procs -> Pcs]
  /\ doc \in [Procs -> Docs \cup {None}] /\ file \in [Procs -> Files \cup {None}]
  /\ sealing \in [Procs -> BOOLEAN] /\ todo \in [Procs -> SUBSET Docs]
  /\ read \in [Procs -> Homes]
  /\ reads \in Nat /\ audited \in [Docs -> Nat] /\ unaudited \in [Docs -> Nat] /\ delivered \in [Docs -> Nat]

\* A crash of the script, a wrong write or a second run never leaves a row
\* without its bytes (migrate-documents.ts:6-9), and the row says whether its
\* file needs the key (migrations/046:39): what an old row held inline is in a
\* whole file once the row names it, and no upload is named half written.
BytesAreKept ==
  \A d \in Docs :
    home[d] \in Files =>
      /\ disk[home[d]] \in (IF d \in Legacy THEN {"whole"} ELSE {"whole", "bad"})
      /\ encrypted[d] <=> home[d] \in sealed

\* A reviewer never has the bytes of a document without an audit row of that
\* read, unless the row could not be written (documents.service.ts:5-8).
ReadIsAudited == \A d \in Docs : delivered[d] =< audited[d] + unaudited[d]

\* No document is lost between the row and the disk, and none is read unseen.
DocumentsAreKept == BytesAreKept /\ ReadIsAudited
=============================================================================
