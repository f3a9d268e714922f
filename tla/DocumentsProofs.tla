---------------------------- MODULE DocumentsProofs ----------------------------
(***************************************************************************)
(* No row ever names a file that does not hold its bytes, for any number   *)
(* of uploads and of runs of the migration at once, with crashes and wrong *)
(* writes.                                                                 *)
(*                                                                         *)
(* What a row names is never free or torn, and only such files change: a   *)
(* new name is free, and a write ends on a file that only its writer has.  *)
(* The key goes the same way: a file is sealed when it is begun, by what   *)
(* its writer will later put into the row.                                 *)
(***************************************************************************)
EXTENDS Documents, FiniteSetTheorems, TLAPS

Writing(p) == pc[p] \in {"write", "insert", "readBack", "move"}

\* What a file holds while its writer is at this point.
Expected(point) ==
  IF point = "write" THEN {"torn"} ELSE IF point = "move" THEN {"whole"} ELSE {"whole", "bad"}

Types ==
  /\ home \in [Docs -> Homes] /\ encrypted \in [Docs -> BOOLEAN]
  /\ disk \in [Files -> {"free", "torn", "bad", "whole"}] /\ sealed \subseteq Files
  /\ pc \in [Procs -> Pcs]
  /\ doc \in [Procs -> Docs \cup {None}] /\ file \in [Procs -> Files \cup {None}]
  /\ sealing \in [Procs -> BOOLEAN] /\ todo \in [Procs -> SUBSET Docs]
  /\ env \in BOOLEAN /\ booted \in BOOLEAN

\* A writer has a document and a file, sealed as the writer was told.
WritersHaveFiles ==
  \A p \in Procs : Writing(p) =>
    /\ doc[p] \in Docs /\ file[p] \in Files
    /\ file[p] \in sealed <=> sealing[p]
    /\ disk[file[p]] \in Expected(pc[p])

\* No two writers have one file.
FilesAreOwn ==
  \A p, q \in Procs : (p # q /\ Writing(p) /\ Writing(q)) => file[p] # file[q]

\* An old document has a row, and only an upload inserts one.
OldHaveRows ==
  /\ \A d \in Docs : d \in Legacy => home[d] # "absent"
  /\ \A p \in Procs : pc[p] = "insert" => doc[p] \notin Legacy

\* A name is sealed when its file is begun.
FreeIsUnsealed == \A f \in Files : disk[f] = "free" => f \notin sealed

Inv == Types /\ WritersHaveFiles /\ FilesAreOwn /\ FreeIsUnsealed /\ OldHaveRows /\ BytesAreKept

\* The names of files are not the two marks.
NamesAreNames == "absent" \notin Files /\ "inline" \notin Files

LEMMA InitInv == ASSUME NamesAreNames, Init PROVE Inv
<1>1. Types
  BY DEF Init, Types, Homes, Pcs
<1>2. WritersHaveFiles /\ FilesAreOwn /\ FreeIsUnsealed /\ OldHaveRows
  BY DEF Init, WritersHaveFiles, FilesAreOwn, FreeIsUnsealed, OldHaveRows, Writing
<1>3. BytesAreKept
  BY DEF Init, BytesAreKept, NamesAreNames
<1> QED BY <1>1, <1>2, <1>3 DEF Inv

\* A process that ends leaves the files as they are.
LEMMA FinishInv ==
  ASSUME Inv, NEW p \in Procs, Finish(p), UNCHANGED <<rows, storage, config>>
  PROVE  Inv'
<1>0. pc' = [pc EXCEPT ![p] = "idle"] /\ \A q \in Procs \ {p} :
        pc'[q] = pc[q] /\ doc'[q] = doc[q] /\ file'[q] = file[q] /\ sealing'[q] = sealing[q]
  BY DEF Finish, Goto, Inv, Types
<1>1. pc'[p] = "idle"
  BY <1>0 DEF Inv, Types
<1>2. Types'
  BY DEF Inv, Types, Finish, Goto, Pcs, rows, storage, config
<1>3. WritersHaveFiles'
  BY <1>0, <1>1 DEF Inv, WritersHaveFiles, Writing, rows, storage
<1>4. FilesAreOwn'
  BY <1>0, <1>1 DEF Inv, FilesAreOwn, Writing
<1>5. FreeIsUnsealed' /\ OldHaveRows' /\ BytesAreKept'
  BY <1>0, <1>1 DEF Inv, FreeIsUnsealed, OldHaveRows, BytesAreKept, rows, storage
<1> QED BY <1>2, <1>3, <1>4, <1>5 DEF Inv

\* A step that moves a process between two points where it writes no file.
LEMMA GotoInv ==
  ASSUME Inv, NEW p \in Procs, NEW point \in {"next", "get", "audit", "reply"}, Goto(p, point),
         UNCHANGED <<rows, storage, config>>,
         doc' \in [Procs -> Docs \cup {None}], file' \in [Procs -> Files \cup {None}],
         sealing' \in [Procs -> BOOLEAN], todo' \in [Procs -> SUBSET Docs],
         \A q \in Procs \ {p} : doc'[q] = doc[q] /\ file'[q] = file[q] /\ sealing'[q] = sealing[q]
  PROVE  Inv'
<1>0. pc'[p] = point /\ \A q \in Procs \ {p} : pc'[q] = pc[q]
  BY DEF Goto, Inv, Types
<1>2. Types'
  BY DEF Inv, Types, Goto, Pcs, rows, storage, config
<1>3. WritersHaveFiles'
  BY <1>0 DEF Inv, WritersHaveFiles, Writing, rows, storage
<1>4. FilesAreOwn'
  BY <1>0 DEF Inv, FilesAreOwn, Writing
<1>5. FreeIsUnsealed' /\ OldHaveRows' /\ BytesAreKept'
  BY <1>0 DEF Inv, FreeIsUnsealed, OldHaveRows, BytesAreKept, rows, storage
<1> QED BY <1>2, <1>3, <1>4, <1>5 DEF Inv

\* A file is begun under a name that nobody has.
LEMMA NewFileInv ==
  ASSUME Inv, NEW p \in Procs, ~Writing(p), NEW d \in Docs, NewFile(p, d),
         UNCHANGED <<rows, config>>,
         sealing' \in [Procs -> BOOLEAN], todo' \in [Procs -> SUBSET Docs],
         \A q \in Procs \ {p} : sealing'[q] = sealing[q]
  PROVE  Inv'
<1> DEFINE f == CHOOSE g \in Files : disk[g] = "free"
<1>1. f \in Files /\ disk[f] = "free"
  BY DEF NewFile
<1>2. /\ disk' = [disk EXCEPT ![f] = "torn"]
      /\ sealed' = IF sealing'[p] THEN sealed \cup {f} ELSE sealed
      /\ doc' = [doc EXCEPT ![p] = d] /\ file' = [file EXCEPT ![p] = f]
      /\ pc' = [pc EXCEPT ![p] = "write"]
  BY DEF NewFile, Goto
<1> HIDE DEF f
<1>3. /\ pc'[p] = "write" /\ doc'[p] = d /\ file'[p] = f /\ disk'[f] = "torn"
      /\ \A q \in Procs \ {p} : pc'[q] = pc[q] /\ doc'[q] = doc[q] /\ file'[q] = file[q]
      /\ \A g \in Files \ {f} : disk'[g] = disk[g] /\ (g \in sealed' <=> g \in sealed)
  BY <1>1, <1>2 DEF Inv, Types
<1>4. Types'
  BY <1>1, <1>2 DEF Inv, Types, Pcs, rows, config
<1>5. \A q \in Procs : Writing(q) => file[q] # f
  BY <1>1 DEF Inv, WritersHaveFiles, Expected
<1>6. f \notin sealed
  BY <1>1 DEF Inv, FreeIsUnsealed
<1>7. f \in sealed' <=> sealing'[p]
  BY <1>2, <1>6
<1>8. WritersHaveFiles'
  <2> SUFFICES ASSUME NEW q \in Procs, Writing(q)'
               PROVE  /\ doc'[q] \in Docs /\ file'[q] \in Files
                      /\ file'[q] \in sealed' <=> sealing'[q]
                      /\ disk'[file'[q]] \in Expected(pc'[q])
    BY DEF WritersHaveFiles, Expected
  <2>1. CASE q = p
    BY <1>1, <1>3, <1>7, <2>1 DEF Expected
  <2>2. CASE q # p
    <3>1. /\ Writing(q) /\ pc'[q] = pc[q] /\ doc'[q] = doc[q] /\ file'[q] = file[q]
          /\ sealing'[q] = sealing[q]
      BY <1>3, <2>2 DEF Writing
    <3>2. /\ doc[q] \in Docs /\ file[q] \in Files \ {f}
          /\ file[q] \in sealed <=> sealing[q]
          /\ disk[file[q]] \in Expected(pc[q])
      BY <1>5, <3>1 DEF Inv, WritersHaveFiles
    <3>3. disk'[file[q]] = disk[file[q]] /\ (file[q] \in sealed' <=> file[q] \in sealed)
      BY <1>3, <3>2
    <3> QED BY <3>1, <3>2, <3>3
  <2> QED BY <2>1, <2>2
<1>9. FilesAreOwn'
  BY <1>3, <1>5 DEF Inv, FilesAreOwn, Writing
<1>10. FreeIsUnsealed'
  BY <1>3 DEF Inv, FreeIsUnsealed
<1>11. OldHaveRows'
  BY <1>3 DEF Inv, OldHaveRows, rows
<1>12. BytesAreKept'
  <2> SUFFICES ASSUME NEW e \in Docs, home[e] \in Files
               PROVE  /\ disk'[home[e]] \in (IF e \in Legacy THEN {"whole"} ELSE {"whole", "bad"})
                      /\ encrypted[e] <=> home[e] \in sealed'
    BY DEF BytesAreKept, rows
  <2>1. /\ disk[home[e]] \in (IF e \in Legacy THEN {"whole"} ELSE {"whole", "bad"})
        /\ encrypted[e] <=> home[e] \in sealed
    BY DEF Inv, BytesAreKept
  <2>2. home[e] # f
    BY <1>1, <2>1
  <2> QED BY <1>3, <2>1, <2>2
<1> QED BY <1>4, <1>8, <1>9, <1>10, <1>11, <1>12 DEF Inv

LEMMA UploadInv == ASSUME Inv, NEW p \in Procs, NEW d \in Docs, Upload(p, d) PROVE Inv'
<1>1. ~Writing(p) /\ NewFile(p, d) /\ UNCHANGED <<rows, config, todo>>
  BY DEF Upload, At, Writing
<1>2. sealing' = [sealing EXCEPT ![p] = booted]
  BY DEF Upload
<1> QED BY <1>1, <1>2, NewFileInv DEF Inv, Types

\* A write ends on a file of the writer's own.
LEMMA PutInv == ASSUME Inv, NEW p \in Procs, Put(p) PROVE Inv'
<1>1. PICK result \in {"whole", "bad"} : disk' = [disk EXCEPT ![file[p]] = result]
  BY DEF Put
<1> DEFINE point == IF home[doc[p]] = "absent" THEN "insert" ELSE "readBack"
<1>2. /\ pc[p] = "write" /\ Writing(p) /\ pc' = [pc EXCEPT ![p] = point]
      /\ UNCHANGED <<rows, sealed, config, local>>
  BY DEF Put, At, Writing, Goto
<1>3. /\ doc[p] \in Docs /\ file[p] \in Files /\ disk[file[p]] = "torn"
      /\ file[p] \in sealed <=> sealing[p]
  BY <1>2 DEF Inv, WritersHaveFiles, Expected
<1>4. point = "insert" => doc[p] \notin Legacy
  BY <1>3 DEF Inv, OldHaveRows
<1>5. point \in {"insert", "readBack"}
  OBVIOUS
<1> HIDE DEF point
<1>6. /\ pc'[p] = point /\ \A q \in Procs \ {p} : pc'[q] = pc[q]
      /\ disk'[file[p]] = result /\ \A g \in Files \ {file[p]} : disk'[g] = disk[g]
  BY <1>1, <1>2, <1>3 DEF Inv, Types
<1>7. Types'
  BY <1>1, <1>2, <1>3, <1>5 DEF Inv, Types, Pcs, rows, config, local
<1>8. WritersHaveFiles'
  <2> SUFFICES ASSUME NEW q \in Procs, Writing(q)'
               PROVE  /\ doc[q] \in Docs /\ file[q] \in Files
                      /\ file[q] \in sealed <=> sealing[q]
                      /\ disk'[file[q]] \in Expected(pc'[q])
    BY <1>2 DEF WritersHaveFiles, Expected, local
  <2>1. CASE q = p
    BY <1>3, <1>5, <1>6, <2>1 DEF Expected
  <2>2. CASE q # p
    <3>1. Writing(q) /\ pc'[q] = pc[q]
      BY <1>6, <2>2 DEF Writing
    <3>2. file[q] # file[p]
      BY <1>2, <2>2, <3>1 DEF Inv, FilesAreOwn
    <3>3. /\ doc[q] \in Docs /\ file[q] \in Files
          /\ file[q] \in sealed <=> sealing[q]
          /\ disk[file[q]] \in Expected(pc[q])
      BY <3>1 DEF Inv, WritersHaveFiles
    <3> QED BY <1>6, <3>1, <3>2, <3>3
  <2> QED BY <2>1, <2>2
<1>9. FilesAreOwn'
  BY <1>2, <1>5, <1>6 DEF Inv, FilesAreOwn, Writing, local
<1>10. FreeIsUnsealed'
  BY <1>2, <1>6 DEF Inv, FreeIsUnsealed
<1>11. OldHaveRows'
  BY <1>2, <1>4, <1>6 DEF Inv, OldHaveRows, rows, local
<1>12. BytesAreKept'
  <2> SUFFICES ASSUME NEW e \in Docs, home[e] \in Files
               PROVE  /\ disk'[home[e]] \in (IF e \in Legacy THEN {"whole"} ELSE {"whole", "bad"})
                      /\ encrypted[e] <=> home[e] \in sealed
    BY <1>2 DEF BytesAreKept, rows
  <2>1. /\ disk[home[e]] \in (IF e \in Legacy THEN {"whole"} ELSE {"whole", "bad"})
        /\ encrypted[e] <=> home[e] \in sealed
    BY DEF Inv, BytesAreKept
  <2>2. home[e] # file[p]
    BY <1>3, <2>1
  <2> QED BY <1>6, <2>1, <2>2
<1> QED BY <1>7, <1>8, <1>9, <1>10, <1>11, <1>12 DEF Inv

\* The row of a document names the file of its writer.
LEMMA RowInv ==
  ASSUME Inv, NEW p \in Procs, Writing(p),
         disk[file[p]] \in (IF doc[p] \in Legacy THEN {"whole"} ELSE {"whole", "bad"}),
         home' = [home EXCEPT ![doc[p]] = file[p]],
         encrypted' = [encrypted EXCEPT ![doc[p]] = sealing[p]],
         UNCHANGED storage
  PROVE  /\ home' \in [Docs -> Homes] /\ encrypted' \in [Docs -> BOOLEAN]
         /\ BytesAreKept'
<1>1. /\ doc[p] \in Docs /\ file[p] \in Files /\ sealing[p] \in BOOLEAN
      /\ file[p] \in sealed <=> sealing[p]
  BY DEF Inv, WritersHaveFiles, Types
<1>2. home' \in [Docs -> Homes] /\ encrypted' \in [Docs -> BOOLEAN]
  BY <1>1 DEF Inv, Types, Homes
<1>3. BytesAreKept'
  <2> SUFFICES ASSUME NEW e \in Docs, home'[e] \in Files
               PROVE  /\ disk[home'[e]] \in (IF e \in Legacy THEN {"whole"} ELSE {"whole", "bad"})
                      /\ encrypted'[e] <=> home'[e] \in sealed
    BY DEF BytesAreKept, storage
  <2>1. CASE e = doc[p]
    <3>1. home'[e] = file[p] /\ encrypted'[e] = sealing[p]
      BY <1>1, <2>1 DEF Inv, Types
    <3> QED BY <1>1, <2>1, <3>1
  <2>2. CASE e # doc[p]
    <3>1. home'[e] = home[e] /\ encrypted'[e] = encrypted[e]
      BY <2>2 DEF Inv, Types
    <3> QED BY <3>1 DEF Inv, BytesAreKept
  <2> QED BY <2>1, <2>2
<1> QED BY <1>2, <1>3

\* A process that ends after it wrote a row.
LEMMA FinishRowInv ==
  ASSUME Inv, NEW p \in Procs, Writing(p), UNCHANGED <<storage, config>>,
         pc'[p] \notin {"write", "insert", "readBack", "move"}, pc' \in [Procs -> Pcs],
         doc' \in [Procs -> Docs \cup {None}], file' \in [Procs -> Files \cup {None}],
         sealing' \in [Procs -> BOOLEAN], todo' \in [Procs -> SUBSET Docs],
         \A q \in Procs \ {p} :
           pc'[q] = pc[q] /\ doc'[q] = doc[q] /\ file'[q] = file[q] /\ sealing'[q] = sealing[q],
         home' = [home EXCEPT ![doc[p]] = file[p]],
         home' \in [Docs -> Homes], encrypted' \in [Docs -> BOOLEAN], BytesAreKept', NamesAreNames
  PROVE  Inv'
<1>1. Types'
  BY DEF Inv, Types, storage, config
<1>2. WritersHaveFiles'
  BY DEF Inv, WritersHaveFiles, Writing, storage
<1>3. FilesAreOwn'
  BY DEF Inv, FilesAreOwn, Writing
<1>4. FreeIsUnsealed'
  BY DEF Inv, FreeIsUnsealed, storage
<1>5. file[p] # "absent" /\ doc[p] \in Docs
  BY DEF Inv, WritersHaveFiles, NamesAreNames
<1>6. OldHaveRows'
  BY <1>5 DEF Inv, Types, OldHaveRows
<1> QED BY <1>1, <1>2, <1>3, <1>4, <1>6 DEF Inv

LEMMA InsertInv == ASSUME Inv, NamesAreNames, NEW p \in Procs, Insert(p) PROVE Inv'
<1>1. pc[p] = "insert" /\ Writing(p) /\ Finish(p) /\ UNCHANGED <<storage, config>>
  BY DEF Insert, At, Writing
<1>2. CASE UNCHANGED rows
  BY <1>1, <1>2, FinishInv
<1>3. CASE /\ home' = [home EXCEPT ![doc[p]] = file[p]]
           /\ encrypted' = [encrypted EXCEPT ![doc[p]] = sealing[p]]
  <2>1. disk[file[p]] \in (IF doc[p] \in Legacy THEN {"whole"} ELSE {"whole", "bad"})
    BY <1>1 DEF Inv, WritersHaveFiles, Expected, OldHaveRows
  <2>2. /\ home' \in [Docs -> Homes] /\ encrypted' \in [Docs -> BOOLEAN]
        /\ BytesAreKept'
    BY <1>1, <1>3, <2>1, RowInv
  <2>3. /\ pc'[p] = "idle" /\ pc' \in [Procs -> Pcs]
        /\ doc' \in [Procs -> Docs \cup {None}] /\ file' \in [Procs -> Files \cup {None}]
        /\ sealing' \in [Procs -> BOOLEAN] /\ todo' \in [Procs -> SUBSET Docs]
    BY <1>1 DEF Finish, Goto, Inv, Types, Pcs
  <2>4. \A q \in Procs \ {p} :
          pc'[q] = pc[q] /\ doc'[q] = doc[q] /\ file'[q] = file[q] /\ sealing'[q] = sealing[q]
    BY <1>1 DEF Finish, Goto, Inv, Types
  <2> QED BY <1>1, <1>3, <2>2, <2>3, <2>4, FinishRowInv
<1> QED BY <1>2, <1>3 DEF Insert

LEMMA MoveInv == ASSUME Inv, NamesAreNames, NEW p \in Procs, Move(p) PROVE Inv'
<1>1. /\ pc[p] = "move" /\ Writing(p) /\ Goto(p, "next") /\ UNCHANGED <<storage, config, sealing, todo>>
      /\ home' = [home EXCEPT ![doc[p]] = file[p]]
      /\ encrypted' = [encrypted EXCEPT ![doc[p]] = sealing[p]]
      /\ doc' = [doc EXCEPT ![p] = None] /\ file' = [file EXCEPT ![p] = None]
  BY DEF Move, At, Writing
<1>2. disk[file[p]] = "whole"
  BY <1>1 DEF Inv, WritersHaveFiles, Expected
<1>3. /\ home' \in [Docs -> Homes] /\ encrypted' \in [Docs -> BOOLEAN]
      /\ BytesAreKept'
  BY <1>1, <1>2, RowInv
<1>4. /\ pc'[p] = "next" /\ pc' \in [Procs -> Pcs]
      /\ doc' \in [Procs -> Docs \cup {None}] /\ file' \in [Procs -> Files \cup {None}]
      /\ sealing' \in [Procs -> BOOLEAN] /\ todo' \in [Procs -> SUBSET Docs]
  BY <1>1 DEF Goto, Inv, Types, Pcs
<1>5. \A q \in Procs \ {p} :
        pc'[q] = pc[q] /\ doc'[q] = doc[q] /\ file'[q] = file[q] /\ sealing'[q] = sealing[q]
  BY <1>1 DEF Goto, Inv, Types
<1> QED BY <1>1, <1>3, <1>4, <1>5, FinishRowInv

LEMMA MigrateInv == ASSUME Inv, NEW p \in Procs, Migrate(p) PROVE Inv'
<1>1. /\ Goto(p, "next") /\ UNCHANGED <<rows, storage, config, doc, file>>
      /\ todo' = [todo EXCEPT ![p] = Pending]
      /\ sealing' = [sealing EXCEPT ![p] = env]
  BY DEF Migrate
<1>2. Pending \in SUBSET Docs
  BY DEF Pending
<1> QED BY <1>1, <1>2, GotoInv DEF Inv, Types

LEMMA MoveNextInv == ASSUME Inv, NEW p \in Procs, MoveNext(p) PROVE Inv'
<1>1. ~Writing(p) /\ UNCHANGED <<rows, config>>
  BY DEF MoveNext, At, Writing
<1>2. CASE Finish(p) /\ UNCHANGED storage
  BY <1>1, <1>2, FinishInv
<1>3. ASSUME NEW d \in todo[p], todo' = [todo EXCEPT ![p] = @ \ {d}], UNCHANGED sealing, NewFile(p, d)
      PROVE  Inv'
  <2>1. d \in Docs /\ todo' \in [Procs -> SUBSET Docs]
    BY <1>3 DEF Inv, Types
  <2> QED BY <1>1, <1>3, <2>1, NewFileInv DEF Inv, Types
<1> QED BY <1>2, <1>3 DEF MoveNext

\* The script goes on to the row only from a whole file.
LEMMA ReadBackInv == ASSUME Inv, NEW p \in Procs, ReadBack(p) PROVE Inv'
<1>1. UNCHANGED <<rows, storage, config>> /\ pc[p] = "readBack"
  BY DEF ReadBack, At
<1>2. CASE Finish(p)
  BY <1>1, <1>2, FinishInv
<1>3. CASE disk[file[p]] = "whole" /\ Goto(p, "move") /\ UNCHANGED local
  <2>1. pc'[p] = "move" /\ \A q \in Procs \ {p} : pc'[q] = pc[q]
    BY <1>3 DEF Goto, Inv, Types
  <2>2. Types'
    BY <1>1, <1>3 DEF Inv, Types, Goto, Pcs, rows, storage, config, local
  <2>3. WritersHaveFiles'
    BY <1>1, <1>3, <2>1 DEF Inv, WritersHaveFiles, Writing, Expected, storage, local
  <2>4. FilesAreOwn'
    BY <1>1, <1>3, <2>1 DEF Inv, FilesAreOwn, Writing, local
  <2>5. FreeIsUnsealed' /\ OldHaveRows' /\ BytesAreKept'
    BY <1>1, <1>3, <2>1 DEF Inv, FreeIsUnsealed, OldHaveRows, BytesAreKept, rows, storage, local
  <2> QED BY <2>2, <2>3, <2>4, <2>5 DEF Inv
<1> QED BY <1>2, <1>3 DEF ReadBack

\* A download writes nothing but the trail.
LEMMA DownloadInv == ASSUME Inv, NEW p \in Procs, NEW d \in Docs, Download(p, d) PROVE Inv'
<1>1. /\ UNCHANGED <<rows, storage, config, file, todo>>
      /\ Goto(p, IF home[d] = "inline" THEN "audit" ELSE "get")
      /\ doc' = [doc EXCEPT ![p] = d] /\ sealing' = [sealing EXCEPT ![p] = booted]
  BY DEF Download
<1>2. PICK point \in {"audit", "get"} : Goto(p, point)
  BY <1>1
<1> QED BY <1>1, <1>2, GotoInv DEF Inv, Types

LEMMA ReadingInv == ASSUME Inv, NEW p \in Procs, Get(p) \/ Audit(p) \/ Reply(p) PROVE Inv'
<1>1. UNCHANGED <<rows, storage, config>>
  BY DEF Get, Audit, Reply
<1>2. CASE Finish(p)
  BY <1>1, <1>2, FinishInv
<1>3. ASSUME NEW point \in {"audit", "reply"}, Goto(p, point), UNCHANGED local
      PROVE  Inv'
  BY <1>1, <1>3, GotoInv DEF Inv, Types, local
<1> QED BY <1>2, <1>3 DEF Get, Audit, Reply

LEMMA ConfigInv ==
  ASSUME Inv, UNCHANGED <<rows, storage, pc, local>>, env' \in BOOLEAN, booted' \in BOOLEAN
  PROVE  Inv'
<1>1. Types'
  BY DEF Inv, Types, rows, storage, local
<1>2. WritersHaveFiles' /\ FilesAreOwn' /\ FreeIsUnsealed' /\ OldHaveRows' /\ BytesAreKept'
  BY DEF Inv, WritersHaveFiles, FilesAreOwn, FreeIsUnsealed, OldHaveRows, BytesAreKept, Writing,
         rows, storage, local
<1> QED BY <1>1, <1>2 DEF Inv

LEMMA NextInv == ASSUME NamesAreNames PROVE Inv /\ [Next]_vars => Inv'
<1> SUFFICES ASSUME Inv, [Next]_vars PROVE Inv'
  OBVIOUS
<1>1. CASE SetKey \/ Boot
  <2>1. UNCHANGED <<rows, storage, pc, local>> /\ env' \in BOOLEAN /\ booted' \in BOOLEAN
    BY <1>1 DEF SetKey, Boot, Inv, Types
  <2> QED BY <2>1, ConfigInv
<1>2. ASSUME NEW p \in Procs, Call(p) PROVE Inv'
  BY <1>2, MigrateInv, UploadInv, DownloadInv DEF Call
<1>3. ASSUME NEW p \in Procs, Advance(p) PROVE Inv'
  BY <1>3, PutInv, InsertInv, MoveNextInv, ReadBackInv, MoveInv, ReadingInv DEF Advance
<1>4. ASSUME NEW p \in Procs, Crash(p) PROVE Inv'
  BY <1>4, FinishInv DEF Crash
<1>5. CASE UNCHANGED vars
  <2>1. UNCHANGED <<rows, storage, pc, local>> /\ env' \in BOOLEAN /\ booted' \in BOOLEAN
    BY <1>5 DEF vars, config, Inv, Types
  <2> QED BY <2>1, ConfigInv
<1> QED BY <1>1, <1>2, <1>3, <1>4, <1>5 DEF Next

\* A crash of the script, a wrong write or a second run never leaves a row
\* without its bytes (migrate-documents.ts:6-9), and the row says whether its
\* file needs the key.
THEOREM BytesKept == ASSUME NamesAreNames PROVE Spec => []BytesAreKept
<1>1. Init => Inv
  BY InitInv
<1>2. Inv /\ [Next]_vars => Inv'
  BY NextInv
<1>3. Inv => BytesAreKept
  BY DEF Inv
<1> QED BY <1>1, <1>2, <1>3, PTL DEF Spec

-----------------------------------------------------------------------------
(* The trail of the reviewers' reads: a read that is audited and not yet   *)
(* answered is owed one delivery, and the audited reads cover both.        *)

Replying(d) == {p \in Procs : pc[p] = "reply" /\ doc[p] = d}

TrailTyped ==
  /\ read \in [Procs -> Homes]
  /\ reads \in Nat /\ audited \in [Docs -> Nat] /\ unaudited \in [Docs -> Nat] /\ delivered \in [Docs -> Nat]

ReadersHaveDocs == \A p \in Procs : pc[p] \in {"get", "audit", "reply"} => doc[p] \in Docs

RepliesAreCovered ==
  \A d \in Docs : delivered[d] + Cardinality(Replying(d)) <= audited[d] + unaudited[d]

TrailInv == TrailTyped /\ ReadersHaveDocs /\ RepliesAreCovered

LEMMA TrailInit == ASSUME Init PROVE TrailInv
<1>1. TrailTyped /\ ReadersHaveDocs
  BY DEF Init, TrailTyped, ReadersHaveDocs, Homes
<1>2. ASSUME NEW d \in Docs PROVE Replying(d) = {}
  BY DEF Init, Replying
<1>3. RepliesAreCovered
  <2> SUFFICES ASSUME NEW d \in Docs
               PROVE  delivered[d] + Cardinality(Replying(d)) <= audited[d] + unaudited[d]
    BY DEF RepliesAreCovered
  <2>1. Cardinality(Replying(d)) = 0
    BY <1>2, FS_EmptySet
  <2> QED BY <2>1 DEF Init
<1> QED BY <1>1, <1>3 DEF TrailInv

\* A step outside the reads.
LEMMA TrailKept ==
  ASSUME TrailInv, NEW p \in Procs, pc[p] # "reply", pc'[p] # "reply",
         \A q \in Procs \ {p} : pc'[q] = pc[q] /\ doc'[q] = doc[q],
         pc'[p] \in {"get", "audit"} => doc'[p] \in Docs,
         read' \in [Procs -> Homes], reads' \in Nat, UNCHANGED <<audited, unaudited, delivered>>
  PROVE  TrailInv'
<1>1. TrailTyped' /\ ReadersHaveDocs'
  BY DEF TrailInv, TrailTyped, ReadersHaveDocs
<1>2. ASSUME NEW d \in Docs PROVE Replying(d)' = Replying(d)
  BY DEF Replying
<1>3. RepliesAreCovered'
  BY <1>2 DEF TrailInv, RepliesAreCovered
<1> QED BY <1>1, <1>3 DEF TrailInv

LEMMA FinishTrail ==
  ASSUME Types, TrailInv, NEW p \in Procs, pc[p] # "reply", Finish(p), UNCHANGED trail
  PROVE  TrailInv'
<1>1. pc'[p] = "idle" /\ read' \in [Procs -> Homes] /\ reads' \in Nat
  <2>1. pc'[p] = "idle" /\ read' = [read EXCEPT ![p] = "absent"] /\ reads' = reads
    BY DEF Finish, Goto, Types, trail
  <2> QED BY <2>1 DEF TrailInv, TrailTyped, Homes
<1>2. \A q \in Procs \ {p} : pc'[q] = pc[q] /\ doc'[q] = doc[q]
  BY DEF Finish, Goto, Types
<1> QED BY <1>1, <1>2, TrailKept DEF trail

LEMMA TrailQuiet ==
  ASSUME Types, TrailInv, NEW p \in Procs,
         \/ Migrate(p) \/ Put(p) \/ Insert(p) \/ MoveNext(p) \/ ReadBack(p) \/ Move(p)
         \/ \E d \in Docs : Upload(p, d)
  PROVE  TrailInv'
<1>0. pc[p] \notin {"get", "audit", "reply"} /\ UNCHANGED trail
  BY DEF Migrate, Put, Insert, MoveNext, ReadBack, Move, Upload, At
<1>1. CASE Finish(p)
  BY <1>0, <1>1, FinishTrail
<1>2. ASSUME NEW next \in {"write", "insert", "next", "readBack", "move"}, Goto(p, next), UNCHANGED read,
             \A q \in Procs \ {p} : doc'[q] = doc[q]
      PROVE  TrailInv'
  <2>1. pc'[p] = next /\ \A q \in Procs \ {p} : pc'[q] = pc[q]
    BY <1>2 DEF Goto, Types
  <2>2. read' \in [Procs -> Homes] /\ reads' \in Nat
    BY <1>0, <1>2 DEF TrailInv, TrailTyped, trail
  <2> QED BY <1>0, <1>2, <2>1, <2>2, TrailKept DEF trail
<1>3. ASSUME NEW d \in Docs, NewFile(p, d), UNCHANGED read PROVE TrailInv'
  <2>1. Goto(p, "write") /\ doc' = [doc EXCEPT ![p] = d]
    BY <1>3 DEF NewFile
  <2>2. \A q \in Procs \ {p} : doc'[q] = doc[q]
    BY <2>1 DEF Types
  <2> QED BY <1>2, <1>3, <2>1, <2>2
<1>4. CASE Migrate(p)
  BY <1>2, <1>4 DEF Migrate
<1>5. CASE Put(p)
  BY <1>2, <1>5 DEF Put, local
<1>6. CASE MoveNext(p)
  <2>1. Finish(p) \/ \E d \in todo[p] : NewFile(p, d) /\ UNCHANGED read
    BY <1>6 DEF MoveNext
  <2>2. todo[p] \subseteq Docs
    BY DEF Types
  <2> QED BY <1>1, <1>3, <2>1, <2>2
<1>7. CASE ReadBack(p)
  BY <1>1, <1>2, <1>7 DEF ReadBack, local
<1>8. CASE Move(p)
  <2>1. Goto(p, "next") /\ UNCHANGED read /\ doc' = [doc EXCEPT ![p] = None]
    BY <1>8 DEF Move
  <2>2. \A q \in Procs \ {p} : doc'[q] = doc[q]
    BY <2>1 DEF Types
  <2> QED BY <1>2, <2>1, <2>2
<1>9. ASSUME NEW d \in Docs, Upload(p, d) PROVE TrailInv'
  BY <1>3, <1>9 DEF Upload
<1>10. CASE Insert(p)
  BY <1>1, <1>10 DEF Insert
<1> QED BY <1>4, <1>5, <1>6, <1>7, <1>8, <1>9, <1>10

\* A download begins with what the row says and has the document until it ends.
LEMMA DownloadTrail ==
  ASSUME Types, TrailInv, NEW p \in Procs, (\E d \in Docs : Download(p, d)) \/ Get(p)
  PROVE  TrailInv'
<1>1. ASSUME NEW d \in Docs, Download(p, d) PROVE TrailInv'
  <2>1. PICK next \in {"audit", "get"} : Goto(p, next)
    BY <1>1 DEF Download
  <2>2. /\ pc[p] = "idle" /\ reads' = reads + 1 /\ doc' = [doc EXCEPT ![p] = d]
        /\ read' = [read EXCEPT ![p] = home[d]] /\ UNCHANGED <<audited, unaudited, delivered>>
    BY <1>1 DEF Download, At
  <2>3. /\ pc'[p] = next /\ doc'[p] = d
        /\ \A q \in Procs \ {p} : pc'[q] = pc[q] /\ doc'[q] = doc[q]
    BY <2>1, <2>2 DEF Goto, Types
  <2>4. read' \in [Procs -> Homes] /\ reads' \in Nat
    BY <2>2 DEF Types, TrailInv, TrailTyped
  <2> QED BY <2>2, <2>3, <2>4, TrailKept
<1>2. CASE Get(p)
  <2>1. pc[p] = "get" /\ UNCHANGED trail /\ (Finish(p) \/ (Goto(p, "audit") /\ UNCHANGED local))
    BY <1>2 DEF Get, At
  <2>2. CASE Finish(p)
    BY <2>1, <2>2, FinishTrail
  <2>3. CASE Goto(p, "audit") /\ UNCHANGED local
    <3>1. pc'[p] = "audit" /\ doc' = doc /\ \A q \in Procs \ {p} : pc'[q] = pc[q]
      BY <2>3 DEF Goto, Types, local
    <3>2. doc[p] \in Docs
      BY <2>1 DEF TrailInv, ReadersHaveDocs
    <3>3. read' \in [Procs -> Homes] /\ reads' \in Nat
      BY <2>1, <2>3 DEF TrailInv, TrailTyped, trail, local
    <3> QED BY <2>1, <3>1, <3>2, <3>3, TrailKept DEF trail
  <2> QED BY <2>1, <2>2, <2>3
<1> QED BY <1>1, <1>2

\* The answers that a document is owed, before and after one of them moved.
LEMMA ReplyingCount ==
  ASSUME IsFiniteSet(Procs), NEW p \in Procs, NEW d \in Docs,
         \A q \in Procs \ {p} : pc'[q] = pc[q] /\ doc'[q] = doc[q]
  PROVE  /\ Cardinality(Replying(d)) \in Nat /\ Cardinality(Replying(d)') \in Nat
         /\ (p \in Replying(d) <=> p \in Replying(d)') => Replying(d)' = Replying(d)
         /\ (p \notin Replying(d) /\ p \in Replying(d)') =>
              Cardinality(Replying(d)') = Cardinality(Replying(d)) + 1
         /\ (p \in Replying(d) /\ p \notin Replying(d)') =>
              Cardinality(Replying(d)') = Cardinality(Replying(d)) - 1
<1> DEFINE R == Replying(d)
           S == Replying(d)'
<1>1. R \subseteq Procs /\ S \subseteq Procs
  BY DEF Replying
<1>2. \A q \in Procs \ {p} : q \in S <=> q \in R
  BY DEF Replying
<1> HIDE DEF R, S
<1>3. IsFiniteSet(R) /\ IsFiniteSet(S)
  BY <1>1, FS_Subset
<1>4. (p \notin R /\ p \in S) => S = R \cup {p}
  BY <1>1, <1>2
<1>5. (p \in R /\ p \notin S) => S = R \ {p}
  BY <1>1, <1>2
<1>6. (p \in R <=> p \in S) => S = R
  BY <1>1, <1>2
<1>7. /\ Cardinality(R) \in Nat /\ Cardinality(S) \in Nat
      /\ (p \in R <=> p \in S) => S = R
      /\ (p \notin R /\ p \in S) => Cardinality(S) = Cardinality(R) + 1
      /\ (p \in R /\ p \notin S) => Cardinality(S) = Cardinality(R) - 1
  BY <1>3, <1>4, <1>5, <1>6, FS_AddElement, FS_RemoveElement, FS_CardinalityType
<1> QED BY <1>7 DEF R, S

LEMMA AuditTrail ==
  ASSUME IsFiniteSet(Procs), Types, TrailInv, NEW p \in Procs, Audit(p)
  PROVE  TrailInv'
<1>1. pc[p] = "audit" /\ Goto(p, "reply") /\ UNCHANGED <<doc, read, reads, delivered>>
  BY DEF Audit, At, local
<1>2. PICK e \in Docs : e = doc[p]
  BY <1>1 DEF TrailInv, ReadersHaveDocs
<1>3. /\ pc'[p] = "reply" /\ \A q \in Procs \ {p} : pc'[q] = pc[q] /\ doc'[q] = doc[q]
  BY <1>1 DEF Goto, Types
<1>4. /\ audited \in [Docs -> Nat] /\ unaudited \in [Docs -> Nat] /\ delivered \in [Docs -> Nat]
  BY DEF TrailInv, TrailTyped
<1>5. \/ audited' = [audited EXCEPT ![e] = @ + 1] /\ unaudited' = unaudited
      \/ unaudited' = [unaudited EXCEPT ![e] = @ + 1] /\ audited' = audited
  BY <1>2 DEF Audit
<1>6. /\ audited' \in [Docs -> Nat] /\ unaudited' \in [Docs -> Nat]
      /\ audited'[e] + unaudited'[e] = audited[e] + unaudited[e] + 1
      /\ \A d \in Docs \ {e} : audited'[d] = audited[d] /\ unaudited'[d] = unaudited[d]
  BY <1>4, <1>5
<1>7. TrailTyped' /\ ReadersHaveDocs'
  BY <1>1, <1>2, <1>3, <1>6 DEF TrailInv, TrailTyped, ReadersHaveDocs
<1>8. RepliesAreCovered'
  <2> SUFFICES ASSUME NEW d \in Docs
               PROVE  delivered[d] + Cardinality(Replying(d)') <= audited'[d] + unaudited'[d]
    BY <1>1 DEF RepliesAreCovered
  <2>1. delivered[d] + Cardinality(Replying(d)) <= audited[d] + unaudited[d]
    BY DEF TrailInv, RepliesAreCovered
  <2>2. p \notin Replying(d) /\ (p \in Replying(d)' <=> d = e)
    BY <1>1, <1>2, <1>3 DEF Replying
  <2>3. /\ Cardinality(Replying(d)) \in Nat /\ Cardinality(Replying(d)') \in Nat
        /\ d # e => Cardinality(Replying(d)') = Cardinality(Replying(d))
        /\ d = e => Cardinality(Replying(d)') = Cardinality(Replying(d)) + 1
    BY <1>3, <2>2, ReplyingCount
  <2> QED BY <1>4, <1>6, <2>1, <2>3
<1> QED BY <1>7, <1>8 DEF TrailInv

\* An answer leaves, or its process dies.
LEMMA ReplyTrail ==
  ASSUME IsFiniteSet(Procs), Types, TrailInv, NEW p \in Procs, Reply(p) \/ Crash(p)
  PROVE  TrailInv'
<1>1. /\ Finish(p) /\ UNCHANGED <<reads, audited, unaudited>>
      /\ Crash(p) => delivered' = delivered
      /\ Reply(p) => pc[p] = "reply" /\ delivered' = [delivered EXCEPT ![doc[p]] = @ + 1]
  BY DEF Reply, Crash, At, trail
<1>2. CASE pc[p] # "reply"
  BY <1>1, <1>2, FinishTrail DEF trail
<1>3. CASE pc[p] = "reply"
  <2>1. PICK e \in Docs : e = doc[p]
    BY <1>3 DEF TrailInv, ReadersHaveDocs
  <2>2. /\ pc'[p] = "idle" /\ \A q \in Procs \ {p} : pc'[q] = pc[q] /\ doc'[q] = doc[q]
    BY <1>1 DEF Finish, Goto, Types
  <2>3. /\ audited \in [Docs -> Nat] /\ unaudited \in [Docs -> Nat] /\ delivered \in [Docs -> Nat]
    BY DEF TrailInv, TrailTyped
  <2>4. delivered' = delivered \/ delivered' = [delivered EXCEPT ![e] = @ + 1]
    BY <1>1, <2>1
  <2>5. /\ delivered' \in [Docs -> Nat] /\ delivered'[e] <= delivered[e] + 1
        /\ \A d \in Docs \ {e} : delivered'[d] = delivered[d]
    BY <2>3, <2>4
  <2>6. read' \in [Procs -> Homes]
    BY <1>1 DEF Finish, TrailInv, TrailTyped, Homes
  <2>7. TrailTyped' /\ ReadersHaveDocs'
    BY <1>1, <2>2, <2>5, <2>6 DEF TrailInv, TrailTyped, ReadersHaveDocs
  <2>8. RepliesAreCovered'
    <3> SUFFICES ASSUME NEW d \in Docs
                 PROVE  delivered'[d] + Cardinality(Replying(d)') <= audited[d] + unaudited[d]
      BY <1>1 DEF RepliesAreCovered
    <3>1. delivered[d] + Cardinality(Replying(d)) <= audited[d] + unaudited[d]
      BY DEF TrailInv, RepliesAreCovered
    <3>2. p \notin Replying(d)' /\ (p \in Replying(d) <=> d = e)
      BY <1>3, <2>1, <2>2 DEF Replying
    <3>3. /\ Cardinality(Replying(d)) \in Nat /\ Cardinality(Replying(d)') \in Nat
          /\ d # e => Cardinality(Replying(d)') = Cardinality(Replying(d))
          /\ d = e => Cardinality(Replying(d)') = Cardinality(Replying(d)) - 1
      BY <2>2, <3>2, ReplyingCount
    <3> QED BY <2>3, <2>5, <3>1, <3>3
  <2> QED BY <2>7, <2>8 DEF TrailInv
<1> QED BY <1>2, <1>3

LEMMA TrailNext == ASSUME IsFiniteSet(Procs), Types, TrailInv, [Next]_vars PROVE TrailInv'
<1>1. ASSUME NEW p \in Procs, Call(p) PROVE TrailInv'
  BY <1>1, TrailQuiet, DownloadTrail DEF Call
<1>2. ASSUME NEW p \in Procs, Advance(p) PROVE TrailInv'
  BY <1>2, TrailQuiet, DownloadTrail, AuditTrail, ReplyTrail DEF Advance
<1>3. ASSUME NEW p \in Procs, Crash(p) PROVE TrailInv'
  BY <1>3, ReplyTrail
<1>4. CASE UNCHANGED <<pc, local, trail>>
  <2>1. UNCHANGED <<pc, doc, read, reads, audited, unaudited, delivered>>
    BY <1>4 DEF local, trail
  <2>2. ASSUME NEW d \in Docs PROVE Replying(d)' = Replying(d)
    BY <2>1 DEF Replying
  <2> QED BY <2>1, <2>2 DEF TrailInv, TrailTyped, ReadersHaveDocs, RepliesAreCovered
<1>5. CASE SetKey \/ Boot \/ UNCHANGED vars
  BY <1>4, <1>5 DEF SetKey, Boot, vars
<1> QED BY <1>1, <1>2, <1>3, <1>5 DEF Next

LEMMA TrailAlways == ASSUME NamesAreNames, IsFiniteSet(Procs) PROVE Spec => [](Inv /\ TrailInv)
<1>1. Init => Inv /\ TrailInv
  BY InitInv, TrailInit
<1>2. Inv /\ TrailInv /\ [Next]_vars => (Inv /\ TrailInv)'
  <2>1. Inv => Types
    BY DEF Inv
  <2> QED BY <2>1, NextInv, TrailNext
<1> QED BY <1>1, <1>2, PTL DEF Spec

\* Every variable has its type, with any number of requests and runs.
THEOREM DocumentsTyped == ASSUME NamesAreNames, IsFiniteSet(Procs) PROVE Spec => []TypeOK
<1>1. Inv /\ TrailInv => TypeOK
  BY DEF Inv, Types, TrailInv, TrailTyped, TypeOK
<1> QED BY <1>1, TrailAlways, PTL

\* No document is lost between the row and the disk, and a reviewer has no
\* bytes without the audit row of that read, or the error that stands for it
\* (documents.service.ts:5-8).
THEOREM DocumentsHold == ASSUME NamesAreNames, IsFiniteSet(Procs) PROVE Spec => []DocumentsAreKept
<1>1. Inv /\ TrailInv => BytesAreKept
  BY DEF Inv
<1>2. Inv /\ TrailInv => ReadIsAudited
  <2> SUFFICES ASSUME Inv, TrailInv, NEW d \in Docs PROVE delivered[d] <= audited[d] + unaudited[d]
    BY DEF ReadIsAudited
  <2>1. Cardinality(Replying(d)) \in Nat
    <3>1. Replying(d) \subseteq Procs
      BY DEF Replying
    <3> QED BY <3>1, FS_Subset, FS_CardinalityType
  <2> QED BY <2>1 DEF TrailInv, TrailTyped, RepliesAreCovered
<1> QED BY <1>1, <1>2, TrailAlways, PTL DEF DocumentsAreKept
=============================================================================
