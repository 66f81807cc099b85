----------------------------- MODULE RoomFiles ------------------------------
(***************************************************************************)
(* The room's stored files: files.service.ts and files.purge.ts over the   *)
(* rows of FileMeta, the object storage, and useRoomFiles.ts in each tab.  *)
(*                                                                         *)
(* Encrypting and what a file contains are left out: a file is its id. The *)
(* storage accepts only an object of the declared size.                    *)
(***************************************************************************)
EXTENDS RoomKeys, FiniteSetsExt

CONSTANTS
  Files,
  UploaderOf,   \* the tab a file is shared from
  Hosts,        \* people who may delete the files of others
  Purgers,      \* passes of the purge that may be going on at once
  Batch         \* BATCH

ASSUME FilesAssumption ==
  /\ UploaderOf \in [Files -> Tabs] /\ Hosts \subseteq People /\ Batch \in Nat \ {0}
  /\ \A s \in Scripts : s.stored \subseteq Files

VARIABLES
  file,      \* the row of FileMeta, upload in the browser, and completeFile
  objects,   \* files whose object is in the bucket
  flying,    \* files whose bytes are on their way there
  deletes,   \* deleteFile requests: <<file, tab, whether the user asked, step>>
  purge,     \* startFilePurge and purgeFiles: the passes
  locked,    \* whether jobs:file-purge is in Redis
  panel,     \* useRoomFiles, by tab
  news,      \* events on their way: <<tab, kind, file>>
  excused,   \* (history) files whose object a request failed to delete, or that
             \* were still being uploaded when it was deleted
  unsure     \* (history) <<tab, file>>: an event came at a bad moment, or not at all

filesVars == <<file, objects, flying, deletes, purge, locked, panel, news, excused, unsure>>

NoFile  == [row |-> "none", old |-> FALSE, expired |-> FALSE, job |-> "none", complete |-> "none"]
NoPurge == [pc |-> "off", list |-> {}, on |-> <<None, FALSE>>]
NoPanel == [shown |-> {}, load |-> "none", got |-> {}, opening |-> {}]

FilesInit ==
  /\ \E s \in Scripts :
       /\ s.ops = todo /\ objects = s.stored
       /\ file = [f \in Files |-> IF f \in s.stored THEN [NoFile EXCEPT !.row = "up", !.job = "over"]
                                 ELSE NoFile]
       /\ panel = [t \in Tabs |-> IF Mounted(t) THEN [NoPanel EXCEPT !.shown = s.stored]
                                 ELSE NoPanel]
  /\ flying = {} /\ deletes = {} /\ locked = FALSE
  /\ purge = [i \in Purgers |-> NoPurge]
  /\ news = {} /\ excused = {} /\ unsure = {}

HasRow(f) == file[f].row \in {"new", "up"}
Shows(t)  == Mounted(t) /\ hook[t].key # 0

\* An event to the room. Tabs that are disconnected miss it; a file may be
\* deleted before it is announced.
Tell(kind, f) ==
  /\ news' = news \union (channel \X {kind} \X {f})
  /\ unsure' = unsure \union ({t \in Tabs : IF t \in channel THEN kind = "shared" /\ ~HasRow(f) ELSE Mounted(t)} \X {f})

CleanUp(f) == deletes' = deletes \union {<<f, UploaderOf[f], FALSE, "find">>}

-----------------------------------------------------------------------------
(* What steps of the tab mean for its files.                               *)

\* Bound: where nobody is ever going to share, no list is loaded.
Sharing == \E f \in Files : file[f] # NoFile \/ <<"share", f>> \in todo

\* Leaving aborts the uploads; what was sent may still arrive. Only a new key
\* loads the list, and ends a load that is going on.
FilesFollow ==
  LET out == {f \in Files : file[f].job = "putting" /\ Mounted(UploaderOf[f])
                                /\ tab'[UploaderOf[f]].page # "in"} IN
  /\ panel' = [t \in Tabs |-> IF tab'[t].page # "in" THEN NoPanel
                 ELSE IF ~NewKey(t) THEN panel[t]
                 ELSE [panel[t] EXCEPT !.load = IF hook'[t].key # 0 /\ Sharing THEN "asked" ELSE "none", !.got = {}]]
  /\ file' = [f \in Files |-> IF f \in out THEN [file[f] EXCEPT !.job = "over"] ELSE file[f]]
  /\ deletes' = deletes \union {<<f, UploaderOf[f], FALSE, "find">> : f \in out}
  /\ news' = {x \in news : x[1] \in channel'}
  /\ unsure' = {x \in unsure \union {<<y[1], y[3]>> : y \in news \ news'} : tab'[x[1]].page = "in" \/ x[1] \in channel'}
  /\ UNCHANGED <<objects, flying, purge, locked, excused>>

-----------------------------------------------------------------------------
(* upload, createFile and the storage.                                     *)

Upload(f) ==
  /\ Shows(UploaderOf[f]) /\ file[f].job = "none"
  /\ Does("share", f)
  /\ file' = [file EXCEPT ![f].job = "creating"]
  /\ UNCHANGED <<objects, flying, deletes, purge, locked, panel, news, excused, unsure>>

\* A cancellation, or leaving, before the bytes are being sent goes unheard.
Create(f) ==
  /\ file[f].job = "creating"
  /\ IF Signed(UploaderOf[f])
     THEN /\ file' = [file EXCEPT ![f] = [@ EXCEPT !.row = "new", !.job = "putting"]]
          /\ flying' = flying \union {f}
     ELSE file' = [file EXCEPT ![f].job = "over"] /\ UNCHANGED flying
  /\ UNCHANGED <<objects, deletes, purge, locked, panel, news, excused, unsure, todo>>

PutLands(f) ==
  /\ f \in flying
  /\ flying' = flying \ {f}
  /\ objects' = objects \union {f}
  /\ file' = IF file[f].job = "putting"
             THEN [file EXCEPT ![f] = [@ EXCEPT !.job = "finishing", !.complete = "find"]] ELSE file
  /\ UNCHANGED <<deletes, purge, locked, panel, news, excused, unsure, todo>>

PutDrops(f) ==
  /\ f \in flying /\ file[f].job = "over"
  /\ flying' = flying \ {f}
  /\ UNCHANGED <<file, objects, deletes, purge, locked, panel, news, excused, unsure, todo>>

\* The upload fails or is cancelled; the half-made file is deleted.
Abort(f) ==
  /\ file[f].job = "putting"
  /\ Does("cancel", f)
  /\ file' = [file EXCEPT ![f].job = "over"]
  /\ CleanUp(f)
  /\ UNCHANGED <<objects, flying, purge, locked, panel, news, excused, unsure>>

\* The answer of completeFile does not come, which counts as a failure.
LoseAnswer(f) ==
  /\ file[f].job = "finishing"
  /\ Does("lose", f)
  /\ file' = [file EXCEPT ![f].job = "over"]
  /\ CleanUp(f)
  /\ UNCHANGED <<objects, flying, purge, locked, panel, news, excused, unsure>>

-----------------------------------------------------------------------------
(* completeFile.                                                           *)

Completing(f, pc, row) == file' = [file EXCEPT ![f] = [@ EXCEPT !.complete = pc, !.row = row]]

CompleteFind(f) ==
  /\ file[f].complete = "find"
  /\ Completing(f, IF ~Signed(UploaderOf[f]) \/ ~HasRow(f) THEN "error" ELSE "size", file[f].row)
  /\ UNCHANGED <<objects, flying, deletes, purge, locked, panel, news, excused, unsure, todo>>

CompleteSize(f) ==
  /\ file[f].complete = "size"
  /\ Completing(f, IF f \in objects THEN "update" ELSE "error", file[f].row)
  /\ UNCHANGED <<objects, flying, deletes, purge, locked, panel, news, excused, unsure, todo>>

CompleteUpdate(f) ==
  /\ file[f].complete = "update"
  /\ IF HasRow(f) THEN Completing(f, "emit", "up") ELSE Completing(f, "error", file[f].row)
  /\ UNCHANGED <<objects, flying, deletes, purge, locked, panel, news, excused, unsure, todo>>

CompleteEmit(f) ==
  /\ file[f].complete = "emit"
  /\ Completing(f, "ok", file[f].row)
  /\ Tell("shared", f)
  /\ UNCHANGED <<objects, flying, deletes, purge, locked, panel, excused, todo>>

CompleteAnswer(f) ==
  LET t == UploaderOf[f]
      waits == file[f].job = "finishing" IN
  /\ file[f].complete \in {"ok", "error"}
  /\ file' = [file EXCEPT ![f] = [@ EXCEPT !.job = "over", !.complete = "none"]]
  /\ IF waits /\ file[f].complete = "ok" /\ Mounted(t)
     THEN /\ panel' = [panel EXCEPT ![t].shown = @ \union {f}]
          /\ unsure' = IF file[f].row = "gone" \/ panel[t].load = "got"
                       THEN unsure \union {<<t, f>>} ELSE unsure
          /\ UNCHANGED deletes
     ELSE /\ IF waits /\ file[f].complete = "error" THEN CleanUp(f) ELSE UNCHANGED deletes
          /\ UNCHANGED <<panel, unsure>>
  /\ UNCHANGED <<objects, flying, purge, locked, news, excused, todo>>

UploadStep(f) ==
  \/ Create(f) \/ PutLands(f) \/ PutDrops(f)
  \/ CompleteFind(f) \/ CompleteSize(f) \/ CompleteUpdate(f) \/ CompleteEmit(f) \/ CompleteAnswer(f)

-----------------------------------------------------------------------------
(* deleteFile.                                                             *)

RemoveFile(t, f) ==
  /\ Shows(t) /\ f \in panel[t].shown
  /\ Does("remove", f)
  /\ deletes' = deletes \union {<<f, t, TRUE, "find">>}
  /\ UNCHANGED <<file, objects, flying, purge, locked, panel, news, excused, unsure>>

Onward(d, pc) == deletes' = (deletes \ {d}) \union {<<d[1], d[2], d[3], pc>>}

\* The storage does not answer: always, or this once.
Falters(f) == \/ <<"stuck", f>> \in todo /\ UNCHANGED todo
              \/ Does("falter", f)
Works(f) == <<"stuck", f>> \notin todo /\ UNCHANGED todo

DeleteFind(d) ==
  /\ d[4] = "find"
  /\ IF /\ Signed(d[2]) /\ HasRow(d[1])
        /\ PersonOf[d[2]] \in Hosts \union {PersonOf[UploaderOf[d[1]]]}
     THEN Onward(d, "object") ELSE deletes' = deletes \ {d}
  /\ UNCHANGED <<file, objects, flying, purge, locked, panel, news, excused, unsure, todo>>

\* What is still on its way arrives in the bucket afterwards.
ObjectGone(f) ==
  /\ objects' = objects \ {f}
  /\ excused' = IF f \in flying THEN excused \union {f} ELSE excused

RowGone(f) == file' = [file EXCEPT ![f].row = "gone"]

\* A failure is logged, and the row is deleted all the same.
DeleteObject(d) ==
  /\ d[4] = "object"
  /\ Onward(d, "row")
  /\ \/ Works(d[1]) /\ ObjectGone(d[1])
     \/ Falters(d[1]) /\ excused' = excused \union {d[1]} /\ UNCHANGED objects
  /\ UNCHANGED <<file, flying, purge, locked, panel, news, unsure>>

DeleteRow(d) ==
  /\ d[4] = "row"
  /\ IF HasRow(d[1]) THEN Onward(d, "emit") /\ RowGone(d[1])
     ELSE deletes' = deletes \ {d} /\ UNCHANGED file
  /\ UNCHANGED <<objects, flying, purge, locked, panel, news, excused, unsure, todo>>

\* Whoever asked for it removes the file from the list.
DeleteEmit(d) ==
  /\ d[4] = "emit"
  /\ deletes' = deletes \ {d}
  /\ Tell("deleted", d[1])
  /\ panel' = IF d[3] /\ panel[d[2]].load # "got"
              THEN [panel EXCEPT ![d[2]].shown = @ \ {d[1]}] ELSE panel
  /\ UNCHANGED <<file, objects, flying, purge, locked, excused, todo>>

DeleteStep(f) ==
  \E d \in deletes : d[1] = f /\ (DeleteFind(d) \/ DeleteObject(d) \/ DeleteRow(d) \/ DeleteEmit(d))

-----------------------------------------------------------------------------
(* startFilePurge and purgeFiles.                                          *)

\* An hour after the file was created, seven days after.
HourPasses(f) ==
  /\ HasRow(f) /\ Does("hour", f)
  /\ file' = [file EXCEPT ![f].old = TRUE]
  /\ UNCHANGED <<objects, flying, deletes, purge, locked, panel, news, excused, unsure>>

WeekPasses(f) ==
  /\ HasRow(f) /\ Does("week", f)
  /\ file' = [file EXCEPT ![f].expired = TRUE]
  /\ UNCHANGED <<objects, flying, deletes, purge, locked, panel, news, excused, unsure>>

Doomed(f) == HasRow(f) /\ (file[f].expired \/ (file[f].row = "new" /\ file[f].old))

PurgeIs(i, how) == purge' = [purge EXCEPT ![i] = how]

\* The timer of a process; one that finds the lock taken does nothing.
PurgeStart(i) ==
  /\ purge[i].pc = "off" /\ ~locked /\ <<"purge", i>> \in todo
  /\ PurgeIs(i, [NoPurge EXCEPT !.pc = "find"])
  /\ locked' = TRUE
  /\ UNCHANGED <<file, objects, flying, deletes, panel, news, excused, unsure, todo>>

\* A batch of them, in no order.
PurgeFind(i) ==
  LET all == {<<f, file[f].row = "up">> : f \in {g \in Files : Doomed(g)}} IN
  /\ purge[i].pc = "find"
  /\ \E list \in kSubset(Min({Batch, Cardinality(all)}), all) :
       PurgeIs(i, [NoPurge EXCEPT !.pc = "next", !.list = list])
  /\ UNCHANGED <<file, objects, flying, deletes, locked, panel, news, excused, unsure, todo>>

\* (Mutants: one failure ends the pass; the row is deleted all the same.)
FailedEnds(x, list) == [NoPurge EXCEPT !.pc = "next"]
FailedDeletes(x, list) == [pc |-> "row", list |-> list, on |-> x]
\* The object could not be deleted: the row is kept for the next time.
Failed(x, list) == [NoPurge EXCEPT !.pc = "next", !.list = list]

PurgeObject(i) ==
  /\ purge[i].pc = "next"
  /\ \E x \in purge[i].list :
       LET rest == purge[i].list \ {x} IN
       \/ Works(x[1]) /\ ObjectGone(x[1]) /\ PurgeIs(i, [pc |-> "row", list |-> rest, on |-> x])
       \/ Falters(x[1]) /\ PurgeIs(i, Failed(x, rest)) /\ UNCHANGED <<objects, excused>>
  /\ UNCHANGED <<file, flying, deletes, locked, panel, news, unsure>>

\* Somebody else deleted the row: the pass ends. A file that was not complete
\* when the pass began goes unannounced.
PurgeRow(i) ==
  LET f == purge[i].on[1] IN
  /\ purge[i].pc = "row"
  /\ IF HasRow(f)
     THEN /\ RowGone(f)
          /\ PurgeIs(i, [purge[i] EXCEPT !.pc = IF purge[i].on[2] THEN "emit" ELSE "next"])
          /\ unsure' = IF file[f].row = "up" /\ ~purge[i].on[2] THEN unsure \union (Tabs \X {f}) ELSE unsure
     ELSE PurgeIs(i, [NoPurge EXCEPT !.pc = "next"]) /\ UNCHANGED <<file, unsure>>
  /\ UNCHANGED <<objects, flying, deletes, locked, panel, news, excused, todo>>

PurgeEmit(i) ==
  /\ purge[i].pc = "emit"
  /\ Tell("deleted", purge[i].on[1])
  /\ PurgeIs(i, [purge[i] EXCEPT !.pc = "next"])
  /\ UNCHANGED <<file, objects, flying, deletes, locked, panel, excused, todo>>

\* The lock is deleted, whoever holds it by now.
PurgeEnd(i) ==
  /\ purge[i].pc = "next" /\ purge[i].list = {}
  /\ PurgeIs(i, NoPurge)
  /\ locked' = FALSE
  /\ UNCHANGED <<file, objects, flying, deletes, panel, news, excused, unsure, todo>>

PurgeStep(i) ==
  PurgeStart(i) \/ PurgeFind(i) \/ PurgeObject(i) \/ PurgeRow(i) \/ PurgeEmit(i) \/ PurgeEnd(i)

\* The process dies.
PurgeDies(i) ==
  /\ purge[i].pc # "off" /\ Does("die", i)
  /\ PurgeIs(i, NoPurge)
  /\ UNCHANGED <<file, objects, flying, deletes, locked, panel, news, excused, unsure>>

\* LOCK_SECONDS: nobody is left to delete the lock, or a pass takes long.
LockExpires ==
  /\ locked /\ locked' = FALSE
  /\ \/ (\A i \in Purgers : purge[i].pc = "off") /\ UNCHANGED todo
     \/ Does("slow", None)
  /\ UNCHANGED <<file, objects, flying, deletes, purge, panel, news, excused, unsure>>

-----------------------------------------------------------------------------
(* useRoomFiles: the list, kept live.                                      *)

\* (Mutant: files still being uploaded are listed.)
ListedAll == {f \in Files : HasRow(f) /\ ~file[f].expired}
\* listFiles.
Listed == {f \in Files : file[f].row = "up" /\ ~file[f].expired}

ListRead(t) ==
  /\ panel[t].load = "asked"
  /\ panel' = [panel EXCEPT ![t] = IF Signed(t) THEN [@ EXCEPT !.load = "got", !.got = Listed]
                                   ELSE [@ EXCEPT !.load = "none"]]
  /\ UNCHANGED <<file, objects, flying, deletes, purge, locked, news, excused, unsure, todo>>

\* What was read replaces what was heard meanwhile.
ListDone(t) ==
  /\ panel[t].load = "got"
  /\ panel' = [panel EXCEPT ![t] = [@ EXCEPT !.load = "none", !.shown = panel[t].got, !.got = {}]]
  /\ UNCHANGED <<file, objects, flying, deletes, purge, locked, news, excused, unsure, todo>>

\* file:shared and file:deleted. A shared file shows once its name is decrypted,
\* and then even if it has been deleted meanwhile.
HearFile(t) ==
  \E kind \in {"shared", "deleted"}, f \in Files :
    /\ <<t, kind, f>> \in news /\ (kind = "deleted" => <<t, "shared", f>> \notin news)
    /\ news' = news \ {<<t, kind, f>>}
    /\ panel' = IF ~Shows(t) THEN panel
                ELSE IF kind = "shared" THEN [panel EXCEPT ![t].opening = @ \union {f}]
                ELSE [panel EXCEPT ![t].shown = @ \ {f}]
    /\ unsure' = IF panel[t].load = "got" \/ f \in panel[t].opening
                 THEN unsure \union {<<t, f>>} ELSE unsure
    /\ UNCHANGED <<file, objects, flying, deletes, purge, locked, excused, todo>>

Opened(t) ==
  \E f \in panel[t].opening :
    /\ panel' = [panel EXCEPT ![t].opening = @ \ {f}, ![t].shown = @ \union {f}]
    /\ unsure' = IF panel[t].load = "got" THEN unsure \union {<<t, f>>} ELSE unsure
    /\ UNCHANGED <<file, objects, flying, deletes, purge, locked, news, excused, todo>>

PanelStep(t) == ListRead(t) \/ ListDone(t) \/ HearFile(t) \/ Opened(t)

-----------------------------------------------------------------------------
FilesNext ==
  \/ \E f \in Files : \/ Upload(f) \/ Abort(f) \/ LoseAnswer(f) \/ UploadStep(f) \/ DeleteStep(f)
                      \/ HourPasses(f) \/ WeekPasses(f)
                      \/ \E t \in Tabs : RemoveFile(t, f)
  \/ \E i \in Purgers : PurgeStep(i) \/ PurgeDies(i)
  \/ \E t \in Tabs : PanelStep(t)
  \/ LockExpires

-----------------------------------------------------------------------------
\* "An object without a row is unreachable storage that nothing would ever clean
\* up" (files.purge.ts): there is one only if its deletion failed in a request,
\* or if its upload went on while it was deleted; never because of the purge,
\* and never because two deletions, or a deletion and the end of the upload,
\* met.
OrphansExplained ==
  \A f \in objects : HasRow(f) \/ f \in excused

\* A file that is to go goes in the end (or is completed after all), although the
\* storage never answers for another, passes are cut short and their lock is
\* lost: fewer files than a batch that cannot be deleted do not stop the purge.
PurgeGetsPast ==
  \A f \in Files :
    (Doomed(f) /\ <<"stuck", f>> \notin todo /\ \E i \in Purgers : <<"purge", i>> \in todo)
      ~> ~Doomed(f)

\* In the call, with the key, with nothing about the file on its way.
FilesRest(t, f) ==
  /\ Shows(t) /\ Signed(t) /\ t \in channel /\ tab[t].join = "none"
  /\ panel[t].load = "none" /\ f \notin panel[t].opening
  /\ ~ \E x \in news : x[1] = t /\ x[3] = f
  /\ file[f].complete # "emit" /\ ~ \E d \in deletes : d[1] = f /\ d[4] = "emit"

\* The list is kept live: outside the moments `unsure' names, a tab shows exactly
\* the files that are there, through uploads, deletions and the purge.
ListTrue ==
  \A t \in Tabs, f \in Files :
    FilesRest(t, f) /\ <<t, f>> \notin unsure /\ ~file[f].expired
      => (f \in panel[t].shown <=> file[f].row = "up")

=============================================================================
