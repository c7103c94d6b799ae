------------------------------ MODULE LogTailer ------------------------------
(***************************************************************************)
(* LogTailer.run of python/watcher.py: the thread that follows Game.log,   *)
(* against the game that writes, replaces, removes and truncates it.       *)
(*                                                                         *)
(* A content is a generation number and a length in cells.  A line is two  *)
(* cells, the second of which ends with the newline, so that a read can    *)
(* fall in the middle of a line.  A file is an inode; its number is that   *)
(* of the generation it was created with and is not used again while the   *)
(* watcher runs.  Renaming a new file over the path, or removing the path, *)
(* leaves an open handle on the old inode.                                 *)
(*                                                                         *)
(* WatcherState is a function of the lines it was given since its last     *)
(* reset; `applied` is those lines, cell by cell.  Broadcasting is the     *)
(* business of LiveFeed.                                                   *)
(***************************************************************************)
EXTENDS Integers, Sequences

CONSTANTS
  MaxGen,   \* bound: contents the game ever writes
  MaxSize,  \* bound: cells of a content
  Moves,    \* what the game may do besides appending
  None

ASSUME MaxGenAssumption == MaxGen \in Nat \ {0}
ASSUME MaxSizeAssumption == MaxSize \in Nat
ASSUME MovesAssumption == Moves \subseteq {"replace", "remove", "truncate"}
ASSUME NoneIsNoInode == None \notin 1..MaxGen
                        /\ None \notin [ino : 1..MaxGen, pos : 0..MaxSize]

VARIABLES
  path,        \* the inode Game.log names, or None
  files,       \* inode -> its content: generation and size
  gens,        \* generations used so far
  pc,          \* "loop", "open", "read" or "done"
  st,          \* the last stat: inode and size
  fh,          \* the open handle: inode and position, or None
  last_inode, last_size, buffer, first_open,
  applied,     \* the cells of the lines processed since the last state.reset
  from,        \* where reading of the current handle began (history)
  gap,         \* a handle was given up, its file missing, since the last reset (history)
  outrun,      \* a read of this handle brought other than its stat had seen (history)
  stopping     \* the _stop event

gameVars == <<path, files, gens>>
tailVars == <<pc, st, fh, last_inode, last_size, buffer, first_open, applied, from, gap,
              outrun>>
vars == <<path, files, gens, pc, st, fh, last_inode, last_size, buffer,
          first_open, applied, from, gap, outrun, stopping>>

Inode == 1..MaxGen
Cell == [gen : Inode, at : 1..MaxSize]

-----------------------------------------------------------------------------
Init ==
  /\ path \in {None, 1}
  /\ \E n \in 0..MaxSize :
        files = [i \in Inode |-> [gen |-> i, size |-> IF i = 1 /\ path = 1 THEN n ELSE 0]]
  /\ gens = IF path = None THEN 0 ELSE 1
  /\ pc = "loop"
  /\ st = [ino |-> 1, size |-> 0]
  /\ fh = None
  /\ last_inode = None
  /\ last_size = 0
  /\ buffer = <<>>
  /\ first_open = TRUE
  /\ applied = <<>>
  /\ from = 0
  /\ gap = FALSE
  /\ outrun = FALSE
  /\ stopping = FALSE

-----------------------------------------------------------------------------
(* The game (external).                                                    *)

GameAppends ==
  /\ path # None
  /\ files[path].size < MaxSize
  /\ files' = [files EXCEPT ![path].size = @ + 1]
  /\ UNCHANGED <<path, gens, tailVars, stopping>>

(* A new, empty file takes the name, with or without the old one having    *)
(* been there until then.                                                  *)
GameCreates ==
  /\ path # None => "replace" \in Moves
  /\ gens < MaxGen
  /\ gens' = gens + 1
  /\ path' = gens + 1
  /\ UNCHANGED <<files, tailVars, stopping>>

GameRemoves ==
  /\ "remove" \in Moves
  /\ path # None
  /\ path' = None
  /\ UNCHANGED <<files, gens, tailVars, stopping>>

GameTruncates ==
  /\ "truncate" \in Moves
  /\ path # None
  /\ gens < MaxGen
  /\ gens' = gens + 1
  /\ files' = [files EXCEPT ![path] = [gen |-> gens + 1, size |-> 0]]
  /\ UNCHANGED <<path, tailVars, stopping>>

Game == GameAppends \/ GameCreates \/ GameRemoves \/ GameTruncates

-----------------------------------------------------------------------------
(* The tailer.  Its waits are the time between two of its steps.           *)

(* stat raises FileNotFoundError: the handle is given up, the state kept.  *)
StatMissing ==
  /\ pc = "loop" /\ ~stopping
  /\ path = None
  /\ fh' = None
  /\ IF fh # None THEN last_inode' = None /\ buffer' = <<>> /\ gap' = TRUE
                  ELSE UNCHANGED <<last_inode, buffer, gap>>
  /\ UNCHANGED <<gameVars, pc, st, last_size, first_open, applied, from, outrun, stopping>>

(* Seeded faults, as in WatcherState, are named <definition>_<change>.      *)
Rotated_BySize == fh = None \/ files[path].size < last_size

Rotated_ByInode == fh = None \/ (last_inode # None /\ path # last_inode)

Rotated ==
  \/ fh = None
  \/ last_inode # None /\ path # last_inode
  \/ files[path].size < last_size

StatAnswers_KeepsState ==
  /\ pc = "loop" /\ ~stopping
  /\ path # None
  /\ st' = [ino |-> path, size |-> files[path].size]
  /\ IF Rotated THEN pc' = "open" /\ fh' = None
                ELSE pc' = "read" /\ UNCHANGED fh
  /\ UNCHANGED <<gameVars, last_inode, last_size, buffer, first_open, applied,
                 from, gap, outrun, stopping>>

(* stat answers: a rotation seen through an open handle resets the state.  *)
StatAnswers ==
  /\ pc = "loop" /\ ~stopping
  /\ path # None
  /\ st' = [ino |-> path, size |-> files[path].size]
  /\ IF Rotated
     THEN /\ pc' = "open"
          /\ fh' = None
          /\ IF fh # None THEN applied' = <<>> /\ gap' = FALSE
                          ELSE UNCHANGED <<applied, gap>>
     ELSE pc' = "read" /\ UNCHANGED <<fh, applied, gap>>
  /\ UNCHANGED <<gameVars, last_inode, last_size, buffer, first_open, from, outrun, stopping>>

OpenSucceeds_KeepsBuffer ==
  LET start == IF first_open THEN files[path].size ELSE 0
  IN  /\ pc = "open"
      /\ path # None
      /\ fh' = [ino |-> path, pos |-> start]
      /\ last_inode' = st.ino
      /\ last_size' = start
      /\ first_open' = FALSE
      /\ from' = start
      /\ outrun' = FALSE
      /\ pc' = "read"
      /\ UNCHANGED <<gameVars, st, buffer, applied, gap, stopping>>

(* open: at the end of the file the first time, at its start afterwards.   *)
(* The inode remembered is the one stat saw, the file is what the path     *)
(* names now.                                                              *)
OpenSucceeds ==
  LET start == IF first_open THEN files[path].size ELSE 0
  IN  /\ pc = "open"
      /\ path # None
      /\ fh' = [ino |-> path, pos |-> start]
      /\ last_inode' = st.ino
      /\ last_size' = start
      /\ buffer' = <<>>
      /\ first_open' = FALSE
      /\ from' = start
      /\ outrun' = FALSE
      /\ pc' = "read"
      /\ UNCHANGED <<gameVars, st, applied, gap, stopping>>

OpenFails_TriesAgain == pc = "open" /\ UNCHANGED vars

(* open raises OSError: the file is gone, or busy.                         *)
OpenFails ==
  /\ pc = "open"
  /\ pc' = "loop"
  /\ UNCHANGED <<gameVars, st, fh, last_inode, last_size, buffer, first_open,
                 applied, from, gap, outrun, stopping>>

EndsLine(cell) == cell.at % 2 = 0

(* rfind of the newline: how many cells of b form whole lines.             *)
LastNewline(b) ==
  CHOOSE n \in 0..Len(b) : /\ n = 0 \/ EndsLine(b[n])
                           /\ \A m \in (n + 1)..Len(b) : ~EndsLine(b[m])

(* What read returns: everything beyond the position.                      *)
Chunk(h) ==
  LET f == files[h.ino]
  IN  [k \in 1..(IF f.size > h.pos THEN f.size - h.pos ELSE 0) |->
         [gen |-> f.gen, at |-> h.pos + k]]

ReadSome_CountsTwice ==
  LET all == buffer \o Chunk(fh)
      nl == LastNewline(all)
  IN  /\ pc = "read"
      /\ Chunk(fh) # <<>>
      /\ fh' = [fh EXCEPT !.pos = files[fh.ino].size]
      /\ applied' = applied \o SubSeq(all, 1, nl)
      /\ buffer' = SubSeq(all, nl + 1, Len(all))
      /\ last_size' = st.size + Len(all)
      /\ outrun' = (outrun \/ st.size # files[fh.ino].size)
      /\ pc' = "loop"
      /\ UNCHANGED <<gameVars, st, last_inode, first_open, from, gap, stopping>>

(* The lines the buffer now completes are processed, the rest is kept; the *)
(* size remembered is that of the stat before the read.                    *)
ReadSome ==
  LET all == buffer \o Chunk(fh)
      nl == LastNewline(all)
  IN  /\ pc = "read"
      /\ Chunk(fh) # <<>>
      /\ fh' = [fh EXCEPT !.pos = files[fh.ino].size]
      /\ applied' = applied \o SubSeq(all, 1, nl)
      /\ buffer' = SubSeq(all, nl + 1, Len(all))
      /\ last_size' = st.size
      /\ outrun' = (outrun \/ st.size # files[fh.ino].size)
      /\ pc' = "loop"
      /\ UNCHANGED <<gameVars, st, last_inode, first_open, from, gap, stopping>>

(* Nothing new, or an OSError: wait and try again.                         *)
ReadNothing ==
  /\ pc = "read"
  /\ pc' = "loop"
  /\ UNCHANGED <<gameVars, st, fh, last_inode, last_size, buffer, first_open,
                 applied, from, gap, outrun, stopping>>

(* The loop ends and the file is closed.                                   *)
Exit ==
  /\ pc = "loop" /\ stopping
  /\ pc' = "done"
  /\ fh' = None
  /\ UNCHANGED <<gameVars, st, last_inode, last_size, buffer, first_open,
                 applied, from, gap, outrun, stopping>>

Tailer == \/ StatMissing \/ StatAnswers \/ OpenSucceeds \/ OpenFails
          \/ ReadSome \/ ReadNothing \/ Exit

(* LogTailer.stop, called by another thread.                               *)
Stop == stopping' = TRUE /\ UNCHANGED <<gameVars, tailVars>>

Next == Game \/ Tailer \/ Stop

Spec == Init /\ [][Next]_vars

(* The thread runs, and neither open nor read fails for ever: of the       *)
(* attempts it keeps making, some succeed.                                 *)
Fairness == WF_vars(Tailer) /\ SF_vars(OpenSucceeds) /\ SF_vars(ReadSome)

FairSpec == Spec /\ Fairness

-----------------------------------------------------------------------------
TypeOK ==
  /\ path \in Inode \cup {None}
  /\ files \in [Inode -> [gen : Inode, size : 0..MaxSize]]
  /\ gens \in 0..MaxGen
  /\ pc \in {"loop", "open", "read", "done"}
  /\ st \in [ino : Inode, size : 0..MaxSize]
  /\ fh \in [ino : Inode, pos : 0..MaxSize] \cup {None}
  /\ last_inode \in Inode \cup {None}
  /\ last_size \in 0..MaxSize
  /\ buffer \in Seq(Cell)
  /\ first_open \in BOOLEAN
  /\ applied \in Seq(Cell)
  /\ from \in 0..MaxSize
  /\ gap \in BOOLEAN
  /\ outrun \in BOOLEAN
  /\ stopping \in BOOLEAN

(* No content was written over another in the same file.                   *)
NeverTruncated == \A i \in Inode : files[i].gen = i

(* What the state was built from, then what the buffer still holds.        *)
Consumed == applied \o buffer

(* While the log is appended to, replaced or removed, what was read        *)
(* through the open handle is exactly the bytes of its file from where     *)
(* reading began to where it stands, nothing missed or repeated, however   *)
(* the game's moves fall between stat, open and read; and unless the file  *)
(* was seen missing the state holds nothing else (watcher.py:77-146).      *)
ConsumedExactly ==
  fh # None /\ NeverTruncated =>
    LET read == [k \in 1..(fh.pos - from) |->
                   [gen |-> files[fh.ino].gen, at |-> from + k]]
    IN  \E n \in 0..Len(Consumed) :
          /\ n = 0 \/ gap
          /\ SubSeq(Consumed, n + 1, Len(Consumed)) = read

(* Two cells may stand in a row: the end of a line is preceded by its      *)
(* beginning, and a beginning by the end of a line.                        *)
Follows(a, b) == IF EndsLine(b) THEN a = [gen |-> b.gen, at |-> b.at - 1]
                                ELSE EndsLine(a)

Whole(cells) == \A k \in 2..Len(cells) : Follows(cells[k - 1], cells[k])

(* While no log was truncated, a line is never processed with a piece      *)
(* missing, or with a piece of another line or file in its place, except   *)
(* for the one line the watcher may have attached in the middle of         *)
(* (watcher.py:84-86, 119, 133-139).                                       *)
LinesAreWhole == NeverTruncated => Whole(applied)

(* The state holds one game session: nothing of an earlier log survives    *)
(* the start of a new one.                                                 *)
SessionsNotMixed ==
  \A j, k \in DOMAIN applied : applied[j].gen = applied[k].gen

(* Once the game leaves the log alone, and unless it truncated this one,   *)
(* the tailer has read all of it, all its finished lines are processed and *)
(* it stays so.                                                            *)
CatchesUp ==
  <>[][UNCHANGED gameVars]_vars =>
     <>[](~stopping /\ path # None /\ files[path].gen = path =>
            /\ fh # None
            /\ fh.ino = path
            /\ fh.pos = files[path].size
            /\ \A k \in DOMAIN buffer : ~EndsLine(buffer[k]))

(* Once the game leaves the log alone, the tailer stands at its end also   *)
(* where the game truncated it in place, however it was written again      *)
(* between two polls: what stands beyond the end is noticed and taken up   *)
(* anew.  Excepted is a handle through which a read brought other than the *)
(* stat before it had seen, for the code then remembers a size below what  *)
(* it has read, and may never notice (watcher.py:94-98, 144).              *)
TruncationNoticed ==
  <>[][UNCHANGED gameVars]_vars =>
     <>[](~stopping /\ path # None /\ ~outrun =>
            fh # None /\ fh.ino = path /\ fh.pos = files[path].size)

(* A stop request ends the thread, wherever it stands.                     *)
StopEnds == stopping ~> pc = "done"
=============================================================================
