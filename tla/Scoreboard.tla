----------------------------- MODULE Scoreboard -----------------------------
(***************************************************************************)
(* src/ServerApp/Scoreboard.h: the scoreboard file of one game, shared by  *)
(* the forked room processes and the lobby.  One action per system call    *)
(* that another process can observe.  The file system is modelled as far   *)
(* as the code relies on it: a path names an inode, rename replaces the    *)
(* inode a path names, an open descriptor keeps its inode, and flock locks *)
(* an inode, not a path.                                                   *)
(***************************************************************************)
EXTENDS ScoreEntries

CONSTANTS
    Readers,  \* processes that only read: the lobby, rooms whose game was not won
    Inodes,   \* inode numbers
    NoInode,
    NoEntry,
    Faults    \* which faults are considered: "open", "tmp", "kill"

ASSUME ReadersAssumption == Readers \cap Rooms = {}
ASSUME InodesAssumption == Inodes \subseteq Int /\ NoInode \notin Inodes
ASSUME NoEntryAssumption == NoEntry \notin Entry
ASSUME FaultsAssumption == Faults \subseteq {"open", "tmp", "kill"}

Processes == Rooms \cup Readers

VARIABLES
    main,     \* the inode the path scoreboard_<game>.txt names
    tmp,      \* the inode the path scoreboard_<game>.txt.tmp names
    content,  \* content[i]: the lines in inode i
    pc,       \* pc[p]: the call p is about to make
    fd,       \* fd[p]: the inode p holds open and locks
    tmpFd,    \* tmpFd[p]: the inode p's writeHandle writes to
    mine,     \* mine[p]: the entry p's finished game records
    scores,   \* scores[p]: writeScore's vector
    view,     \* view[p]: what readScoreboard returned to p
    stored    \* history: stored[p] when p's rename has published its entry

vars == <<main, tmp, content, pc, fd, tmpFd, mine, scores, view, stored>>
files == <<main, tmp, content>>

Steps == {"idle", "lockEx", "load", "openTmp", "flush", "rename", "unlockEx",
          "openRead", "lockSh", "read", "rank"}

TypeOK ==
    /\ main \in Inodes \cup {NoInode}
    /\ tmp \in Inodes \cup {NoInode}
    /\ content \in [Inodes -> Lines]
    /\ pc \in [Processes -> Steps]
    /\ fd \in [Processes -> Inodes \cup {NoInode}]
    /\ tmpFd \in [Processes -> Inodes \cup {NoInode}]
    /\ mine \in [Processes -> Entry \cup {NoEntry}]
    /\ scores \in [Processes -> Lines]
    /\ view \in [Processes -> Lines]
    /\ stored \in [Processes -> BOOLEAN]

Init ==
    /\ main = NoInode /\ tmp = NoInode
    /\ content = [i \in Inodes |-> << >>]
    /\ pc = [p \in Processes |-> "idle"]
    /\ fd = [p \in Processes |-> NoInode]
    /\ tmpFd = [p \in Processes |-> NoInode]
    /\ mine = [p \in Processes |-> NoEntry]
    /\ scores = [p \in Processes |-> << >>]
    /\ view = [p \in Processes |-> << >>]
    /\ stored = [p \in Processes |-> FALSE]

-----------------------------------------------------------------------------
(* The file system. *)

InUse == {main, tmp} \cup Range(fd) \cup Range(tmpFd)

\* The lowest free inode is handed out, so that equal states are told equal.
IsFresh(i) == i \in Inodes \ InUse /\ \A j \in Inodes \ InUse : i <= j

\* An inode with neither a name nor a descriptor loses its content.
Keeping(c) == [i \in Inodes |-> IF i \in InUse' THEN c[i] ELSE << >>]

\* A write at offset 0 replaces as many lines as it has and leaves the rest.
Overwrite(old, new) == new \o SubSeq(old, Len(new) + 1, Len(old))

\* Mutant: the lock is kept until the scoreboard has been read back.
HoldsExUntilRead(p) == pc[p] \in {"load", "openTmp", "flush", "rename", "unlockEx",
                                 "openRead", "lockSh"}

HoldsEx(p) == pc[p] \in {"load", "openTmp", "flush", "rename", "unlockEx"}
HoldsSh(p) == pc[p] \in {"read", "rank"} /\ fd[p] # NoInode

Goto(p, step) == pc' = [pc EXCEPT ![p] = step]

-----------------------------------------------------------------------------
(* writeScore, called at the end of a game that was won. *)

\* fileDescriptor = open(filePath, O_RDWR | O_CREAT)
OpenForUpdate(r) ==
    /\ pc[r] = "idle"
    /\ \E s \in Scores : mine' = [mine EXCEPT ![r] = [names |-> r, score |-> s]]
    /\ \/ /\ main # NoInode
          /\ fd' = [fd EXCEPT ![r] = main]
          /\ UNCHANGED main
       \/ /\ main = NoInode
          /\ \E i \in Inodes : IsFresh(i) /\ main' = i /\ fd' = [fd EXCEPT ![r] = i]
    /\ Goto(r, "lockEx")
    /\ UNCHANGED <<tmp, content, tmpFd, scores, view, stored>>

\* The open fails: writeScore returns false, which no caller looks at.
OpenForUpdateFails(r) ==
    /\ "open" \in Faults
    /\ pc[r] = "idle"
    /\ \E s \in Scores : mine' = [mine EXCEPT ![r] = [names |-> r, score |-> s]]
    /\ Goto(r, "openRead")
    /\ UNCHANGED <<files, fd, tmpFd, scores, view, stored>>

\* flock(fileDescriptor, LOCK_EX) blocks while another holds the inode's lock.
LockEx(p) ==
    /\ pc[p] = "lockEx"
    /\ \A q \in Processes : fd[q] = fd[p] => ~HoldsEx(q) /\ ~HoldsSh(q)
    /\ Goto(p, "load")
    /\ UNCHANGED <<files, fd, tmpFd, mine, scores, view, stored>>

\* Mutant: the vector is never cut to the capacity.
LoadUncut(r) ==
    /\ pc[r] = "load"
    /\ \E s \in Sorted(Append(content[fd[r]], mine[r])) : scores' = [scores EXCEPT ![r] = s]
    /\ Goto(r, "openTmp")
    /\ UNCHANGED <<files, fd, tmpFd, mine, view, stored>>

\* Mutant: the entries of the file are not read before it is rewritten.
LoadForgetting(r) ==
    /\ pc[r] = "load"
    /\ scores' = [scores EXCEPT ![r] = <<mine[r]>>]
    /\ Goto(r, "openTmp")
    /\ UNCHANGED <<files, fd, tmpFd, mine, view, stored>>

\* Read the entries, push the new one, sort, and cut to the capacity.
Load(r) ==
    /\ pc[r] = "load"
    /\ \E s \in Inserted(content[fd[r]], mine[r]) : scores' = [scores EXCEPT ![r] = s]
    /\ Goto(r, "openTmp")
    /\ UNCHANGED <<files, fd, tmpFd, mine, view, stored>>

\* Mutant: the scoreboard is rewritten in place, without a temporary file.
OpenInPlace(r) ==
    /\ pc[r] = "openTmp"
    /\ tmpFd' = [tmpFd EXCEPT ![r] = main]
    /\ content' = [content EXCEPT ![main] = << >>]
    /\ Goto(r, "flush")
    /\ UNCHANGED <<main, tmp, fd, mine, scores, view, stored>>

\* fopen(tempFilePath, "w") truncates the file that is there or creates one.
OpenTmp(r) ==
    /\ pc[r] = "openTmp"
    /\ \/ tmp # NoInode /\ tmp' = tmp
       \/ tmp = NoInode /\ \E i \in Inodes : IsFresh(i) /\ tmp' = i
    /\ tmpFd' = [tmpFd EXCEPT ![r] = tmp']
    /\ content' = [content EXCEPT ![tmp'] = << >>]
    /\ Goto(r, "flush")
    /\ UNCHANGED <<main, fd, mine, scores, view, stored>>

\* fopen fails: the entry is dropped and writeScore still returns true.
OpenTmpFails(r) ==
    /\ "tmp" \in Faults
    /\ pc[r] = "openTmp"
    /\ scores' = [scores EXCEPT ![r] = << >>]
    /\ Goto(r, "unlockEx")
    /\ UNCHANGED <<files, fd, tmpFd, mine, view, stored>>

\* The fprintf calls fill a buffer that fclose writes out.
Flush(r) ==
    /\ pc[r] = "flush"
    /\ tmpFd' = [tmpFd EXCEPT ![r] = NoInode]
    /\ scores' = [scores EXCEPT ![r] = << >>]
    /\ Goto(r, "rename")
    /\ UNCHANGED <<main, tmp, fd, mine, view, stored>>
    /\ content' = Keeping([content EXCEPT ![tmpFd[r]] = Overwrite(@, scores[r])])

\* Mutant: the new file is linked to the path, and keeps its temporary name.
RenameByLink(r) ==
    /\ pc[r] = "rename"
    /\ main' = IF tmp = NoInode THEN main ELSE tmp
    /\ stored' = [stored EXCEPT ![r] = TRUE]
    /\ Goto(r, "unlockEx")
    /\ UNCHANGED <<tmp, fd, tmpFd, mine, scores, view>>
    /\ content' = Keeping(content)

\* rename(tempFilePath, filePath); its failure (no such file) is ignored.
Rename(r) ==
    /\ pc[r] = "rename"
    /\ main' = IF tmp = NoInode THEN main ELSE tmp
    /\ tmp' = NoInode
    /\ stored' = [stored EXCEPT ![r] = TRUE]
    /\ Goto(r, "unlockEx")
    /\ UNCHANGED <<fd, tmpFd, mine, scores, view>>
    /\ content' = Keeping(content)

\* flock(fileDescriptor, LOCK_UN); close(fileDescriptor)
UnlockEx(r) ==
    /\ pc[r] = "unlockEx"
    /\ fd' = [fd EXCEPT ![r] = NoInode]
    /\ Goto(r, "openRead")
    /\ UNCHANGED <<main, tmp, tmpFd, mine, scores, view, stored>>
    /\ content' = Keeping(content)

-----------------------------------------------------------------------------
(* readScoreboard, called by a room after writeScore and by the readers. *)

\* fileDescriptor = open(filePath, O_RDONLY); no file reads as no scores.
OpenForRead(p) ==
    /\ \/ pc[p] = "openRead"
       \/ pc[p] = "idle" /\ p \in Readers
    /\ fd' = [fd EXCEPT ![p] = main]
    /\ Goto(p, IF main = NoInode THEN "rank" ELSE "lockSh")
    /\ UNCHANGED <<files, tmpFd, mine, scores, view, stored>>

OpenForReadFails(p) ==
    /\ "open" \in Faults
    /\ \/ pc[p] = "openRead"
       \/ pc[p] = "idle" /\ p \in Readers
    /\ Goto(p, "rank")
    /\ UNCHANGED <<files, fd, tmpFd, mine, scores, view, stored>>

\* flock(fileDescriptor, LOCK_SH) blocks while another holds it exclusively.
LockSh(p) ==
    /\ pc[p] = "lockSh"
    /\ \A q \in Processes : fd[q] = fd[p] => ~HoldsEx(q)
    /\ Goto(p, "read")
    /\ UNCHANGED <<files, fd, tmpFd, mine, scores, view, stored>>

ReadLines(p) ==
    /\ pc[p] = "read"
    /\ view' = [view EXCEPT ![p] = content[fd[p]]]
    /\ Goto(p, "rank")
    /\ UNCHANGED <<files, fd, tmpFd, mine, scores, stored>>

\* Unlock and close; a room has its rank from what it read (OwnScoreRanked).
Finish(p) ==
    /\ pc[p] = "rank"
    /\ fd' = [fd EXCEPT ![p] = NoInode]
    /\ mine' = [mine EXCEPT ![p] = NoEntry]
    /\ view' = [view EXCEPT ![p] = << >>]
    /\ stored' = [stored EXCEPT ![p] = FALSE]
    /\ Goto(p, "idle")
    /\ UNCHANGED <<main, tmp, tmpFd, scores>>
    /\ content' = Keeping(content)

\* The room process is killed; the kernel closes and unlocks what it held,
\* what it had buffered is gone, and the .tmp file stays behind.
Kill(r) ==
    /\ "kill" \in Faults
    /\ pc[r] # "idle"
    /\ Goto(r, "idle")
    /\ fd' = [fd EXCEPT ![r] = NoInode]
    /\ tmpFd' = [tmpFd EXCEPT ![r] = NoInode]
    /\ mine' = [mine EXCEPT ![r] = NoEntry]
    /\ scores' = [scores EXCEPT ![r] = << >>]
    /\ view' = [view EXCEPT ![r] = << >>]
    /\ stored' = [stored EXCEPT ![r] = FALSE]
    /\ UNCHANGED <<main, tmp>>
    /\ content' = Keeping(content)

-----------------------------------------------------------------------------
Write(r) == LockEx(r) \/ Load(r) \/ OpenTmp(r) \/ Flush(r) \/ Rename(r) \/ UnlockEx(r)

Reading(p) == LockSh(p) \/ ReadLines(p) \/ Finish(p)

Continue(p) == Write(p) \/ Reading(p) \/ (pc[p] = "openRead" /\ OpenForRead(p))

Next ==
    \/ \E r \in Rooms :
          \/ OpenForUpdate(r) \/ OpenForUpdateFails(r) \/ LockEx(r) \/ Load(r)
          \/ OpenTmp(r) \/ OpenTmpFails(r) \/ Flush(r) \/ Rename(r) \/ UnlockEx(r)
          \/ Kill(r)
    \/ \E p \in Processes :
          OpenForRead(p) \/ OpenForReadFails(p) \/ LockSh(p) \/ ReadLines(p) \/ Finish(p)

Spec == Init /\ [][Next]_vars

(* A running process is scheduled; nothing is assumed of who gets a lock. *)
Fairness == \A p \in Processes : WF_vars(Continue(p))

FairSpec == Spec /\ Fairness

-----------------------------------------------------------------------------
(* Properties. *)

Board == IF main = NoInode THEN << >> ELSE content[main]

(***************************************************************************)
(* writeScore works on the live file, and behind its back: from LOCK_EX to *)
(* the rename, the locked inode is the one the path names, and the inode   *)
(* that is written to has the other name and no reader, so that no kill,   *)
(* failed open or reader in between meets a board that is truncated, half  *)
(* written or already replaced.  It holds while one room at a time ends a  *)
(* game of this kind; with two rooms both halves fail, which is how        *)
(* LostOnlyToBetter fails then.                                            *)
(***************************************************************************)
UpdatesAside ==
    \A r \in Rooms :
        /\ pc[r] \in {"load", "openTmp", "flush", "rename"} => fd[r] = main
        /\ pc[r] \in {"flush", "rename"} =>
              tmp \notin {main, NoInode} /\ \A p \in Processes : fd[p] # tmp
        /\ pc[r] = "flush" => tmpFd[r] = tmp

(***************************************************************************)
(* A game whose entry was written finds a rank for it in the board it reads *)
(* back, unless a full board of other entries leaves no place for it: the  *)
(* rank -1 that the clients then show means "not among the best".          *)
(***************************************************************************)
OwnScoreRanked ==
    \A r \in Rooms :
        pc[r] = "rank" /\ stored[r] /\ fd[r] # NoInode =>
            \/ Rank(view[r], mine[r].score) # -1
            \/ /\ Len(view[r]) = Capacity
               /\ \A i \in DOMAIN view[r] : view[r][i].score <= mine[r].score

(***************************************************************************)
(* The persistent leaderboard loses an entry only to better ones: a line   *)
(* leaves the file only when Capacity others that are no worse fill it.    *)
(***************************************************************************)
LostOnlyToBetter ==
    [][\A e \in Range(Board) \ Range(Board') :
          /\ Len(Board') = Capacity
          /\ \A f \in Range(Board') : f.score <= e.score]_vars

\* No call waits for ever on a lock: once no new game ends and no new reader
\* comes, every writeScore and readScoreboard that is under way returns.
StartsNothing == \A p \in Processes : pc[p] = "idle" => pc'[p] = "idle"

CallsReturn == <>[][StartsNothing]_vars => <>[](\A p \in Processes : pc[p] = "idle")

(***************************************************************************)
(* The atomic scoreboard this file implements while no two rooms end a     *)
(* game of the same kind at once.  An entry is pending from the open to    *)
(* the rename; a reader has its answer from its open on, because the inode *)
(* it holds no longer changes.                                             *)
(***************************************************************************)
Pending ==
    [p \in Processes |->
        IF pc[p] \in {"lockEx", "load", "openTmp", "flush", "rename"} THEN mine[p] ELSE NoEntry]

Seen == [p \in Processes |-> IF pc[p] \in {"lockSh", "read"} THEN content[fd[p]] ELSE view[p]]

Atomic == INSTANCE ScoreboardSpec WITH board <- Board, pending <- Pending, view <- Seen

AtomicSpec == Atomic!Spec

=============================================================================
