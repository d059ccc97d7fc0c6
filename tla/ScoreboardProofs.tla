-------------------------- MODULE ScoreboardProofs --------------------------
(***************************************************************************)
(* The scoreboard's variables keep their types, for any number of rooms,   *)
(* readers and inodes, any scores, any capacity and any faults; and as     *)
(* long as one room at a time ends a game, the live file is never written  *)
(* to, it implements the atomic scoreboard, loses entries only to better   *)
(* ones and gives every entry its rank.                                    *)
(***************************************************************************)
EXTENDS Scoreboard, SequenceTheorems, FunctionTheorems, WellFoundedInduction, TLAPS

-----------------------------------------------------------------------------
(* What inserting an entry into a scoreboard does. *)

\* Sorting keeps the type and the number of the lines.
LEMMA SortedType ==
    ASSUME NEW lines \in Seq(Entry), NEW s \in Sorted(lines)
    PROVE  s \in Seq(Entry) /\ Len(s) = Len(lines) /\ Ascending(s)
<1> DEFINE n == Len(lines)
<1>1. PICK p \in Bijection(1..n, 1..n) : s = [i \in 1..n |-> lines[p[i]]]
  BY DEF Sorted
<1>2. p \in [1..n -> 1..n]
  BY DEF Bijection, Injection
<1>3. n \in Nat
  BY LenProperties
<1>4. \A i \in 1..n : lines[p[i]] \in Entry
  BY <1>2, ElementOfSeq
<1>5. s \in [1..n -> Entry]
  BY <1>1, <1>4
<1>6. s \in Seq(Entry) /\ Len(s) = n
  BY <1>3, <1>5
<1>7. Ascending(s)
  BY DEF Sorted
<1> QED
  BY <1>6, <1>7

\* Sorting loses no line: every line is found at some place again.
LEMMA SortedKeeps ==
    ASSUME NEW lines \in Seq(Entry), NEW s \in Sorted(lines), NEW i \in 1..Len(lines)
    PROVE  \E j \in 1..Len(lines) : s[j] = lines[i]
<1> DEFINE n == Len(lines)
<1>1. PICK p \in Bijection(1..n, 1..n) : s = [k \in 1..n |-> lines[p[k]]]
  BY DEF Sorted
<1>2. PICK j \in 1..n : p[j] = i
  BY DEF Bijection, Surjection
<1> QED
  BY <1>1, <1>2

\* Cutting an ascending board keeps its first lines.
LEMMA CutType ==
    ASSUME NEW s \in Seq(Entry)
    PROVE  /\ Cut(s) \in Lines
           /\ Len(Cut(s)) = IF Len(s) > Capacity THEN Capacity ELSE Len(s)
           /\ \A i \in 1..Len(Cut(s)) : Cut(s)[i] = s[i]
<1>1. Len(s) \in Nat /\ Capacity \in Nat \ {0}
  BY LenProperties, CapacityAssumption
<1>2. CASE Len(s) > Capacity
  <2>1. Cut(s) = SubSeq(s, 1, Capacity)
    BY <1>2 DEF Cut
  <2>2. \A i \in 1..Capacity : s[i] \in Entry
    BY <1>1, <1>2, ElementOfSeq
  <2>3. /\ SubSeq(s, 1, Capacity) \in Seq(Entry)
        /\ Len(SubSeq(s, 1, Capacity)) = Capacity
        /\ \A i \in 1..Capacity : SubSeq(s, 1, Capacity)[i] = s[i]
    BY <1>1, <2>2, SubSeqProperties
  <2> QED
    BY <1>1, <1>2, <2>1, <2>3 DEF Lines
<1>3. CASE ~(Len(s) > Capacity)
  BY <1>1, <1>3 DEF Cut, Lines
<1> QED
  BY <1>2, <1>3

(***************************************************************************)
(* writeScore's vector fits the file again, is ascending, and has one line *)
(* more than the file had, or Capacity lines.                              *)
(***************************************************************************)
THEOREM InsertedType ==
    ASSUME NEW lines \in Seq(Entry), NEW e \in Entry, NEW b \in Inserted(lines, e)
    PROVE  /\ b \in Lines
           /\ Ascending(b)
           /\ Len(b) = IF Len(lines) + 1 > Capacity THEN Capacity ELSE Len(lines) + 1
<1>1. /\ Append(lines, e) \in Seq(Entry)
      /\ Len(Append(lines, e)) = Len(lines) + 1
  BY AppendProperties
<1>2. PICK s \in Sorted(Append(lines, e)) : b = Cut(s)
  BY DEF Inserted
<1>3. s \in Seq(Entry) /\ Len(s) = Len(lines) + 1 /\ Ascending(s)
  BY <1>1, <1>2, SortedType
<1>4. /\ b \in Lines
      /\ Len(b) = IF Len(s) > Capacity THEN Capacity ELSE Len(s)
      /\ \A i \in 1..Len(b) : b[i] = s[i]
  BY <1>2, <1>3, CutType
<1>5. Ascending(b)
  <2>1. DOMAIN b = 1..Len(b) /\ DOMAIN s = 1..Len(s)
    BY <1>3, <1>4, LenProperties DEF Lines
  <2>2. Len(b) <= Len(s) /\ Len(b) \in Nat /\ Len(s) \in Nat
    BY <1>3, <1>4, CapacityAssumption, LenProperties DEF Lines
  <2> QED
    BY <1>3, <1>4, <2>1, <2>2 DEF Ascending
<1> QED
  BY <1>3, <1>4, <1>5

(***************************************************************************)
(* writeScore loses a line, the new one included, only to Capacity lines   *)
(* that are no worse.                                                      *)
(***************************************************************************)
THEOREM InsertedLosesOnlyToBetter ==
    ASSUME NEW lines \in Seq(Entry), NEW e \in Entry, NEW b \in Inserted(lines, e),
           NEW x \in Range(Append(lines, e)) \ Range(b)
    PROVE  Len(b) = Capacity /\ \A f \in Range(b) : f.score <= x.score
<1> DEFINE all == Append(lines, e)
<1>1. all \in Seq(Entry) /\ DOMAIN all = 1..Len(all)
  BY AppendProperties, LenProperties
<1>2. PICK s \in Sorted(all) : b = Cut(s)
  BY DEF Inserted
<1>3. s \in Seq(Entry) /\ Len(s) = Len(all) /\ Ascending(s) /\ DOMAIN s = 1..Len(s)
  BY <1>1, <1>2, SortedType, LenProperties
<1>4. /\ b \in Lines
      /\ Len(b) = IF Len(s) > Capacity THEN Capacity ELSE Len(s)
      /\ \A i \in 1..Len(b) : b[i] = s[i]
  BY <1>2, <1>3, CutType
<1>5. DOMAIN b = 1..Len(b)
  BY <1>4, LenProperties DEF Lines
<1>6. PICK i \in 1..Len(all) : x = all[i]
  BY <1>1 DEF Range
<1>7. PICK j \in 1..Len(all) : s[j] = x
  BY <1>1, <1>2, <1>6, SortedKeeps
<1>8. ~(j \in 1..Len(b))
  BY <1>4, <1>5, <1>7 DEF Range
<1>9. Len(s) \in Nat /\ Len(b) \in Nat /\ Capacity \in Nat
  BY <1>3, <1>4, LenProperties, CapacityAssumption DEF Lines
<1>10. Len(b) = Capacity /\ Capacity < j
  BY <1>3, <1>4, <1>7, <1>8, <1>9
<1>11. ASSUME NEW f \in Range(b) PROVE f.score <= x.score
  <2>1. PICK k \in 1..Len(b) : f = b[k]
    BY <1>5 DEF Range
  <2>2. f = s[k] /\ k \in DOMAIN s /\ j \in DOMAIN s /\ k < j
    BY <1>3, <1>4, <1>7, <1>9, <1>10, <2>1
  <2> QED
    BY <1>3, <1>7, <2>2 DEF Ascending
<1> QED
  BY <1>10, <1>11

-----------------------------------------------------------------------------
(* The scoreboard file.                                                      *)

(***************************************************************************)
(* What the types need: whoever is between open and close has an inode,    *)
(* whoever is outside has none, and a writer has its entry.                *)
(***************************************************************************)
Inside == {"lockEx", "load", "openTmp", "flush", "rename", "unlockEx", "lockSh", "read"}

Descriptors ==
    \A p \in Processes :
        /\ pc[p] \in Inside => fd[p] \in Inodes
        /\ pc[p] \in {"idle", "openRead"} => fd[p] = NoInode
        /\ pc[p] \in {"lockEx", "load"} => mine[p] \in Entry

IInv == TypeOK /\ Descriptors

LEMMA EmptyLines == << >> \in Lines
  BY EmptySeq, CapacityAssumption DEF Lines

\* The atomic scoreboard inserts alike.
LEMMA SameInserted ==
    /\ Lines = Atomic!Lines /\ Entry = Atomic!Entry
    /\ \A lines, e : Atomic!Inserted(lines, e) = Inserted(lines, e)
    /\ \A f : Atomic!Range(f) = Range(f)
<1>1. \A S, T : Atomic!Bijection(S, T) = Bijection(S, T)
  BY Zenon DEF Bijection, Injection, Surjection, IsInjective,
               Atomic!Bijection, Atomic!Injection, Atomic!Surjection, Atomic!IsInjective
<1>2. \A all : Atomic!Sorted(all) = Sorted(all)
  BY <1>1, Zenon DEF Sorted, Atomic!Sorted, Ascending, Atomic!Ascending
<1>3. \A lines, e : Atomic!Inserted(lines, e) = Inserted(lines, e)
  BY <1>2, Zenon DEF Inserted, Atomic!Inserted, Cut, Atomic!Cut
<1>4. Lines = Atomic!Lines /\ Entry = Atomic!Entry
  BY DEF Lines, Atomic!Lines, Entry, Atomic!Entry
<1>5. \A f : Atomic!Range(f) = Range(f)
  BY DEF Range, Atomic!Range
<1> QED
  BY <1>3, <1>4, <1>5

\* What fclose leaves in a file that another writer has written to.
LEMMA OverwriteLines ==
    ASSUME NEW old \in Lines, NEW new \in Lines
    PROVE  Overwrite(old, new) \in Lines
<1> DEFINE rest == SubSeq(old, Len(new) + 1, Len(old))
<1>1. /\ old \in Seq(Entry) /\ new \in Seq(Entry)
      /\ Len(old) \in Nat /\ Len(new) \in Nat /\ Capacity \in Nat
      /\ Len(old) <= Capacity /\ Len(new) <= Capacity
  BY LenProperties, CapacityAssumption DEF Lines
<1>2. \A i \in (Len(new) + 1)..Len(old) : old[i] \in Entry
  BY <1>1, ElementOfSeq
<1>3. /\ rest \in Seq(Entry)
      /\ Len(rest) = IF Len(new) + 1 <= Len(old) THEN Len(old) - (Len(new) + 1) + 1 ELSE 0
  BY <1>1, <1>2, SubSeqProperties
<1>4. /\ new \o rest \in Seq(Entry)
      /\ Len(new \o rest) = Len(new) + Len(rest)
  BY <1>1, <1>3, ConcatProperties
<1>5. Len(new \o rest) <= Capacity
  BY <1>1, <1>3, <1>4
<1> QED
  BY <1>4, <1>5 DEF Overwrite, Lines

\* The kernel's reclaiming of an inode keeps the others as they are.
LEMMA KeepingType ==
    ASSUME NEW c \in [Inodes -> Lines], content' = Keeping(c)
    PROVE  content' \in [Inodes -> Lines]
  BY EmptyLines DEF Keeping

\* Every step keeps the types.
LEMMA TypeStep == IInv /\ [Next]_vars => TypeOK'
<1> SUFFICES ASSUME IInv, [Next]_vars PROVE TypeOK'
  OBVIOUS
<1>0. TypeOK /\ Descriptors
  BY DEF IInv
<1>m. \A r \in Rooms : r \in Processes
  BY DEF Processes
<1> USE <1>0, <1>m DEF TypeOK, Goto, Steps, files
<1>1. ASSUME NEW r \in Rooms, OpenForUpdate(r) PROVE TypeOK'
  <2>1. PICK s \in Scores : mine' = [mine EXCEPT ![r] = [names |-> r, score |-> s]]
    BY <1>1 DEF OpenForUpdate
  <2>2. [names |-> r, score |-> s] \in Entry
    BY DEF Entry
  <2>3. mine' \in [Processes -> Entry \cup {NoEntry}]
    BY <2>1, <2>2
  <2>4. /\ main' \in Inodes \cup {NoInode}
        /\ fd' \in [Processes -> Inodes \cup {NoInode}]
    BY <1>1 DEF OpenForUpdate
  <2> QED
    BY <1>1, <2>3, <2>4 DEF OpenForUpdate
<1>2. ASSUME NEW r \in Rooms, OpenForUpdateFails(r) PROVE TypeOK'
  <2>1. PICK s \in Scores : mine' = [mine EXCEPT ![r] = [names |-> r, score |-> s]]
    BY <1>2 DEF OpenForUpdateFails
  <2>2. [names |-> r, score |-> s] \in Entry
    BY DEF Entry
  <2>3. mine' \in [Processes -> Entry \cup {NoEntry}]
    BY <2>1, <2>2
  <2> QED
    BY <1>2, <2>3 DEF OpenForUpdateFails
<1>3. ASSUME NEW r \in Rooms, LockEx(r) PROVE TypeOK'
  BY <1>3 DEF LockEx
<1>4. ASSUME NEW r \in Rooms, Load(r) PROVE TypeOK'
  <2>1. fd[r] \in Inodes /\ mine[r] \in Entry
    BY <1>4 DEF Load, Descriptors, Inside
  <2>2. PICK s \in Inserted(content[fd[r]], mine[r]) : scores' = [scores EXCEPT ![r] = s]
    BY <1>4 DEF Load
  <2>3. content[fd[r]] \in Seq(Entry)
    BY <2>1 DEF Lines
  <2>4. s \in Lines
    BY <2>1, <2>2, <2>3, InsertedType
  <2> QED
    BY <1>4, <2>2, <2>4 DEF Load
<1>5. ASSUME NEW r \in Rooms, OpenTmp(r) PROVE TypeOK'
  <2>1. tmp' \in Inodes
    BY <1>5 DEF OpenTmp
  <2>2. content' \in [Inodes -> Lines]
    BY <1>5, <2>1, EmptyLines DEF OpenTmp
  <2> QED
    BY <1>5, <2>1, <2>2 DEF OpenTmp
<1>6. ASSUME NEW r \in Rooms, OpenTmpFails(r) PROVE TypeOK'
  BY <1>6, EmptyLines DEF OpenTmpFails
<1>7. ASSUME NEW r \in Rooms, Flush(r) PROVE TypeOK'
  <2> DEFINE c == [content EXCEPT ![tmpFd[r]] = Overwrite(@, scores[r])]
  <2>1. c \in [Inodes -> Lines]
    <3>1. CASE tmpFd[r] \in Inodes
      BY <3>1, OverwriteLines
    <3>2. CASE tmpFd[r] \notin Inodes
      BY <3>2
    <3> QED
      BY <3>1, <3>2
  <2>2. content' = Keeping(c)
    BY <1>7 DEF Flush
  <2>3. content' \in [Inodes -> Lines]
    BY <2>1, <2>2, KeepingType
  <2> QED
    BY <1>7, <2>3, EmptyLines DEF Flush
<1>8. ASSUME NEW r \in Rooms, Rename(r) PROVE TypeOK'
  <2>1. content' \in [Inodes -> Lines]
    BY <1>8, KeepingType DEF Rename
  <2> QED
    BY <1>8, <2>1 DEF Rename
<1>9. ASSUME NEW r \in Rooms, UnlockEx(r) PROVE TypeOK'
  <2>1. content' \in [Inodes -> Lines]
    BY <1>9, KeepingType DEF UnlockEx
  <2> QED
    BY <1>9, <2>1 DEF UnlockEx
<1>10. ASSUME NEW r \in Rooms, Kill(r) PROVE TypeOK'
  <2>1. content' \in [Inodes -> Lines]
    BY <1>10, KeepingType DEF Kill
  <2> QED
    BY <1>10, <2>1, EmptyLines DEF Kill
<1>11. ASSUME NEW p \in Processes, OpenForRead(p) PROVE TypeOK'
  BY <1>11 DEF OpenForRead
<1>12. ASSUME NEW p \in Processes, OpenForReadFails(p) PROVE TypeOK'
  BY <1>12 DEF OpenForReadFails
<1>13. ASSUME NEW p \in Processes, LockSh(p) PROVE TypeOK'
  BY <1>13 DEF LockSh
<1>14. ASSUME NEW p \in Processes, ReadLines(p) PROVE TypeOK'
  <2>1. fd[p] \in Inodes
    BY <1>14 DEF ReadLines, Descriptors, Inside
  <2> QED
    BY <1>14, <2>1 DEF ReadLines
<1>15. ASSUME NEW p \in Processes, Finish(p) PROVE TypeOK'
  <2>1. content' \in [Inodes -> Lines]
    BY <1>15, KeepingType DEF Finish
  <2> QED
    BY <1>15, <2>1, EmptyLines DEF Finish
<1>16. CASE UNCHANGED vars
  BY <1>16 DEF vars
<1> QED
  BY <1>1, <1>2, <1>3, <1>4, <1>5, <1>6, <1>7, <1>8, <1>9, <1>10, <1>11, <1>12, <1>13,
     <1>14, <1>15, <1>16 DEF Next

\* Every step keeps descriptors and program counters in agreement.
LEMMA DescriptorsStep == IInv /\ [Next]_vars => Descriptors'
<1> SUFFICES ASSUME IInv, [Next]_vars PROVE Descriptors'
  OBVIOUS
<1>0. TypeOK /\ Descriptors
  BY DEF IInv
<1>m. \A r \in Rooms : r \in Processes
  BY DEF Processes
<1> USE <1>0, <1>m DEF TypeOK, Descriptors, Inside, Goto, files
<1>1. ASSUME NEW r \in Rooms, OpenForUpdate(r) PROVE Descriptors'
  <2>1. PICK s \in Scores : mine' = [mine EXCEPT ![r] = [names |-> r, score |-> s]]
    BY <1>1 DEF OpenForUpdate
  <2>2. [names |-> r, score |-> s] \in Entry
    BY DEF Entry
  <2>3. mine'[r] \in Entry /\ \A q \in Processes \ {r} : mine'[q] = mine[q]
    BY <2>1, <2>2
  <2>4. fd'[r] \in Inodes /\ \A q \in Processes \ {r} : fd'[q] = fd[q]
    BY <1>1 DEF OpenForUpdate
  <2>5. pc'[r] = "lockEx" /\ \A q \in Processes \ {r} : pc'[q] = pc[q]
    BY <1>1 DEF OpenForUpdate
  <2> QED
    BY <2>3, <2>4, <2>5
<1>2. ASSUME NEW r \in Rooms, OpenForUpdateFails(r) PROVE Descriptors'
  BY <1>2 DEF OpenForUpdateFails
<1>3. ASSUME NEW r \in Rooms, LockEx(r) PROVE Descriptors'
  BY <1>3 DEF LockEx
<1>4. ASSUME NEW r \in Rooms, Load(r) PROVE Descriptors'
  BY <1>4 DEF Load
<1>5. ASSUME NEW r \in Rooms, OpenTmp(r) PROVE Descriptors'
  BY <1>5 DEF OpenTmp
<1>6. ASSUME NEW r \in Rooms, OpenTmpFails(r) PROVE Descriptors'
  BY <1>6 DEF OpenTmpFails
<1>7. ASSUME NEW r \in Rooms, Flush(r) PROVE Descriptors'
  BY <1>7 DEF Flush
<1>8. ASSUME NEW r \in Rooms, Rename(r) PROVE Descriptors'
  BY <1>8 DEF Rename
<1>9. ASSUME NEW r \in Rooms, UnlockEx(r) PROVE Descriptors'
  BY <1>9 DEF UnlockEx
<1>10. ASSUME NEW r \in Rooms, Kill(r) PROVE Descriptors'
  BY <1>10 DEF Kill
<1>11. ASSUME NEW p \in Processes, OpenForRead(p) PROVE Descriptors'
  BY <1>11 DEF OpenForRead
<1>12. ASSUME NEW p \in Processes, OpenForReadFails(p) PROVE Descriptors'
  BY <1>12 DEF OpenForReadFails
<1>13. ASSUME NEW p \in Processes, LockSh(p) PROVE Descriptors'
  BY <1>13 DEF LockSh
<1>14. ASSUME NEW p \in Processes, ReadLines(p) PROVE Descriptors'
  BY <1>14 DEF ReadLines
<1>15. ASSUME NEW p \in Processes, Finish(p) PROVE Descriptors'
  BY <1>15 DEF Finish
<1>16. CASE UNCHANGED vars
  BY <1>16 DEF vars
<1> QED
  BY <1>1, <1>2, <1>3, <1>4, <1>5, <1>6, <1>7, <1>8, <1>9,
     <1>10, <1>11, <1>12, <1>13, <1>14, <1>15, <1>16 DEF Next

(***************************************************************************)
(* IInv is inductive.  TypeOK alone is not: the lines that are read and    *)
(* rewritten are those of an inode only if the descriptor is open then,    *)
(* which Descriptors says.                                                 *)
(***************************************************************************)
THEOREM ScoreboardInvariant == Spec => []IInv
<1>1. Init => IInv
  BY EmptyLines DEF Init, IInv, TypeOK, Steps, Descriptors, Inside
<1>2. IInv /\ [Next]_vars => IInv'
  BY TypeStep, DescriptorsStep DEF IInv
<1> QED
  BY <1>1, <1>2, PTL DEF Spec

\* The variables of the scoreboard keep their types: the file never grows
\* beyond Capacity lines, whoever writes it together with whom.
THEOREM ScoreboardTypeOK == Spec => []TypeOK
<1>1. IInv => TypeOK
  BY DEF IInv
<1> QED
  BY <1>1, ScoreboardInvariant, PTL

-----------------------------------------------------------------------------
(* One room.                                                               *)

OneRoom == \A r, q \in Rooms : r = q

\* An inode that nothing names is empty.
Cleared == \A i \in Inodes : i \notin InUse => content[i] = << >>

\* Nobody but the writer has the temporary file.
Apart ==
    /\ main # NoInode => main # tmp
    /\ \A p \in Processes :
          /\ fd[p] # NoInode => fd[p] # tmp
          /\ tmpFd[p] # NoInode => p \in Rooms /\ pc[p] = "flush"

\* What a process has read it forgets with its rank.
Views == \A p \in Processes : pc[p] # "rank" => view[p] = << >>

\* What the writer is about to publish is the published file with its entry.
Writer ==
    \A r \in Rooms :
        /\ pc[r] \in {"lockEx", "load", "openTmp", "flush", "rename"} =>
              mine[r] \in Entry /\ main \in Inodes /\ fd[r] = main
        /\ pc[r] \in {"openTmp", "flush"} => scores[r] \in Inserted(content[main], mine[r])
        /\ pc[r] = "flush" => tmp \in Inodes /\ tmpFd[r] = tmp /\ content[tmp] = << >>
        /\ pc[r] = "rename" => tmp \in Inodes /\ content[tmp] \in Inserted(content[main], mine[r])

AloneInv == Cleared /\ Apart /\ Views /\ Writer

\* What is used keeps its content when an inode is reclaimed.
LEMMA Kept ==
    ASSUME TypeOK', NEW c, content' = Keeping(c)
    PROVE  /\ \A i \in Inodes : i \notin InUse' => content'[i] = << >>
           /\ \A i \in Inodes : i \in InUse' => content'[i] = c[i]
           /\ main' \in InUse' /\ tmp' \in InUse'
           /\ \A p \in Processes : fd'[p] \in InUse' /\ tmpFd'[p] \in InUse'
<1>1. /\ \A p \in Processes : fd'[p] \in Range(fd')
      /\ \A p \in Processes : tmpFd'[p] \in Range(tmpFd')
  BY DEF TypeOK, Range
<1> QED
  BY <1>1 DEF Keeping, InUse

LEMMA Fresh ==
    ASSUME TypeOK, NEW i, IsFresh(i)
    PROVE  /\ i \in Inodes /\ i \notin InUse /\ i # main /\ i # tmp
           /\ \A p \in Processes : fd[p] # i /\ tmpFd[p] # i
<1>1. i \in Inodes /\ i \notin InUse
  BY DEF IsFresh
<1>2. /\ \A p \in Processes : fd[p] \in Range(fd)
      /\ \A p \in Processes : tmpFd[p] \in Range(tmpFd)
  BY DEF TypeOK, Range
<1> QED
  BY <1>1, <1>2 DEF InUse

\* fclose into a file that was truncated.
LEMMA OverwriteEmpty ==
    ASSUME NEW new \in Lines
    PROVE  Overwrite(<< >>, new) = new
<1>1. new \in Seq(Entry) /\ Len(new) \in Nat
  BY LenProperties DEF Lines
<1>2. Len(<< >>) = 0
  BY EmptySeq
<1>3. SubSeq(<< >>, Len(new) + 1, 0) = << >>
  BY <1>1
<1>4. new \o << >> = new
  BY <1>1
<1> QED
  BY <1>2, <1>3, <1>4 DEF Overwrite

LEMMA ViewsStep == IInv /\ Views /\ [Next]_vars => Views'
<1> SUFFICES ASSUME IInv, Views, [Next]_vars PROVE Views'
  OBVIOUS
<1>0. TypeOK
  BY DEF IInv
<1>m. \A r \in Rooms : r \in Processes
  BY DEF Processes
<1> USE <1>0, <1>m DEF TypeOK, Views, Goto, files
<1>1. ASSUME NEW r \in Rooms, OpenForUpdate(r) PROVE Views'
  BY <1>1 DEF OpenForUpdate
<1>2. ASSUME NEW r \in Rooms, OpenForUpdateFails(r) PROVE Views'
  BY <1>2 DEF OpenForUpdateFails
<1>3. ASSUME NEW r \in Rooms, LockEx(r) PROVE Views'
  BY <1>3 DEF LockEx
<1>4. ASSUME NEW r \in Rooms, Load(r) PROVE Views'
  BY <1>4 DEF Load
<1>5. ASSUME NEW r \in Rooms, OpenTmp(r) PROVE Views'
  BY <1>5 DEF OpenTmp
<1>6. ASSUME NEW r \in Rooms, OpenTmpFails(r) PROVE Views'
  BY <1>6 DEF OpenTmpFails
<1>7. ASSUME NEW r \in Rooms, Flush(r) PROVE Views'
  BY <1>7 DEF Flush
<1>8. ASSUME NEW r \in Rooms, Rename(r) PROVE Views'
  BY <1>8 DEF Rename
<1>9. ASSUME NEW r \in Rooms, UnlockEx(r) PROVE Views'
  BY <1>9 DEF UnlockEx
<1>10. ASSUME NEW r \in Rooms, Kill(r) PROVE Views'
  BY <1>10 DEF Kill
<1>11. ASSUME NEW p \in Processes, OpenForRead(p) PROVE Views'
  BY <1>11 DEF OpenForRead
<1>12. ASSUME NEW p \in Processes, OpenForReadFails(p) PROVE Views'
  BY <1>12 DEF OpenForReadFails
<1>13. ASSUME NEW p \in Processes, LockSh(p) PROVE Views'
  BY <1>13 DEF LockSh
<1>14. ASSUME NEW p \in Processes, ReadLines(p) PROVE Views'
  BY <1>14 DEF ReadLines
<1>15. ASSUME NEW p \in Processes, Finish(p) PROVE Views'
  BY <1>15 DEF Finish
<1>16. CASE UNCHANGED vars
  BY <1>16 DEF vars
<1> QED
  BY <1>1, <1>2, <1>3, <1>4, <1>5, <1>6, <1>7, <1>8, <1>9,
     <1>10, <1>11, <1>12, <1>13, <1>14, <1>15, <1>16 DEF Next

\* What is in use: what a path or a descriptor names.
Named(i) == i = main \/ i = tmp \/ \E p \in Processes : fd[p] = i \/ tmpFd[p] = i

LEMMA InUseNamed ==
    /\ TypeOK => \A i : i \in InUse <=> Named(i)
    /\ TypeOK' => \A i : i \in InUse' <=> Named(i)'
<1>1. ASSUME TypeOK, NEW i PROVE i \in InUse <=> Named(i)
  <2>1. DOMAIN fd = Processes /\ DOMAIN tmpFd = Processes
    BY <1>1 DEF TypeOK
  <2> QED
    BY <2>1 DEF InUse, Named, Range
<1>2. ASSUME TypeOK', NEW i PROVE i \in InUse' <=> Named(i)'
  <2>1. DOMAIN fd' = Processes /\ DOMAIN tmpFd' = Processes
    BY <1>2 DEF TypeOK
  <2> QED
    BY <2>1 DEF InUse, Named, Range
<1> QED
  BY <1>1, <1>2

LEMMA ClearedStep == IInv /\ Cleared /\ Apart /\ [Next]_vars => Cleared'
<1> SUFFICES ASSUME IInv, Cleared, Apart, [Next]_vars PROVE Cleared'
  OBVIOUS
<1>0. TypeOK /\ TypeOK' /\ Descriptors
  BY TypeStep DEF IInv
<1>m. /\ \A r \in Rooms : r \in Processes
      /\ \A i \in Inodes : i # NoInode
  BY InodesAssumption DEF Processes
<1>g. ASSUME UNCHANGED content, \A i \in Inodes : Named(i) => Named(i)' PROVE Cleared'
  BY <1>0, <1>g, InUseNamed DEF Cleared
<1>u. ASSUME UNCHANGED <<main, tmp, content, fd, tmpFd>> PROVE Cleared'
  BY <1>u DEF Cleared, InUse, Range
<1>k. ASSUME NEW c, content' = Keeping(c) PROVE Cleared'
  BY <1>0, <1>k, Kept DEF Cleared
<1>1. ASSUME NEW r \in Rooms, OpenForUpdate(r) PROVE Cleared'
  <2>1. fd[r] = NoInode /\ r \in Processes
    BY <1>0, <1>1, <1>m DEF Descriptors, OpenForUpdate
  <2>2. \A p \in Processes : p # r => fd'[p] = fd[p]
    BY <1>0, <1>1 DEF OpenForUpdate, TypeOK
  <2>3. (main' = main \/ main = NoInode) /\ UNCHANGED <<tmp, tmpFd, content>>
    BY <1>1 DEF OpenForUpdate
  <2> QED
    BY <1>g, <1>m, <2>1, <2>2, <2>3 DEF Named
<1>2. ASSUME NEW r \in Rooms, OpenForUpdateFails(r) PROVE Cleared'
  BY <1>2, <1>u DEF OpenForUpdateFails, files
<1>3. ASSUME NEW r \in Rooms, LockEx(r) PROVE Cleared'
  BY <1>3, <1>u DEF LockEx, files
<1>4. ASSUME NEW r \in Rooms, Load(r) PROVE Cleared'
  BY <1>4, <1>u DEF Load, files
<1>5. ASSUME NEW r \in Rooms, OpenTmp(r) PROVE Cleared'
  <2>1. tmpFd[r] = NoInode /\ r \in Processes
    BY <1>5, <1>m DEF Apart, OpenTmp
  <2>2. \A p \in Processes : p # r => tmpFd'[p] = tmpFd[p]
    BY <1>0, <1>5 DEF OpenTmp, TypeOK
  <2>3. (tmp' = tmp \/ tmp = NoInode) /\ UNCHANGED <<main, fd>>
    BY <1>5 DEF OpenTmp
  <2>4. \A i \in Inodes : Named(i) => Named(i)'
    BY <1>m, <2>1, <2>2, <2>3 DEF Named
  <2>5. \A i \in Inodes : content'[i] = content[i] \/ content'[i] = << >>
    BY <1>0, <1>5 DEF OpenTmp, TypeOK
  <2> QED
    BY <1>0, <2>4, <2>5, InUseNamed DEF Cleared
<1>6. ASSUME NEW r \in Rooms, OpenTmpFails(r) PROVE Cleared'
  BY <1>6, <1>u DEF OpenTmpFails, files
<1>7. ASSUME NEW r \in Rooms, Flush(r) PROVE Cleared'
  BY <1>7, <1>k DEF Flush
<1>8. ASSUME NEW r \in Rooms, Rename(r) PROVE Cleared'
  BY <1>8, <1>k DEF Rename
<1>9. ASSUME NEW r \in Rooms, UnlockEx(r) PROVE Cleared'
  BY <1>9, <1>k DEF UnlockEx
<1>10. ASSUME NEW r \in Rooms, Kill(r) PROVE Cleared'
  BY <1>10, <1>k DEF Kill
<1>11. ASSUME NEW p \in Processes, OpenForRead(p) PROVE Cleared'
  <2>1. fd[p] = NoInode
    BY <1>0, <1>11 DEF Descriptors, OpenForRead
  <2>2. \A q \in Processes : q # p => fd'[q] = fd[q]
    BY <1>0, <1>11 DEF OpenForRead, TypeOK
  <2>3. UNCHANGED <<main, tmp, tmpFd, content>>
    BY <1>11 DEF OpenForRead, files
  <2> QED
    BY <1>g, <1>m, <2>1, <2>2, <2>3 DEF Named
<1>12. ASSUME NEW p \in Processes, OpenForReadFails(p) PROVE Cleared'
  BY <1>12, <1>u DEF OpenForReadFails, files
<1>13. ASSUME NEW p \in Processes, LockSh(p) PROVE Cleared'
  BY <1>13, <1>u DEF LockSh, files
<1>14. ASSUME NEW p \in Processes, ReadLines(p) PROVE Cleared'
  BY <1>14, <1>u DEF ReadLines, files
<1>15. ASSUME NEW p \in Processes, Finish(p) PROVE Cleared'
  BY <1>15, <1>k DEF Finish
<1>16. CASE UNCHANGED vars
  BY <1>16, <1>u DEF vars
<1> QED
  BY <1>1, <1>2, <1>3, <1>4, <1>5, <1>6, <1>7, <1>8, <1>9,
     <1>10, <1>11, <1>12, <1>13, <1>14, <1>15, <1>16 DEF Next

LEMMA ApartStep == OneRoom /\ IInv /\ Apart /\ Writer /\ [Next]_vars => Apart'
<1> SUFFICES ASSUME OneRoom, IInv, Apart, Writer, [Next]_vars PROVE Apart'
  OBVIOUS
<1>0. TypeOK /\ Descriptors
  BY DEF IInv
<1>m. /\ \A r \in Rooms : r \in Processes
      /\ \A i \in Inodes : i # NoInode
  BY InodesAssumption DEF Processes
<1> USE <1>0, <1>m DEF TypeOK, Apart, Goto, files
<1>1. ASSUME NEW r \in Rooms, OpenForUpdate(r) PROVE Apart'
  <2>1. /\ r \in Processes /\ pc[r] = "idle" /\ UNCHANGED <<tmp, tmpFd>>
        /\ fd' = [fd EXCEPT ![r] = main'] /\ main' \in Inodes
    BY <1>1 DEF OpenForUpdate
  <2>2. main' # tmp
    BY <1>1, Fresh DEF OpenForUpdate
  <2>3. pc' = [pc EXCEPT ![r] = "lockEx"]
    BY <1>1 DEF OpenForUpdate
  <2> QED
    BY <2>1, <2>2, <2>3
<1>2. ASSUME NEW r \in Rooms, OpenForUpdateFails(r) PROVE Apart'
  BY <1>2 DEF OpenForUpdateFails
<1>3. ASSUME NEW r \in Rooms, LockEx(r) PROVE Apart'
  BY <1>3 DEF LockEx
<1>4. ASSUME NEW r \in Rooms, Load(r) PROVE Apart'
  BY <1>4 DEF Load
<1>5. ASSUME NEW r \in Rooms, OpenTmp(r) PROVE Apart'
  <2>1. main # tmp' /\ \A p \in Processes : fd[p] # tmp'
    <3>1. CASE tmp # NoInode /\ tmp' = tmp
      BY <3>1
    <3>2. CASE tmp = NoInode /\ \E i \in Inodes : IsFresh(i) /\ tmp' = i
      BY <3>2, Fresh
    <3> QED
      BY <1>5, <3>1, <3>2 DEF OpenTmp
  <2> QED
    BY <1>5, <2>1 DEF OpenTmp
<1>6. ASSUME NEW r \in Rooms, OpenTmpFails(r) PROVE Apart'
  BY <1>6 DEF OpenTmpFails
<1>7. ASSUME NEW r \in Rooms, Flush(r) PROVE Apart'
  BY <1>7 DEF Flush, OneRoom
<1>8. ASSUME NEW r \in Rooms, Rename(r) PROVE Apart'
  BY <1>8 DEF Rename, OneRoom
<1>9. ASSUME NEW r \in Rooms, UnlockEx(r) PROVE Apart'
  BY <1>9 DEF UnlockEx
<1>10. ASSUME NEW r \in Rooms, Kill(r) PROVE Apart'
  BY <1>10 DEF Kill
<1>11. ASSUME NEW p \in Processes, OpenForRead(p) PROVE Apart'
  BY <1>11 DEF OpenForRead
<1>12. ASSUME NEW p \in Processes, OpenForReadFails(p) PROVE Apart'
  BY <1>12 DEF OpenForReadFails
<1>13. ASSUME NEW p \in Processes, LockSh(p) PROVE Apart'
  BY <1>13 DEF LockSh
<1>14. ASSUME NEW p \in Processes, ReadLines(p) PROVE Apart'
  BY <1>14 DEF ReadLines
<1>15. ASSUME NEW p \in Processes, Finish(p) PROVE Apart'
  BY <1>15 DEF Finish
<1>16. CASE UNCHANGED vars
  BY <1>16 DEF vars
<1> QED
  BY <1>1, <1>2, <1>3, <1>4, <1>5, <1>6, <1>7, <1>8, <1>9,
     <1>10, <1>11, <1>12, <1>13, <1>14, <1>15, <1>16 DEF Next

\* Nobody writes to an inode that is, or becomes, the published one or that
\* somebody has open: only the temporary file is written to.
LEMMA ContentStep ==
    ASSUME OneRoom, IInv, Apart, Writer, [Next]_vars, NEW i \in Inodes, Named(i)', i # tmp'
    PROVE  content'[i] = content[i]
<1>0. TypeOK /\ TypeOK'
  BY TypeStep DEF IInv
<1>k. ASSUME NEW c, content' = Keeping(c) PROVE content'[i] = c[i]
  BY <1>0, <1>k, Kept, InUseNamed
<1>1. ASSUME NEW r \in Rooms, OpenTmp(r) PROVE content'[i] = content[i]
  BY <1>0, <1>1 DEF OpenTmp, TypeOK
<1>2. ASSUME NEW r \in Rooms, Flush(r) PROVE content'[i] = content[i]
  <2>1. tmpFd[r] = tmp /\ tmp' = tmp
    BY <1>2 DEF Flush, Writer
  <2>2. content'[i] = [content EXCEPT ![tmpFd[r]] = Overwrite(@, scores[r])][i]
    BY <1>2, <1>k DEF Flush
  <2> QED
    BY <1>0, <2>1, <2>2 DEF TypeOK
<1>3. ASSUME NEW r \in Rooms, Rename(r) \/ UnlockEx(r) \/ Kill(r) PROVE content'[i] = content[i]
  BY <1>3, <1>k DEF Rename, UnlockEx, Kill
<1>4. ASSUME NEW p \in Processes, Finish(p) PROVE content'[i] = content[i]
  BY <1>4, <1>k DEF Finish
<1> QED
  BY <1>1, <1>2, <1>3, <1>4
  DEF Next, vars, files, OpenForUpdate, OpenForUpdateFails, LockEx, Load, OpenTmpFails,
      OpenForRead, OpenForReadFails, LockSh, ReadLines

LEMMA WriterStep == OneRoom /\ IInv /\ Apart /\ Writer /\ [Next]_vars => Writer'
<1> SUFFICES ASSUME OneRoom, IInv, Apart, Writer, [Next]_vars PROVE Writer'
  OBVIOUS
<1>0. TypeOK /\ TypeOK' /\ Descriptors /\ Apart'
  BY TypeStep, ApartStep DEF IInv
<1>m. /\ \A r \in Rooms : r \in Processes
      /\ \A i \in Inodes : i # NoInode
  BY InodesAssumption DEF Processes
<1>c. main' \in Inodes => content'[main'] = content[main']
  <2> SUFFICES ASSUME NEW i \in Inodes, main' = i PROVE content'[i] = content[i]
    OBVIOUS
  <2>1. i # tmp' /\ Named(i)'
    BY <1>0, <1>m DEF Apart, Named
  <2> QED
    BY <2>1, ContentStep
\* A step of a room that leaves the section of the writer.
<1>e. ASSUME NEW r \in Rooms,
             pc'[r] \notin {"lockEx", "load", "openTmp", "flush", "rename"}
      PROVE  Writer'
  BY <1>e DEF OneRoom, Writer
\* A step of another process.
<1>r. ASSUME NEW p \in Processes, UNCHANGED <<main, tmp, tmpFd, scores>>,
             pc[p] \notin {"lockEx", "load", "openTmp", "flush", "rename"},
             pc'[p] \notin {"lockEx", "load", "openTmp", "flush", "rename"},
             \A q \in Processes \ {p} :
                pc'[q] = pc[q] /\ fd'[q] = fd[q] /\ mine'[q] = mine[q],
             tmp \in Inodes => content'[tmp] = content[tmp]
      PROVE  Writer'
  <2> SUFFICES ASSUME NEW r \in Rooms, r # p PROVE Writer'
    BY <1>r, <1>e DEF Writer
  <2>1. pc'[r] = pc[r] /\ fd'[r] = fd[r] /\ mine'[r] = mine[r]
    BY <1>r, <1>m
  <2>2. \A q \in Rooms : q = r
    BY DEF OneRoom
  <2> QED
    BY <1>r, <1>c, <2>1, <2>2 DEF Writer
<1>1. ASSUME NEW r \in Rooms, OpenForUpdate(r) PROVE Writer'
  <2>1. PICK s \in Scores : mine' = [mine EXCEPT ![r] = [names |-> r, score |-> s]]
    BY <1>1 DEF OpenForUpdate
  <2>2. mine'[r] \in Entry
    BY <1>0, <1>m, <2>1 DEF TypeOK, Entry
  <2>3. main' \in Inodes /\ fd'[r] = main' /\ pc'[r] = "lockEx"
    BY <1>0, <1>1, <1>m DEF OpenForUpdate, TypeOK, Goto
  <2> QED
    BY <2>2, <2>3 DEF OneRoom, Writer
<1>2. ASSUME NEW r \in Rooms, OpenForUpdateFails(r) PROVE Writer'
  BY <1>0, <1>2, <1>m, <1>e DEF OpenForUpdateFails, TypeOK, Goto
<1>3. ASSUME NEW r \in Rooms, LockEx(r) PROVE Writer'
  <2>1. pc'[r] = "load" /\ pc[r] = "lockEx" /\ UNCHANGED <<main, fd, mine>>
    BY <1>0, <1>3, <1>m DEF LockEx, TypeOK, Goto, files
  <2> QED
    BY <2>1 DEF OneRoom, Writer
<1>4. ASSUME NEW r \in Rooms, Load(r) PROVE Writer'
  <2>1. /\ pc'[r] = "openTmp" /\ pc[r] = "load" /\ UNCHANGED <<main, content, fd, mine>>
        /\ scores'[r] \in Inserted(content[fd[r]], mine[r])
    BY <1>0, <1>4, <1>m DEF Load, TypeOK, Goto, files
  <2>2. mine[r] \in Entry /\ main \in Inodes /\ fd[r] = main
    BY <2>1 DEF Writer
  <2>3. scores'[r] \in Inserted(content'[main'], mine'[r])
    BY <2>1, <2>2
  <2> QED
    BY <2>1, <2>2, <2>3 DEF OneRoom, Writer
<1>5. ASSUME NEW r \in Rooms, OpenTmp(r) PROVE Writer'
  <2>1. /\ pc'[r] = "flush" /\ pc[r] = "openTmp" /\ UNCHANGED <<main, fd, mine, scores>>
        /\ tmp' \in Inodes /\ tmpFd'[r] = tmp' /\ content'[tmp'] = << >>
    BY <1>0, <1>5, <1>m DEF OpenTmp, TypeOK, Goto
  <2>2. /\ mine[r] \in Entry /\ main \in Inodes /\ fd[r] = main
        /\ scores[r] \in Inserted(content[main], mine[r])
    BY <2>1 DEF Writer
  <2>3. scores'[r] \in Inserted(content'[main'], mine'[r])
    BY <1>c, <2>1, <2>2
  <2> QED
    BY <2>1, <2>2, <2>3 DEF OneRoom, Writer
<1>6. ASSUME NEW r \in Rooms, OpenTmpFails(r) PROVE Writer'
  BY <1>0, <1>6, <1>m, <1>e DEF OpenTmpFails, TypeOK, Goto
<1>7. ASSUME NEW r \in Rooms, Flush(r) PROVE Writer'
  <2>1. /\ pc'[r] = "rename" /\ pc[r] = "flush" /\ UNCHANGED <<main, tmp, fd, mine>>
    BY <1>0, <1>7, <1>m DEF Flush, TypeOK, Goto
  <2>2. /\ mine[r] \in Entry /\ main \in Inodes /\ fd[r] = main
        /\ scores[r] \in Inserted(content[main], mine[r])
        /\ tmp \in Inodes /\ tmpFd[r] = tmp /\ content[tmp] = << >>
    BY <2>1 DEF Writer
  <2>3. content' = Keeping([content EXCEPT ![tmpFd[r]] = Overwrite(@, scores[r])])
    BY <1>7 DEF Flush
  <2>4. content'[tmp] = [content EXCEPT ![tmpFd[r]] = Overwrite(@, scores[r])][tmp]
    BY <1>0, <2>1, <2>2, <2>3, Kept
  <2>5. content'[tmp] = Overwrite(<< >>, scores[r]) /\ scores[r] \in Lines
    BY <1>0, <1>m, <2>2, <2>4 DEF TypeOK
  <2>6. content'[tmp'] \in Inserted(content'[main'], mine'[r])
    BY <1>c, <2>1, <2>2, <2>5, OverwriteEmpty
  <2> QED
    BY <2>1, <2>2, <2>6 DEF OneRoom, Writer
<1>8. ASSUME NEW r \in Rooms, Rename(r) PROVE Writer'
  BY <1>0, <1>8, <1>m, <1>e DEF Rename, TypeOK, Goto
<1>9. ASSUME NEW r \in Rooms, UnlockEx(r) PROVE Writer'
  BY <1>0, <1>9, <1>m, <1>e DEF UnlockEx, TypeOK, Goto
<1>10. ASSUME NEW r \in Rooms, Kill(r) PROVE Writer'
  BY <1>0, <1>10, <1>m, <1>e DEF Kill, TypeOK, Goto
<1>11. ASSUME NEW p \in Processes, OpenForRead(p) PROVE Writer'
  BY <1>0, <1>11, <1>r DEF OpenForRead, TypeOK, Goto, files
<1>12. ASSUME NEW p \in Processes, OpenForReadFails(p) PROVE Writer'
  BY <1>0, <1>12, <1>r DEF OpenForReadFails, TypeOK, Goto, files
<1>13. ASSUME NEW p \in Processes, LockSh(p) PROVE Writer'
  BY <1>0, <1>13, <1>r DEF LockSh, TypeOK, Goto, files
<1>14. ASSUME NEW p \in Processes, ReadLines(p) PROVE Writer'
  BY <1>0, <1>14, <1>r DEF ReadLines, TypeOK, Goto, files
<1>15. ASSUME NEW p \in Processes, Finish(p) PROVE Writer'
  <2>1. tmp \in Inodes => content'[tmp] = content[tmp]
    BY <1>0, <1>15, Kept DEF Finish
  <2> QED
    BY <1>0, <1>15, <1>r, <2>1 DEF Finish, TypeOK, Goto
<1>16. CASE UNCHANGED vars
  BY <1>16 DEF vars, Writer
<1> QED
  BY <1>1, <1>2, <1>3, <1>4, <1>5, <1>6, <1>7, <1>8, <1>9,
     <1>10, <1>11, <1>12, <1>13, <1>14, <1>15, <1>16 DEF Next

\* With one room, what is about to be published and what is read are always a
\* published board, or one with the entry inserted.
THEOREM ScoreboardAlone == OneRoom => (Spec => []AloneInv)
<1>1. Init => AloneInv
  <2> SUFFICES ASSUME Init PROVE AloneInv
    OBVIOUS
  <2>1. Cleared
    BY DEF Init, Cleared
  <2>2. Apart
    BY DEF Init, Apart
  <2>3. Views
    BY DEF Init, Views
  <2>4. Writer
    BY DEF Init, Writer, Processes
  <2> QED
    BY <2>1, <2>2, <2>3, <2>4 DEF AloneInv
<1>2. OneRoom /\ IInv /\ AloneInv /\ [Next]_vars => AloneInv'
  BY ClearedStep, ApartStep, ViewsStep, WriterStep DEF AloneInv
<1>3. ASSUME OneRoom PROVE Spec => []AloneInv
  <2>1. IInv /\ AloneInv /\ [Next]_vars => AloneInv'
    BY <1>2, <1>3
  <2> QED
    BY <1>1, <2>1, ScoreboardInvariant, PTL DEF Spec
<1> QED
  BY <1>3

\* While one room at a time ends a game of this kind, it rewrites the live file
\* behind its back: it holds the lock of the live one and writes to another that
\* no process has open.
THEOREM ScoreboardUpdatesAside == OneRoom => (Spec => []UpdatesAside)
<1>1. AloneInv => UpdatesAside
  <2> SUFFICES ASSUME AloneInv, NEW r \in Rooms
               PROVE  /\ pc[r] \in {"load", "openTmp", "flush", "rename"} => fd[r] = main
                      /\ pc[r] \in {"flush", "rename"} =>
                            tmp \notin {main, NoInode} /\ \A p \in Processes : fd[p] # tmp
                      /\ pc[r] = "flush" => tmpFd[r] = tmp
    BY DEF UpdatesAside
  <2>1. /\ pc[r] \in {"load", "openTmp", "flush", "rename"} => fd[r] = main /\ main \in Inodes
        /\ pc[r] \in {"flush", "rename"} => tmp \in Inodes /\ main \in Inodes
        /\ pc[r] = "flush" => tmpFd[r] = tmp
    BY DEF AloneInv, Writer
  <2>2. NoInode \notin Inodes
    BY InodesAssumption
  <2>3. ASSUME pc[r] \in {"flush", "rename"}
        PROVE  tmp \notin {main, NoInode} /\ \A p \in Processes : fd[p] # tmp
    BY <2>1, <2>2, <2>3 DEF AloneInv, Apart
  <2> QED
    BY <2>1, <2>3
<1>2. ASSUME OneRoom PROVE Spec => []UpdatesAside
  <2>1. Spec => []AloneInv
    BY <1>2, ScoreboardAlone
  <2> QED
    BY <1>1, <2>1, PTL
<1> QED
  BY <1>2

-----------------------------------------------------------------------------
(* The refinement.                                                         *)

\* A step that the atomic scoreboard does not see.
LEMMA Unseen ==
    ASSUME Board' = Board,
           \A p \in Processes : Pending'[p] = Pending[p] /\ Seen'[p] = Seen[p]
    PROVE  UNCHANGED Atomic!vars
<1>1. Pending' = Pending
  BY DEF Pending
<1>2. Seen' = Seen
  BY DEF Seen
<1> QED
  BY <1>1, <1>2 DEF Atomic!vars

\* What is published changes only with the name of the file; a reader's answer
\* only with the reader.
LEMMA SeenStep ==
    ASSUME OneRoom, IInv, AloneInv, [Next]_vars
    PROVE  /\ UNCHANGED main => Board' = Board
           /\ \A p \in Processes :
                 UNCHANGED <<pc[p], fd[p], view[p]>> => Seen'[p] = Seen[p]
<1>0. TypeOK /\ TypeOK' /\ Descriptors /\ Apart /\ Apart' /\ Writer
  BY TypeStep, ApartStep DEF IInv, AloneInv
<1>1. ASSUME UNCHANGED main PROVE Board' = Board
  <2>1. CASE main = NoInode
    BY <1>1, <2>1 DEF Board
  <2>2. CASE main # NoInode
    <3>1. PICK i \in Inodes : main' = i
      BY <1>0, <1>1, <2>2 DEF TypeOK
    <3>2. i # tmp' /\ Named(i)'
      BY <1>0, <1>1, <2>2, <3>1 DEF Apart, Named
    <3>3. content'[i] = content[i]
      BY <1>0, <3>2, ContentStep
    <3> QED
      BY <1>1, <2>2, <3>1, <3>3 DEF Board
  <2> QED
    BY <2>1, <2>2
<1>2. ASSUME NEW p \in Processes, UNCHANGED <<pc[p], fd[p], view[p]>>
      PROVE  Seen'[p] = Seen[p]
  <2>1. CASE pc[p] \in {"lockSh", "read"}
    <3>1. fd[p] \in Inodes /\ fd[p] # NoInode
      BY <1>0, <2>1, InodesAssumption DEF Descriptors, Inside
    <3>2. fd'[p] = fd[p] /\ fd'[p] # tmp'
      BY <1>0, <1>2, <3>1 DEF Apart
    <3>3. content'[fd[p]] = content[fd[p]]
      BY <1>0, <3>1, <3>2, ContentStep DEF Named
    <3> QED
      BY <1>2, <2>1, <3>3 DEF Seen
  <2>2. CASE pc[p] \notin {"lockSh", "read"}
    BY <1>2, <2>2 DEF Seen
  <2> QED
    BY <2>1, <2>2
<1> QED
  BY <1>1, <1>2

LEMMA RefineStep ==
    ASSUME OneRoom, IInv, AloneInv, [Next]_vars
    PROVE  [Atomic!Next]_Atomic!vars
<1>0. /\ TypeOK /\ TypeOK' /\ Descriptors /\ Cleared /\ Apart /\ Views /\ Writer
      /\ Views'
  BY TypeStep, ViewsStep DEF IInv, AloneInv
<1>m. /\ \A r \in Rooms : r \in Processes
      /\ \A i \in Inodes : i # NoInode
      /\ Atomic!Processes = Processes
  BY InodesAssumption DEF Processes, Atomic!Processes
<1>b. UNCHANGED main => Board' = Board
  BY SeenStep
<1>s. \A p \in Processes : UNCHANGED <<pc[p], fd[p], view[p]>> => Seen'[p] = Seen[p]
  BY SeenStep
<1>1. ASSUME NEW r \in Rooms, OpenForUpdate(r) PROVE Atomic!Submit(r)
  <2>1. PICK s \in Scores : mine' = [mine EXCEPT ![r] = [names |-> r, score |-> s]]
    BY <1>1 DEF OpenForUpdate
  <2>2. /\ pc[r] = "idle" /\ pc' = [pc EXCEPT ![r] = "lockEx"] /\ UNCHANGED <<content, view>>
        /\ \A p \in Processes \ {r} : fd'[p] = fd[p]
    BY <1>0, <1>1, <1>m DEF OpenForUpdate, Goto, TypeOK
  <2>3. Board' = Board
    <3>1. CASE UNCHANGED main
      BY <1>b, <3>1
    <3>2. CASE main = NoInode /\ IsFresh(main')
      <4>1. content[main'] = << >> /\ main' # NoInode
        BY <1>0, <1>m, <3>2, Fresh DEF Cleared
      <4> QED
        BY <2>2, <3>2, <4>1 DEF Board
    <3> QED
      BY <1>1, <3>1, <3>2 DEF OpenForUpdate
  <2>4. Pending[r] = NoEntry
    BY <1>m, <2>2 DEF Pending
  <2>5. Pending' = [Pending EXCEPT ![r] = [names |-> r, score |-> s]]
    BY <1>0, <1>m, <2>1, <2>2 DEF Pending, TypeOK
  <2>6. Seen' = [Seen EXCEPT ![r] = << >>]
    <3>1. \A p \in Processes \ {r} : Seen'[p] = Seen[p]
      BY <1>0, <1>s, <1>m, <2>2 DEF TypeOK
    <3>2. Seen'[r] = << >>
      BY <1>0, <1>m, <2>2 DEF Seen, Views, TypeOK
    <3> QED
      BY <1>m, <3>1, <3>2 DEF Seen
  <2> QED
    BY <2>3, <2>4, <2>5, <2>6 DEF Atomic!Submit
\* A step of one process that keeps the board, and with it what is pending.
<1>u. ASSUME NEW p \in Processes, UNCHANGED main,
             \A q \in Processes \ {p} : UNCHANGED <<pc[q], fd[q], view[q], mine[q]>>,
             Pending'[p] = Pending[p], Seen'[p] = Seen[p]
      PROVE  UNCHANGED Atomic!vars
  <2>1. \A q \in Processes : Pending'[q] = Pending[q] /\ Seen'[q] = Seen[q]
    BY <1>s, <1>u DEF Pending
  <2> QED
    BY <1>b, <1>u, <2>1, Unseen
<1>2. ASSUME NEW r \in Rooms, OpenForUpdateFails(r) PROVE UNCHANGED Atomic!vars
  <2>1. /\ UNCHANGED main /\ pc[r] = "idle" /\ pc'[r] = "openRead" /\ UNCHANGED view
        /\ \A q \in Processes \ {r} : UNCHANGED <<pc[q], fd[q], view[q], mine[q]>>
    BY <1>0, <1>2, <1>m DEF OpenForUpdateFails, Goto, TypeOK, files
  <2>2. Pending'[r] = Pending[r] /\ Seen'[r] = Seen[r]
    BY <1>m, <2>1 DEF Pending, Seen
  <2> QED
    BY <1>m, <1>u, <2>1, <2>2
<1>3. ASSUME NEW r \in Rooms, LockEx(r) \/ Load(r) \/ OpenTmp(r) \/ Flush(r)
      PROVE  UNCHANGED Atomic!vars
  <2>1. /\ UNCHANGED <<main, view, mine>>
        /\ pc[r] \in {"lockEx", "load", "openTmp", "flush"}
        /\ pc'[r] \in {"load", "openTmp", "flush", "rename"}
        /\ \A q \in Processes \ {r} : UNCHANGED <<pc[q], fd[q], view[q], mine[q]>>
    BY <1>0, <1>3, <1>m DEF LockEx, Load, OpenTmp, Flush, Goto, TypeOK, files
  <2>2. Pending'[r] = Pending[r] /\ Seen'[r] = Seen[r]
    BY <1>m, <2>1 DEF Pending, Seen
  <2> QED
    BY <1>m, <1>u, <2>1, <2>2
\* A step of one process that only takes what is pending away.
<1>l. ASSUME NEW r \in Rooms, UNCHANGED main,
             \A q \in Processes \ {r} : UNCHANGED <<pc[q], fd[q], view[q], mine[q]>>,
             pc[r] \in {"lockEx", "load", "openTmp", "flush", "rename"},
             Pending'[r] = NoEntry, Seen'[r] = Seen[r]
      PROVE  Atomic!Lose(r)
  <2>1. \A q \in Processes : Seen'[q] = Seen[q]
    BY <1>s, <1>l
  <2>2. \A q \in Processes \ {r} : Pending'[q] = Pending[q]
    BY <1>l DEF Pending
  <2>3. Pending[r] # NoEntry
    BY <1>0, <1>l, <1>m, NoEntryAssumption DEF Pending, Writer
  <2>4. Pending' = [Pending EXCEPT ![r] = NoEntry]
    BY <1>l, <1>m, <2>2 DEF Pending
  <2>5. Seen' = Seen
    BY <2>1 DEF Seen
  <2> QED
    BY <1>b, <1>l, <2>3, <2>4, <2>5 DEF Atomic!Lose
<1>4. ASSUME NEW r \in Rooms, OpenTmpFails(r) PROVE Atomic!Lose(r)
  <2>1. /\ UNCHANGED main /\ pc[r] = "openTmp" /\ pc'[r] = "unlockEx" /\ UNCHANGED view
        /\ \A q \in Processes \ {r} : UNCHANGED <<pc[q], fd[q], view[q], mine[q]>>
    BY <1>0, <1>4, <1>m DEF OpenTmpFails, Goto, TypeOK, files
  <2>2. Pending'[r] = NoEntry /\ Seen'[r] = Seen[r]
    BY <1>m, <2>1 DEF Pending, Seen
  <2> QED
    BY <1>l, <2>1, <2>2
<1>5. ASSUME NEW r \in Rooms, Rename(r) PROVE Atomic!Insert(r)
  <2>1. /\ pc[r] = "rename" /\ pc'[r] = "unlockEx" /\ UNCHANGED <<fd, view, mine>>
        /\ \A q \in Processes \ {r} : UNCHANGED pc[q]
        /\ main' = (IF tmp = NoInode THEN main ELSE tmp) /\ tmp' = NoInode
        /\ content' = Keeping(content)
    BY <1>0, <1>5, <1>m DEF Rename, Goto, TypeOK
  <2>2. /\ mine[r] \in Entry /\ main \in Inodes /\ tmp \in Inodes
        /\ content[tmp] \in Inserted(content[main], mine[r])
    BY <1>0, <2>1 DEF Writer
  <2>3. main' = tmp /\ content'[tmp] = content[tmp]
    BY <1>0, <1>m, <2>1, <2>2, Kept
  <2>4. Board' = content[tmp] /\ Board = content[main]
    BY <1>m, <2>2, <2>3 DEF Board
  <2>5. Pending[r] = mine[r] /\ Pending'[r] = NoEntry
    BY <1>m, <2>1 DEF Pending
  <2>6. Pending[r] # NoEntry
    BY <2>2, <2>5, NoEntryAssumption
  <2>7. Pending' = [Pending EXCEPT ![r] = NoEntry]
    BY <1>m, <2>1, <2>5 DEF Pending
  <2>8. Seen' = Seen
    <3>1. \A q \in Processes \ {r} : Seen'[q] = Seen[q]
      BY <1>s, <2>1
    <3>2. Seen'[r] = Seen[r]
      BY <1>m, <2>1 DEF Seen
    <3> QED
      BY <3>1, <3>2 DEF Seen
  <2>9. Board' \in Atomic!Inserted(Board, Pending[r])
    BY <2>2, <2>4, <2>5, SameInserted
  <2> QED
    BY <2>6, <2>7, <2>8, <2>9 DEF Atomic!Insert
<1>6. ASSUME NEW r \in Rooms, UnlockEx(r) PROVE UNCHANGED Atomic!vars
  <2>1. /\ UNCHANGED main /\ pc[r] = "unlockEx" /\ pc'[r] = "openRead" /\ UNCHANGED view
        /\ \A q \in Processes \ {r} : UNCHANGED <<pc[q], fd[q], view[q], mine[q]>>
    BY <1>0, <1>6, <1>m DEF UnlockEx, Goto, TypeOK
  <2>2. Pending'[r] = Pending[r] /\ Seen'[r] = Seen[r]
    BY <1>m, <2>1 DEF Pending, Seen
  <2> QED
    BY <1>m, <1>u, <2>1, <2>2
\* A step of one process that only forgets what was read.
<1>g. ASSUME NEW p \in Processes, UNCHANGED main,
             \A q \in Processes \ {p} : UNCHANGED <<pc[q], fd[q], view[q], mine[q]>>,
             Pending'[p] = Pending[p], Seen'[p] = << >>
      PROVE  Atomic!Forget(p)
  <2>1. \A q \in Processes : Pending'[q] = Pending[q]
    BY <1>g DEF Pending
  <2>2. \A q \in Processes \ {p} : Seen'[q] = Seen[q]
    BY <1>s, <1>g
  <2>3. Seen' = [Seen EXCEPT ![p] = << >>]
    BY <1>g, <2>2 DEF Seen
  <2>4. Pending' = Pending
    BY <2>1 DEF Pending
  <2> QED
    BY <1>b, <1>g, <2>3, <2>4 DEF Atomic!Forget
<1>7. ASSUME NEW r \in Rooms, Kill(r) PROVE Atomic!Lose(r) \/ Atomic!Forget(r)
  <2>1. /\ UNCHANGED main /\ pc'[r] = "idle" /\ view'[r] = << >>
        /\ \A q \in Processes \ {r} : UNCHANGED <<pc[q], fd[q], view[q], mine[q]>>
    BY <1>0, <1>7, <1>m DEF Kill, Goto, TypeOK
  <2>2. Pending'[r] = NoEntry /\ Seen'[r] = << >>
    BY <1>m, <2>1 DEF Pending, Seen
  <2>3. CASE pc[r] \in {"lockEx", "load", "openTmp", "flush", "rename"}
    <3>1. Seen[r] = << >>
      BY <1>0, <1>m, <2>3 DEF Seen, Views
    <3> QED
      BY <1>l, <2>1, <2>2, <2>3, <3>1
  <2>4. CASE pc[r] \notin {"lockEx", "load", "openTmp", "flush", "rename"}
    <3>1. Pending[r] = NoEntry
      BY <1>m, <2>4 DEF Pending
    <3> QED
      BY <1>g, <1>m, <2>1, <2>2, <3>1
  <2> QED
    BY <2>3, <2>4
<1>8. ASSUME NEW p \in Processes, OpenForRead(p) PROVE Atomic!Read(p)
  <2>1. /\ pc[p] \in {"openRead", "idle"} /\ fd'[p] = main /\ UNCHANGED <<main, view, mine, content>>
        /\ pc'[p] = (IF main = NoInode THEN "rank" ELSE "lockSh")
        /\ \A q \in Processes \ {p} : UNCHANGED <<pc[q], fd[q], view[q], mine[q]>>
    BY <1>0, <1>8 DEF OpenForRead, Goto, TypeOK, files
  <2>2. Seen'[p] = Board
    <3>1. view[p] = << >>
      BY <1>0, <2>1 DEF Views
    <3>2. CASE main = NoInode
      BY <2>1, <3>1, <3>2 DEF Seen, Board
    <3>3. CASE main # NoInode
      BY <2>1, <3>3 DEF Seen, Board
    <3> QED
      BY <3>2, <3>3
  <2>3. \A q \in Processes \ {p} : Seen'[q] = Seen[q] /\ Pending'[q] = Pending[q]
    BY <1>s, <2>1 DEF Pending
  <2>4. Pending[p] = NoEntry /\ Pending'[p] = NoEntry
    BY <2>1 DEF Pending
  <2>5. Pending' = Pending
    BY <2>3, <2>4 DEF Pending
  <2>6. Seen' = [Seen EXCEPT ![p] = Board]
    BY <2>2, <2>3 DEF Seen
  <2> QED
    BY <1>b, <2>1, <2>4, <2>5, <2>6 DEF Atomic!Read
<1>9. ASSUME NEW p \in Processes, OpenForReadFails(p) PROVE UNCHANGED Atomic!vars
  <2>1. /\ UNCHANGED main /\ pc[p] \in {"openRead", "idle"} /\ pc'[p] = "rank" /\ UNCHANGED view
        /\ \A q \in Processes \ {p} : UNCHANGED <<pc[q], fd[q], view[q], mine[q]>>
    BY <1>0, <1>9 DEF OpenForReadFails, Goto, TypeOK, files
  <2>2. Pending'[p] = Pending[p] /\ Seen'[p] = Seen[p]
    BY <2>1 DEF Pending, Seen
  <2> QED
    BY <1>u, <2>1, <2>2
<1>10. ASSUME NEW p \in Processes, LockSh(p) PROVE UNCHANGED Atomic!vars
  <2>1. /\ UNCHANGED <<main, content, fd>> /\ pc[p] = "lockSh" /\ pc'[p] = "read" /\ UNCHANGED view
        /\ \A q \in Processes \ {p} : UNCHANGED <<pc[q], fd[q], view[q], mine[q]>>
    BY <1>0, <1>10 DEF LockSh, Goto, TypeOK, files
  <2>2. Pending'[p] = Pending[p] /\ Seen'[p] = Seen[p]
    BY <2>1 DEF Pending, Seen
  <2> QED
    BY <1>u, <2>1, <2>2
<1>11. ASSUME NEW p \in Processes, ReadLines(p) PROVE UNCHANGED Atomic!vars
  <2>1. /\ UNCHANGED <<main, content, fd>> /\ pc[p] = "read" /\ pc'[p] = "rank"
        /\ view'[p] = content[fd[p]]
        /\ \A q \in Processes \ {p} : UNCHANGED <<pc[q], fd[q], view[q], mine[q]>>
    BY <1>0, <1>11 DEF ReadLines, Goto, TypeOK, files
  <2>2. Pending'[p] = Pending[p] /\ Seen'[p] = Seen[p]
    BY <2>1 DEF Pending, Seen
  <2> QED
    BY <1>u, <2>1, <2>2
<1>12. ASSUME NEW p \in Processes, Finish(p) PROVE Atomic!Forget(p)
  <2>1. /\ UNCHANGED main /\ pc[p] = "rank" /\ pc'[p] = "idle" /\ view'[p] = << >>
        /\ \A q \in Processes \ {p} : UNCHANGED <<pc[q], fd[q], view[q], mine[q]>>
    BY <1>0, <1>12 DEF Finish, Goto, TypeOK
  <2>2. Pending'[p] = Pending[p] /\ Seen'[p] = << >>
    BY <2>1 DEF Pending, Seen
  <2> QED
    BY <1>g, <2>1, <2>2
<1>13. CASE UNCHANGED vars
  BY <1>13, Unseen DEF vars, Board, Pending, Seen
<1> QED
  BY <1>1, <1>2, <1>3, <1>4, <1>5, <1>6, <1>7, <1>8, <1>9, <1>10, <1>11, <1>12, <1>13, <1>m
  DEF Next, Atomic!Next

\* While one room at a time ends a game of this kind, the file is the atomic
\* scoreboard, whatever faults there are and however many processes read it.
THEOREM ScoreboardImplementsAtomic == OneRoom => (Spec => AtomicSpec)
<1>1. Init => Atomic!Init
  <2> SUFFICES ASSUME Init PROVE Atomic!Init
    OBVIOUS
  <2>1. Board = << >> /\ Atomic!Processes = Processes
    BY DEF Init, Board, Processes, Atomic!Processes
  <2>2. Pending = [p \in Processes |-> NoEntry]
    BY DEF Init, Pending
  <2>3. Seen = [p \in Processes |-> << >>]
    BY DEF Init, Seen
  <2> QED
    BY <2>1, <2>2, <2>3 DEF Atomic!Init
<1>2. ASSUME OneRoom PROVE Spec => AtomicSpec
  <2>1. IInv /\ AloneInv /\ [Next]_vars => [Atomic!Next]_Atomic!vars
    BY <1>2, RefineStep
  <2>2. Spec => []AloneInv
    BY <1>2, ScoreboardAlone
  <2> QED
    BY <1>1, <2>1, <2>2, ScoreboardInvariant, PTL DEF Spec, AtomicSpec, Atomic!Spec
<1> QED
  BY <1>2

\* The atomic scoreboard, and so what the file implements, keeps its types: a
\* board never has more than Capacity lines.
THEOREM AtomicTypeOK == AtomicSpec => []Atomic!TypeOK
<1>1. Atomic!Init => Atomic!TypeOK
  BY EmptyLines, SameInserted DEF Atomic!Init, Atomic!TypeOK
<1>2. Atomic!TypeOK /\ [Atomic!Next]_Atomic!vars => Atomic!TypeOK'
  <2> SUFFICES ASSUME Atomic!TypeOK, [Atomic!Next]_Atomic!vars PROVE Atomic!TypeOK'
    OBVIOUS
  <2>0. << >> \in Atomic!Lines /\ Entry = Atomic!Entry /\ Lines = Atomic!Lines
    BY EmptyLines, SameInserted
  <2>1. ASSUME NEW r \in Rooms, Atomic!Submit(r) PROVE Atomic!TypeOK'
    <3>1. PICK x \in Scores : Pending' = [Pending EXCEPT ![r] = [names |-> r, score |-> x]]
      BY <2>1 DEF Atomic!Submit
    <3>2. [names |-> r, score |-> x] \in Atomic!Entry
      BY DEF Atomic!Entry
    <3>3. Pending' \in [Atomic!Processes -> Atomic!Entry \cup {NoEntry}]
      BY <3>1, <3>2 DEF Atomic!TypeOK
    <3> QED
      BY <2>0, <2>1, <3>3 DEF Atomic!Submit, Atomic!TypeOK
  <2>2. ASSUME NEW r \in Rooms, Atomic!Insert(r) PROVE Atomic!TypeOK'
    <3>1. Pending[r] \in Entry /\ Board \in Seq(Entry)
      BY <2>0, <2>2 DEF Atomic!Insert, Atomic!Processes, Atomic!TypeOK, Lines
    <3>2. Board' \in Inserted(Board, Pending[r])
      BY <2>2, SameInserted DEF Atomic!Insert
    <3>3. Board' \in Atomic!Lines
      BY <2>0, <3>1, <3>2, InsertedType
    <3> QED
      BY <2>2, <3>3 DEF Atomic!Insert, Atomic!TypeOK
  <2>3. ASSUME NEW r \in Rooms, Atomic!Lose(r) PROVE Atomic!TypeOK'
    BY <2>3 DEF Atomic!Lose, Atomic!TypeOK
  <2>4. ASSUME NEW p \in Atomic!Processes, Atomic!Read(p) PROVE Atomic!TypeOK'
    BY <2>4 DEF Atomic!Read, Atomic!TypeOK
  <2>5. ASSUME NEW p \in Atomic!Processes, Atomic!Forget(p) PROVE Atomic!TypeOK'
    BY <2>0, <2>5 DEF Atomic!Forget, Atomic!TypeOK
  <2>6. CASE UNCHANGED Atomic!vars
    BY <2>6 DEF Atomic!vars, Atomic!TypeOK
  <2> QED
    BY <2>1, <2>2, <2>3, <2>4, <2>5, <2>6 DEF Atomic!Next
<1> QED
  BY <1>1, <1>2, PTL DEF AtomicSpec, Atomic!Spec

\* A step of the atomic scoreboard drops a line only for Capacity lines that
\* are no worse: an insertion into an ascending arrangement cut at its end.
THEOREM AtomicLostOnlyToBetter == AtomicSpec => LostOnlyToBetter
<1> DEFINE Step == \A e \in Range(Board) \ Range(Board') :
                      /\ Len(Board') = Capacity
                      /\ \A f \in Range(Board') : f.score <= e.score
<1>1. Atomic!TypeOK /\ [Atomic!Next]_Atomic!vars => [Step]_vars
  <2> SUFFICES ASSUME Atomic!TypeOK, [Atomic!Next]_Atomic!vars PROVE Step
    OBVIOUS
  <2>1. CASE UNCHANGED Board
    BY <2>1
  <2>2. ASSUME NEW r \in Rooms, Atomic!Insert(r) PROVE Step
    <3>1. Pending[r] \in Entry /\ Board \in Seq(Entry)
      BY <2>2, SameInserted DEF Atomic!Insert, Atomic!Processes, Atomic!TypeOK, Lines
    <3>2. Board' \in Inserted(Board, Pending[r])
      BY <2>2, SameInserted DEF Atomic!Insert
    <3>3. Range(Board) \subseteq Range(Append(Board, Pending[r]))
      <4>1. DOMAIN Board = 1..Len(Board) /\ Len(Board) \in Nat
        BY <3>1, LenProperties
      <4>2. /\ Append(Board, Pending[r]) \in Seq(Entry)
            /\ Len(Append(Board, Pending[r])) = Len(Board) + 1
            /\ \A i \in 1..Len(Board) : Append(Board, Pending[r])[i] = Board[i]
        BY <3>1, AppendProperties
      <4>3. DOMAIN Append(Board, Pending[r]) = 1..(Len(Board) + 1)
        BY <4>2, LenProperties
      <4> QED
        BY <4>1, <4>2, <4>3 DEF Range
    <3> QED
      BY <3>1, <3>2, <3>3, InsertedLosesOnlyToBetter
  <2> QED
    BY <2>1, <2>2
    DEF Atomic!Next, Atomic!vars, Atomic!Submit, Atomic!Lose, Atomic!Read, Atomic!Forget
<1> QED
  BY <1>1, AtomicTypeOK, PTL DEF AtomicSpec, Atomic!Spec, LostOnlyToBetter

\* While one room at a time ends a game of this kind, a line leaves the file only
\* when Capacity lines that are no worse fill it: it is atomic.
THEOREM ScoreboardLostOnlyToBetter == OneRoom => (Spec => LostOnlyToBetter)
<1>1. ASSUME OneRoom PROVE Spec => LostOnlyToBetter
  <2>1. Spec => AtomicSpec
    BY <1>1, ScoreboardImplementsAtomic
  <2> QED
    BY <2>1, AtomicLostOnlyToBetter, PTL
<1> QED
  BY <1>1

-----------------------------------------------------------------------------
(* The rank.                                                               *)

\* e is among the lines, or Capacity lines that are no worse leave it no place.
HasPlace(lines, e) ==
    \/ e \in Range(lines)
    \/ Len(lines) = Capacity /\ \A f \in Range(lines) : f.score <= e.score

\* From the rename on, a room's entry has its place in the published file and in
\* whatever the room reads of it.
Placed ==
    \A r \in Rooms :
        stored[r] =>
            /\ pc[r] \in {"unlockEx", "openRead", "lockSh", "read", "rank"}
            /\ main \in Inodes /\ HasPlace(content[main], mine[r])
            /\ pc[r] \in {"lockSh", "read"} => fd[r] = main
            /\ pc[r] = "rank" /\ fd[r] # NoInode => HasPlace(view[r], mine[r])

\* A set of natural numbers has a least element.
LEMMA NatLeast ==
    ASSUME NEW S \in SUBSET Nat, S # {}
    PROVE  Least(S) \in S /\ \A j \in S : Least(S) <= j
<1> DEFINE R == OpToRel(<, Nat)
<1>1. \A x, y \in Nat : x < y => <<x, y>> \in R
  BY DEF OpToRel
<1>2. IsWellFoundedOn(R, Nat)
  BY NatLessThanWellFounded
<1> HIDE DEF R
<1>3. PICK i \in S : \A j \in S : <<j, i>> \notin R
  BY <1>2, WFMin
<1>4. ASSUME NEW j \in S PROVE i <= j
  <2>1. i \in Nat /\ j \in Nat
    OBVIOUS
  <2>2. ~(j < i)
    BY <1>1, <1>3, <2>1, Zenon
  <2> QED
    BY <2>1, <2>2
<1> QED
  BY <1>4 DEF Least

\* An entry that is among the lines has a rank.
LEMMA RankFound ==
    ASSUME NEW lines \in Seq(Entry), NEW e \in Range(lines)
    PROVE  Rank(lines, e.score) # -1
<1> DEFINE places == {i \in DOMAIN lines : lines[i].score = e.score}
<1>1. PICK i \in DOMAIN lines : lines[i] = e
  BY DEF Range
<1>2. places # {} /\ places \in SUBSET Nat
  BY <1>1
<1>3. Least(places) \in Nat
  BY <1>2, NatLeast
<1> HIDE DEF places
<1>4. Rank(lines, e.score) = IF places = {} THEN -1 ELSE Least(places)
  BY DEF Rank, places
<1>5. \A n \in Nat : n # -1
  OBVIOUS
<1> QED
  BY <1>2, <1>3, <1>4, <1>5, Zenon

LEMMA PlacedStep == OneRoom /\ IInv /\ AloneInv /\ Placed /\ [Next]_vars => Placed'
<1> SUFFICES ASSUME OneRoom, IInv, AloneInv, Placed, [Next]_vars PROVE Placed'
  OBVIOUS
<1>0. /\ TypeOK /\ TypeOK' /\ Descriptors /\ Apart /\ Apart' /\ Writer
  BY TypeStep, ApartStep DEF IInv, AloneInv
<1>m. /\ \A r \in Rooms : r \in Processes
      /\ \A i \in Inodes : i # NoInode
  BY InodesAssumption DEF Processes
<1>c. main' \in Inodes => content'[main'] = content[main']
  <2> SUFFICES ASSUME NEW i \in Inodes, main' = i PROVE content'[i] = content[i]
    OBVIOUS
  <2>1. i # tmp' /\ Named(i)'
    BY <1>0, <1>m DEF Apart, Named
  <2> QED
    BY <1>0, <2>1, ContentStep DEF AloneInv
\* A step of the room that leaves its entry unpublished.
<1>e. ASSUME NEW r \in Rooms, stored'[r] = FALSE PROVE Placed'
  BY <1>e DEF OneRoom, Placed
\* A step of another process.
<1>r. ASSUME NEW p \in Processes \ Rooms, UNCHANGED <<main, stored>>,
             \A q \in Processes \ {p} :
                UNCHANGED <<pc[q], fd[q], mine[q], view[q]>>
      PROVE  Placed'
  <2> SUFFICES ASSUME NEW r \in Rooms PROVE Placed'
    BY DEF Placed
  <2>1. pc'[r] = pc[r] /\ fd'[r] = fd[r] /\ mine'[r] = mine[r] /\ view'[r] = view[r]
    BY <1>r, <1>m
  <2> QED
    BY <1>r, <1>c, <2>1 DEF OneRoom, Placed
<1>1. ASSUME NEW r \in Rooms,
             \/ OpenForUpdate(r) \/ OpenForUpdateFails(r) \/ LockEx(r) \/ Load(r)
             \/ OpenTmp(r) \/ OpenTmpFails(r) \/ Flush(r)
      PROVE  Placed'
  <2>1. stored'[r] = stored[r] /\ pc[r] \in {"idle", "lockEx", "load", "openTmp", "flush"}
    BY <1>1 DEF OpenForUpdate, OpenForUpdateFails, LockEx, Load, OpenTmp, OpenTmpFails, Flush
  <2>2. stored[r] = FALSE
    BY <1>0, <1>m, <2>1 DEF Placed, TypeOK
  <2> QED
    BY <1>e, <2>1, <2>2
<1>2. ASSUME NEW r \in Rooms, Rename(r) PROVE Placed'
  <2>1. /\ pc[r] = "rename" /\ pc'[r] = "unlockEx" /\ UNCHANGED mine
        /\ main' = (IF tmp = NoInode THEN main ELSE tmp)
    BY <1>0, <1>2, <1>m DEF Rename, Goto, TypeOK
  <2>2. /\ mine[r] \in Entry /\ main \in Inodes /\ tmp \in Inodes
        /\ content[tmp] \in Inserted(content[main], mine[r])
    BY <1>0, <2>1 DEF Writer
  <2>3. main' = tmp /\ content'[main'] = content[tmp]
    BY <1>c, <1>m, <2>1, <2>2
  <2>4. content[main] \in Seq(Entry)
    BY <1>0, <2>2 DEF TypeOK, Lines
  <2>5. mine[r] \in Range(Append(content[main], mine[r]))
    <3>1. /\ Append(content[main], mine[r]) \in Seq(Entry)
          /\ Len(Append(content[main], mine[r])) = Len(content[main]) + 1
          /\ Append(content[main], mine[r])[Len(content[main]) + 1] = mine[r]
          /\ Len(content[main]) \in Nat
      BY <2>2, <2>4, AppendProperties, LenProperties
    <3>2. DOMAIN Append(content[main], mine[r]) = 1..(Len(content[main]) + 1)
      BY <3>1, LenProperties
    <3> QED
      BY <3>1, <3>2 DEF Range
  <2>6. HasPlace(content[tmp], mine[r])
    BY <2>2, <2>4, <2>5, InsertedLosesOnlyToBetter DEF HasPlace
  <2> QED
    BY <2>1, <2>2, <2>3, <2>6 DEF OneRoom, Placed
<1>3. ASSUME NEW r \in Rooms, UnlockEx(r) PROVE Placed'
  <2>1. /\ pc'[r] = "openRead" /\ UNCHANGED <<main, mine, stored>>
    BY <1>0, <1>3, <1>m DEF UnlockEx, Goto, TypeOK
  <2> QED
    BY <1>c, <2>1 DEF OneRoom, Placed
<1>4. ASSUME NEW r \in Rooms, Kill(r) PROVE Placed'
  BY <1>0, <1>4, <1>m, <1>e DEF Kill, TypeOK
<1>5. ASSUME NEW p \in Processes, OpenForRead(p) PROVE Placed'
  <2>1. /\ fd'[p] = main /\ UNCHANGED <<main, view, mine, stored>>
        /\ pc'[p] = (IF main = NoInode THEN "rank" ELSE "lockSh")
        /\ \A q \in Processes \ {p} : UNCHANGED <<pc[q], fd[q], view[q], mine[q]>>
    BY <1>0, <1>5 DEF OpenForRead, Goto, TypeOK, files
  <2>2. CASE p \in Rooms
    BY <1>c, <1>m, <2>1, <2>2 DEF OneRoom, Placed
  <2> QED
    BY <1>r, <2>1, <2>2
<1>6. ASSUME NEW p \in Processes, OpenForReadFails(p) PROVE Placed'
  <2>1. /\ UNCHANGED <<main, view, mine, stored, fd>> /\ pc'[p] = "rank"
        /\ pc[p] \in {"openRead", "idle"}
        /\ \A q \in Processes \ {p} : UNCHANGED <<pc[q], fd[q], view[q], mine[q]>>
    BY <1>0, <1>6 DEF OpenForReadFails, Goto, TypeOK, files
  <2>2. fd[p] = NoInode
    BY <1>0, <2>1 DEF Descriptors
  <2>3. CASE p \in Rooms
    BY <1>c, <2>1, <2>2, <2>3 DEF OneRoom, Placed
  <2> QED
    BY <1>r, <2>1, <2>3
<1>7. ASSUME NEW p \in Processes, LockSh(p) PROVE Placed'
  <2>1. /\ UNCHANGED <<main, view, mine, stored, fd>> /\ pc[p] = "lockSh" /\ pc'[p] = "read"
        /\ \A q \in Processes \ {p} : UNCHANGED <<pc[q], fd[q], view[q], mine[q]>>
    BY <1>0, <1>7 DEF LockSh, Goto, TypeOK, files
  <2>2. CASE p \in Rooms
    BY <1>c, <2>1, <2>2 DEF OneRoom, Placed
  <2> QED
    BY <1>r, <2>1, <2>2
<1>8. ASSUME NEW p \in Processes, ReadLines(p) PROVE Placed'
  <2>1. /\ UNCHANGED <<main, mine, stored, fd>> /\ pc[p] = "read" /\ pc'[p] = "rank"
        /\ view'[p] = content[fd[p]]
        /\ \A q \in Processes \ {p} : UNCHANGED <<pc[q], fd[q], view[q], mine[q]>>
    BY <1>0, <1>8 DEF ReadLines, Goto, TypeOK, files
  <2>2. CASE p \in Rooms
    BY <1>c, <2>1, <2>2 DEF OneRoom, Placed
  <2> QED
    BY <1>r, <2>1, <2>2
<1>9. ASSUME NEW p \in Processes, Finish(p) PROVE Placed'
  <2>1. /\ UNCHANGED main /\ stored' = [stored EXCEPT ![p] = FALSE]
        /\ \A q \in Processes \ {p} : UNCHANGED <<pc[q], fd[q], view[q], mine[q]>>
    BY <1>0, <1>9 DEF Finish, Goto, TypeOK
  <2>2. CASE p \in Rooms
    BY <1>0, <1>e, <2>1, <2>2 DEF TypeOK
  <2>3. CASE p \notin Rooms
    <3> SUFFICES ASSUME NEW r \in Rooms PROVE Placed'
      BY DEF Placed
    <3>1. /\ pc'[r] = pc[r] /\ fd'[r] = fd[r] /\ mine'[r] = mine[r] /\ view'[r] = view[r]
          /\ stored'[r] = stored[r]
      BY <1>0, <1>m, <2>1, <2>3 DEF TypeOK
    <3> QED
      BY <1>c, <2>1, <3>1 DEF OneRoom, Placed
  <2> QED
    BY <2>2, <2>3
<1>10. CASE UNCHANGED vars
  BY <1>10 DEF vars, Placed
<1> QED
  BY <1>1, <1>2, <1>3, <1>4, <1>5, <1>6, <1>7, <1>8, <1>9, <1>10 DEF Next

\* While one room at a time ends a game of this kind, a room whose entry was
\* written finds a rank for it in what it reads back, or reads a full board that
\* is no worse.
THEOREM ScoreboardOwnScoreRanked == OneRoom => (Spec => []OwnScoreRanked)
<1>1. Init => Placed
  BY DEF Init, Placed, Processes
<1>2. IInv /\ Placed => OwnScoreRanked
  <2> SUFFICES ASSUME IInv, Placed,
                      NEW r \in Rooms, pc[r] = "rank", stored[r], fd[r] # NoInode
               PROVE  \/ Rank(view[r], mine[r].score) # -1
                      \/ /\ Len(view[r]) = Capacity
                         /\ \A i \in DOMAIN view[r] : view[r][i].score <= mine[r].score
    BY DEF OwnScoreRanked
  <2>1. HasPlace(view[r], mine[r])
    BY DEF Placed
  <2>2. view[r] \in Seq(Entry)
    BY DEF IInv, TypeOK, Processes, Lines
  <2>3. CASE mine[r] \in Range(view[r])
    BY <2>2, <2>3, RankFound
  <2>4. CASE Len(view[r]) = Capacity /\ \A f \in Range(view[r]) : f.score <= mine[r].score
    <3>1. \A i \in DOMAIN view[r] : view[r][i] \in Range(view[r])
      BY DEF Range
    <3> QED
      BY <2>4, <3>1
  <2> QED
    BY <2>1, <2>3, <2>4 DEF HasPlace
<1>3. ASSUME OneRoom PROVE Spec => []OwnScoreRanked
  <2>1. IInv /\ AloneInv /\ Placed /\ [Next]_vars => Placed'
    BY <1>3, PlacedStep
  <2>2. Spec => []AloneInv
    BY <1>3, ScoreboardAlone
  <2> QED
    BY <1>1, <1>2, <2>1, <2>2, ScoreboardInvariant, PTL DEF Spec
<1> QED
  BY <1>3

=============================================================================
