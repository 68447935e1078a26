------------------------ MODULE FilePipelineProofs ------------------------
(***************************************************************************)
(* Theorems about FilePipeline, for any files, processors and bounds:      *)
(* types, the last file before a shutdown, and, with distinct file names,  *)
(* that the rename of CsvProcessor::handle() is a claim: no file is        *)
(* handled by two processors, and no rename overwrites a file.  The        *)
(* argument of the last two is ClaimInvariant of FilePipeline.             *)
(***************************************************************************)
EXTENDS FilePipeline, SequenceTheorems, FiniteSetTheorems, TLAPS

(* The names a claim and an archive give. *)
LEMMA NameShapes == \A n \in Names : Tmp(n) \in Names /\ Done(n) \in Names
BY DEF Names, Tmp, Done

LEMMA OriginalType == \A c \in Contents : Original(c) \in Names
BY FilesAssumption DEF Names, Original

LEMMA InitTypeOK == Init => TypeOK
<1> SUFFICES ASSUME Init PROVE TypeOK
  OBVIOUS
<1>1. name \in [Contents -> Names]
  BY OriginalType DEF Init
<1>2. events \in Seq(Events) /\ buf \in Seq(Events) /\ paths \in Seq(Names) /\ queue \in Seq(Names)
  BY DEF Init
<1>3. pos \in [Procs -> 0..Rows] /\ errs \in [Procs -> 0..ExcLimit + 1] /\ late \in [Procs -> Nat]
  BY BoundsAssumption DEF Init
<1>4. attempts \in [Contents -> [1..Rows -> Nat]] /\ stopped \in [Contents -> SUBSET Reasons]
  BY DEF Init
<1>5. pc \in [Procs -> {"check"}] /\ item \in [Procs -> {NoName}] /\ fd \in [Procs -> SUBSET Contents]
  BY DEF Init
<1> QED
  BY <1>1, <1>2, <1>3, <1>4, <1>5 DEF Init, TypeOK, FileTypes, MainTypes, PollTypes, ProcTypes, HistTypes

-----------------------------------------------------------------------------
(* Types: what the helpers of the actions preserve. *)

LEMMA PostTypes ==
    ASSUME TypeOK, NEW m \in {"IN_CLOSE", "IN_MOVED_TO"}, NEW C \in SUBSET Contents, Post(m, C)
    PROVE  events' \in Seq(Events) /\ seen' \subseteq Contents
<1>1. C # {} => [mask |-> m, name |-> name[CHOOSE c \in C : TRUE]] \in Events
  BY DEF TypeOK, FileTypes, Events
<1>2. events \in Seq(Events)
  BY DEF TypeOK, MainTypes
<1>3. C # {} => Append(events, [mask |-> m, name |-> name[CHOOSE c \in C : TRUE]]) \in Seq(Events)
  BY <1>1, <1>2, AppendProperties
<1> QED
  BY <1>2, <1>3 DEF Post, TypeOK, HistTypes

LEMMA RenameTypes ==
    ASSUME TypeOK, NEW old, NEW new \in Names, Rename(old, new)
    PROVE  name' \in [Contents -> Names] /\ linked' \subseteq Contents
BY DEF Rename, At, TypeOK, FileTypes

LEMMA EnqueueTypes ==
    ASSUME TypeOK, paths # <<>>, EnqueueLast
    PROVE  queue' \in Seq(Names) /\ paths' \in Seq(Names)
<1>1. paths \in Seq(Names) /\ queue \in Seq(Names) /\ Len(paths) \in Nat \ {0}
  BY DEF TypeOK, PollTypes
<1>2. \A i \in 1..Len(paths) : paths[i] \in Names
  BY <1>1
<1>3. SubSeq(paths, 1, Len(paths) - 1) \in Seq(Names)
  BY <1>1, <1>2, SubSeqProperties
<1>4. Append(queue, paths[Len(paths)]) \in Seq(Names)
  BY <1>1, <1>2, AppendProperties
<1> QED
  BY <1>3, <1>4 DEF EnqueueLast

LEMMA CountTypes ==
    ASSUME NEW f \in [1..Rows -> Nat], NEW r \in 1..Rows
    PROVE  [f EXCEPT ![r] = @ + 1] \in [1..Rows -> Nat]
<1>1. f[r] + 1 \in Nat
  OBVIOUS
<1> QED
  BY <1>1

(* A group of variables that keeps its value keeps its type. *)
LEMMA KeptTypes ==
    /\ FileTypes /\ UNCHANGED fileVars => FileTypes'
    /\ MainTypes /\ UNCHANGED <<watchVars, mainVars>> => MainTypes'
    /\ PollTypes /\ UNCHANGED <<pollVars, queue>> => PollTypes'
    /\ ProcTypes /\ UNCHANGED procVars => ProcTypes'
    /\ HistTypes /\ UNCHANGED histVars => HistTypes'
BY DEF FileTypes, MainTypes, PollTypes, ProcTypes, HistTypes,
       fileVars, watchVars, mainVars, pollVars, procVars, histVars

(* What a processor has in hand: a path from the claim to the archive, and  *)
(* errors to spare while it reads rows.                                     *)
ItemHeld == \A p \in Procs : pc[p] \in {"claim"} \union Owning => item[p] \in Names
ErrsLeft == \A p \in Procs : pc[p] = "rows" => errs[p] <= ExcLimit

Typed == TypeOK /\ ItemHeld /\ ErrsLeft

LEMMA StepTypeOK == Typed /\ [Next]_vars => TypeOK'
<1> SUFFICES ASSUME Typed, [Next]_vars PROVE TypeOK'
  OBVIOUS
<1> USE DEF Typed, TypeOK
<1>1. ASSUME NEW c \in Contents, Create(c) PROVE TypeOK'
  <2>1. MainTypes' /\ PollTypes' /\ ProcTypes' /\ HistTypes'
    BY <1>1, KeptTypes DEF Create, fileVars, watchVars, mainVars, pollVars, procVars, histVars
  <2>2. FileTypes'
    BY <1>1 DEF Create, FileTypes, fileVars
  <2> QED
    BY <2>1, <2>2
<1>2. ASSUME NEW c \in Contents, CloseWrite(c) PROVE TypeOK'
  <2>1. events' \in Seq(Events) /\ seen' \subseteq Contents
    BY <1>2, PostTypes DEF CloseWrite, FileTypes
  <2>2. PollTypes' /\ ProcTypes'
    BY <1>2, KeptTypes DEF CloseWrite, fileVars, watchVars, mainVars, pollVars, procVars, histVars
  <2>3. FileTypes'
    BY <1>2 DEF CloseWrite, FileTypes, fileVars
  <2>4. MainTypes'
    BY <1>2, <2>1 DEF CloseWrite, MainTypes, watchVars, mainVars
  <2>5. HistTypes'
    BY <1>2, <2>1 DEF CloseWrite, HistTypes, histVars
  <2> QED
    BY <2>2, <2>3, <2>4, <2>5
<1>3. ASSUME NEW c \in Contents, MoveIn(c) PROVE TypeOK'
  <2>1. events' \in Seq(Events) /\ seen' \subseteq Contents
    BY <1>3, PostTypes DEF MoveIn
  <2>2. PollTypes' /\ ProcTypes'
    BY <1>3, KeptTypes DEF MoveIn, fileVars, watchVars, mainVars, pollVars, procVars, histVars
  <2>3. FileTypes'
    BY <1>3 DEF MoveIn, FileTypes, fileVars
  <2>4. MainTypes'
    BY <1>3, <2>1 DEF MoveIn, MainTypes, watchVars, mainVars
  <2>5. HistTypes'
    BY <1>3, <2>1 DEF MoveIn, HistTypes, histVars
  <2> QED
    BY <2>2, <2>3, <2>4, <2>5
<1>4. ASSUME NEW c \in Contents, CloseRead(c) PROVE TypeOK'
  <2>1. events' \in Seq(Events) /\ seen' \subseteq Contents
    BY <1>4, PostTypes DEF CloseRead
  <2>2. PollTypes' /\ ProcTypes'
    BY <1>4, KeptTypes DEF CloseRead, fileVars, watchVars, mainVars, pollVars, procVars, histVars
  <2>3. FileTypes'
    BY <1>4 DEF CloseRead, FileTypes, fileVars
  <2>4. MainTypes'
    BY <1>4, <2>1 DEF CloseRead, MainTypes, watchVars, mainVars
  <2>5. HistTypes'
    BY <1>4, <2>1 DEF CloseRead, HistTypes, histVars
  <2> QED
    BY <2>2, <2>3, <2>4, <2>5
<1>5. CASE Start
  <2>1. paths' \in Seq(Names)
    <3>1. PICK order \in SetToSeqs(Listing) : paths' = [i \in 1..Len(order) |-> name[order[i]]]
      BY <1>5 DEF Start
    <3>2. Listing \subseteq Contents /\ Cardinality(Listing) \in Nat
      BY FilesAssumption, FS_Subset, FS_CardinalityType DEF Listing, FileTypes
    <3>3. order \in [1..Cardinality(Listing) -> Listing] /\ Len(order) = Cardinality(Listing)
      BY <3>1, <3>2 DEF SetToSeqs
    <3>4. paths' \in [1..Len(order) -> Names]
      BY <3>1, <3>2, <3>3 DEF FileTypes
    <3> QED
      BY <3>2, <3>3, <3>4
  <2>2. FileTypes' /\ ProcTypes'
    BY <1>5, KeptTypes DEF Start, fileVars, watchVars, mainVars, pollVars, procVars, histVars
  <2>3. MainTypes'
    BY <1>5 DEF Start, MainTypes, watchVars, mainVars
  <2>4. PollTypes'
    BY <1>5, <2>1 DEF Start, PollTypes, pollVars
  <2>5. HistTypes'
    BY <1>5 DEF Start, HistTypes, histVars, Listing, FileTypes
  <2> QED
    BY <2>2, <2>3, <2>4, <2>5
<1>6. CASE Interrupt
  <2>1. FileTypes' /\ PollTypes' /\ ProcTypes' /\ HistTypes'
    BY <1>6, KeptTypes DEF Interrupt, fileVars, watchVars, mainVars, pollVars, procVars, histVars
  <2>2. MainTypes'
    BY <1>6 DEF Interrupt, MainTypes, watchVars, mainVars
  <2> QED
    BY <2>1, <2>2
<1>7. CASE SignalThread
  <2>1. FileTypes' /\ PollTypes' /\ ProcTypes' /\ HistTypes'
    BY <1>7, KeptTypes DEF SignalThread, fileVars, watchVars, mainVars, pollVars, procVars, histVars
  <2>2. MainTypes'
    BY <1>7 DEF SignalThread, MainTypes, watchVars, mainVars
  <2> QED
    BY <2>1, <2>2
<1>8. CASE Forget
  <2>1. FileTypes'
    BY <1>8, KeptTypes DEF Forget, fileVars, watchVars, mainVars, pollVars, procVars, histVars
  <2>2. MainTypes'
    <3>1. events' \in Seq(Events)
      BY <1>8 DEF Forget
    <3> QED
      BY <1>8, <3>1 DEF Forget, MainTypes
  <2>3. PollTypes'
    BY <1>8 DEF Forget, PollTypes, pollVars
  <2>4. ProcTypes'
    BY <1>8, BoundsAssumption DEF Forget, ProcTypes, procVars
  <2>5. HistTypes'
    BY <1>8 DEF Forget, HistTypes, histVars
  <2> QED
    BY <2>1, <2>2, <2>3, <2>4, <2>5
<1>9. CASE PollerCheck
  <2>1. FileTypes' /\ MainTypes' /\ ProcTypes' /\ HistTypes'
    BY <1>9, KeptTypes DEF PollerCheck, fileVars, watchVars, mainVars, pollVars, procVars, histVars
  <2>2. PollTypes'
    BY <1>9 DEF PollerCheck, PollTypes, pollVars, PollerGoto
  <2> QED
    BY <2>1, <2>2
<1>10. CASE PollKnown
  <2>1. queue' \in Seq(Names) /\ paths' \in Seq(Names)
    BY <1>10, EnqueueTypes DEF PollKnown, PollTypes
  <2>2. FileTypes' /\ MainTypes' /\ ProcTypes' /\ HistTypes'
    BY <1>10, KeptTypes DEF PollKnown, fileVars, watchVars, mainVars, pollVars, procVars, histVars
  <2>3. PollTypes'
    BY <1>10, <2>1 DEF PollKnown, PollTypes, pollVars, PollerGoto
  <2> QED
    BY <2>2, <2>3
<1>11. CASE PollWatch
  <2>1. FileTypes' /\ ProcTypes' /\ HistTypes'
    BY <1>11, KeptTypes DEF PollWatch, fileVars, watchVars, mainVars, pollVars, procVars, histVars
  <2>2. MainTypes'
    BY <1>11 DEF PollWatch, MainTypes, watchVars, mainVars
  <2>3. PollTypes'
    BY <1>11, BoundsAssumption DEF PollWatch, PollTypes, pollVars, PollerGoto
  <2> QED
    BY <2>1, <2>2, <2>3
<1>12. CASE SelectNothing
  <2>1. FileTypes' /\ MainTypes' /\ ProcTypes' /\ HistTypes'
    BY <1>12, KeptTypes DEF SelectNothing, fileVars, watchVars, mainVars, pollVars, procVars, histVars
  <2>2. PollTypes'
    BY <1>12 DEF SelectNothing, PollTypes, pollVars, PollerGoto
  <2> QED
    BY <2>1, <2>2
<1>13. CASE SelectRead
  <2>1. buf' \in Seq(Events) /\ events' \in Seq(Events)
    <3>1. PICK n \in 1..BufEvents : /\ n <= Len(events)
                                    /\ buf' = SubSeq(events, 1, n)
                                    /\ events' = SubSeq(events, n + 1, Len(events))
      BY <1>13 DEF SelectRead
    <3>2. n \in Int /\ Len(events) \in Int /\ \A i \in 1..Len(events) : events[i] \in Events
      BY BoundsAssumption DEF MainTypes
    <3>3. SubSeq(events, 1, n) \in Seq(Events)
      BY <3>1, <3>2, SubSeqProperties
    <3>4. SubSeq(events, n + 1, Len(events)) \in Seq(Events)
      BY <3>1, <3>2, SubSeqProperties
    <3> QED
      BY <3>1, <3>3, <3>4
  <2>2. FileTypes' /\ ProcTypes' /\ HistTypes'
    BY <1>13, KeptTypes DEF SelectRead, fileVars, watchVars, mainVars, pollVars, procVars, histVars
  <2>3. MainTypes'
    BY <1>13, <2>1 DEF SelectRead, MainTypes, watchVars, mainVars
  <2>4. PollTypes'
    BY <1>13, <2>1 DEF SelectRead, PollTypes, pollVars, PollerGoto
  <2> QED
    BY <2>2, <2>3, <2>4
<1>14. CASE HandleEvent
  <2>1. buf' \in Seq(Events) /\ paths' \in Seq(Names)
    <3>1. Head(buf) \in Events /\ Tail(buf) \in Seq(Events)
      BY <1>14, HeadTailProperties DEF HandleEvent, PollTypes
    <3>2. Head(buf).name \in Names
      BY <3>1 DEF Events
    <3>3. Append(paths, Head(buf).name) \in Seq(Names)
      BY <3>2, AppendProperties DEF PollTypes
    <3> QED
      BY <1>14, <3>1, <3>3 DEF HandleEvent, PollTypes
  <2>2. FileTypes' /\ MainTypes' /\ ProcTypes' /\ HistTypes'
    BY <1>14, KeptTypes DEF HandleEvent, fileVars, watchVars, mainVars, pollVars, procVars, histVars
  <2>3. PollTypes'
    BY <1>14, <2>1 DEF HandleEvent, PollTypes, pollVars, PollerGoto
  <2> QED
    BY <2>2, <2>3
<1>15. CASE EndOfEvents
  <2>1. queue' \in Seq(Names) /\ paths' \in Seq(Names)
    BY <1>15, EnqueueTypes DEF EndOfEvents, PollTypes
  <2>2. FileTypes' /\ MainTypes' /\ ProcTypes' /\ HistTypes'
    BY <1>15, KeptTypes DEF EndOfEvents, fileVars, watchVars, mainVars, pollVars, procVars, histVars
  <2>3. PollTypes'
    BY <1>15, <2>1 DEF EndOfEvents, PollTypes, pollVars, PollerGoto
  <2> QED
    BY <2>2, <2>3
<1>16. ASSUME NEW p \in Procs, ProcCheck(p) PROVE TypeOK'
  <2>1. FileTypes' /\ MainTypes' /\ PollTypes' /\ HistTypes'
    BY <1>16, KeptTypes DEF ProcCheck, fileVars, watchVars, mainVars, pollVars, procVars, histVars
  <2>2. ProcTypes'
    BY <1>16 DEF ProcCheck, ProcTypes, procVars, ProcGoto
  <2> QED
    BY <2>1, <2>2
<1>17. ASSUME NEW p \in Procs, DequeueTimeout(p) PROVE TypeOK'
  <2>1. FileTypes' /\ MainTypes' /\ PollTypes' /\ HistTypes'
    BY <1>17, KeptTypes DEF DequeueTimeout, fileVars, watchVars, mainVars, pollVars, procVars, histVars
  <2>2. ProcTypes'
    BY <1>17 DEF DequeueTimeout, ProcTypes, procVars, ProcGoto
  <2> QED
    BY <2>1, <2>2
<1>18. ASSUME NEW p \in Procs, Dequeue(p) PROVE TypeOK'
  <2>1. Head(queue) \in Names /\ Tail(queue) \in Seq(Names)
    BY <1>18, HeadTailProperties DEF Dequeue, PollTypes
  <2>2. FileTypes' /\ MainTypes'
    BY <1>18, KeptTypes DEF Dequeue, fileVars, watchVars, mainVars, pollVars, procVars, histVars
  <2>3. PollTypes'
    BY <1>18, <2>1 DEF Dequeue, PollTypes, pollVars
  <2>4. ProcTypes'
    BY <1>18, <2>1 DEF Dequeue, ProcTypes, procVars, ProcGoto
  <2>5. HistTypes'
    BY <1>18 DEF Dequeue, HistTypes, histVars
  <2> QED
    BY <2>2, <2>3, <2>4, <2>5
<1>19. ASSUME NEW p \in Procs, Claim(p) PROVE TypeOK'
  <2>1. name' \in [Contents -> Names] /\ linked' \subseteq Contents
    BY <1>19, RenameTypes, NameShapes DEF Claim, ProcGoto, ItemHeld, Owning
  <2>2. MainTypes' /\ PollTypes' /\ HistTypes'
    BY <1>19, KeptTypes DEF Claim, fileVars, watchVars, mainVars, pollVars, procVars, histVars
  <2>3. FileTypes'
    BY <1>19, <2>1 DEF Claim, FileTypes, fileVars
  <2>4. ProcTypes'
    BY <1>19 DEF Claim, ProcTypes, procVars, ProcGoto
  <2> QED
    BY <2>2, <2>3, <2>4
<1>20. ASSUME NEW p \in Procs, ClaimFails(p) PROVE TypeOK'
  <2>1. FileTypes' /\ MainTypes' /\ PollTypes' /\ HistTypes'
    BY <1>20, KeptTypes DEF ClaimFails, fileVars, watchVars, mainVars, pollVars, procVars, histVars
  <2>2. ProcTypes'
    BY <1>20 DEF ClaimFails, ProcTypes, procVars, ProcGoto
  <2> QED
    BY <2>1, <2>2
<1>21. ASSUME NEW p \in Procs, Open(p) PROVE TypeOK'
  <2>1. FileTypes' /\ MainTypes' /\ PollTypes'
    BY <1>21, KeptTypes DEF Open, fileVars, watchVars, mainVars, pollVars, procVars, histVars
  <2>2. ProcTypes'
    BY <1>21, BoundsAssumption DEF Open, ProcTypes, procVars, ProcGoto, At, FileTypes
  <2>3. HistTypes'
    BY <1>21 DEF Open, HistTypes, histVars
  <2> QED
    BY <2>1, <2>2, <2>3
<1>22. ASSUME NEW p \in Procs, Row(p) PROVE TypeOK'
  <2>1. FileTypes' /\ MainTypes' /\ PollTypes'
    BY <1>22, KeptTypes DEF Row, fileVars, watchVars, mainVars, pollVars, procVars, histVars
  <2>2. ProcTypes'
    BY <1>22, BoundsAssumption DEF Row, ProcTypes, procVars, ProcGoto, ErrsLeft
  <2>3. HistTypes'
    <3>1. pos'[p] \in 1..Rows
      BY <1>22, BoundsAssumption DEF Row, ProcTypes
    <3>2. attempts' \in [Contents -> [1..Rows -> Nat]]
      <4>1. \A c \in Contents : [attempts[c] EXCEPT ![pos'[p]] = @ + 1] \in [1..Rows -> Nat]
        BY <3>1, CountTypes DEF HistTypes
      <4>2. attempts' = [c \in Contents |-> IF c \in fd[p]
                                           THEN [attempts[c] EXCEPT ![pos'[p]] = @ + 1]
                                           ELSE attempts[c]]
        BY <1>22 DEF Row
      <4> QED
        BY <4>1, <4>2 DEF HistTypes
    <3>3. stopped' \in [Contents -> SUBSET Reasons]
      BY <1>22 DEF Row, HistTypes, Reasons
    <3> QED
      BY <1>22, <3>2, <3>3 DEF Row, HistTypes
  <2> QED
    BY <2>1, <2>2, <2>3
<1>23. ASSUME NEW p \in Procs, EndOfFile(p) PROVE TypeOK'
  <2>1. FileTypes' /\ MainTypes' /\ PollTypes'
    BY <1>23, KeptTypes DEF EndOfFile, fileVars, watchVars, mainVars, pollVars, procVars, histVars
  <2>2. ProcTypes'
    BY <1>23 DEF EndOfFile, ProcTypes, procVars, ProcGoto
  <2>3. HistTypes'
    BY <1>23 DEF EndOfFile, HistTypes, histVars, Reasons
  <2> QED
    BY <2>1, <2>2, <2>3
<1>27. ASSUME NEW p \in Procs, UnableToLoad(p) PROVE TypeOK'
  <2>1. FileTypes' /\ MainTypes' /\ PollTypes'
    BY <1>27, KeptTypes DEF UnableToLoad, fileVars, watchVars, mainVars, pollVars, procVars, histVars
  <2>2. ProcTypes'
    BY <1>27 DEF UnableToLoad, ProcTypes, procVars, ProcGoto
  <2>3. HistTypes'
    BY <1>27 DEF UnableToLoad, HistTypes, histVars, Reasons
  <2> QED
    BY <2>1, <2>2, <2>3
<1>24. ASSUME NEW p \in Procs, Archive(p) PROVE TypeOK'
  <2>1. name' \in [Contents -> Names] /\ linked' \subseteq Contents
    BY <1>24, RenameTypes, NameShapes DEF Archive, ProcGoto, ItemHeld, Owning
  <2>2. MainTypes' /\ PollTypes' /\ HistTypes'
    BY <1>24, KeptTypes DEF Archive, fileVars, watchVars, mainVars, pollVars, procVars, histVars
  <2>3. FileTypes'
    BY <1>24, <2>1 DEF Archive, FileTypes, fileVars
  <2>4. ProcTypes'
    BY <1>24 DEF Archive, ProcTypes, procVars, ProcGoto
  <2> QED
    BY <2>2, <2>3, <2>4
<1>25. ASSUME NEW p \in Procs, Close(p) PROVE TypeOK'
  <2>1. events' \in Seq(Events) /\ seen' \subseteq Contents
    BY <1>25, PostTypes DEF Close, FileTypes, ProcTypes
  <2>2. FileTypes' /\ PollTypes'
    BY <1>25, KeptTypes DEF Close, fileVars, watchVars, mainVars, pollVars, procVars, histVars
  <2>3. MainTypes'
    BY <1>25, <2>1 DEF Close, MainTypes, watchVars, mainVars
  <2>4. ProcTypes'
    BY <1>25, BoundsAssumption DEF Close, ProcTypes, procVars, ProcGoto
  <2>5. HistTypes'
    BY <1>25, <2>1 DEF Close, HistTypes, histVars
  <2> QED
    BY <2>2, <2>3, <2>4, <2>5
<1>26. CASE UNCHANGED vars
  BY <1>26, KeptTypes DEF vars, fileVars, watchVars, mainVars, pollVars, procVars, histVars
<1> QED
  BY <1>1, <1>2, <1>3, <1>4, <1>5, <1>6, <1>7, <1>8, <1>9, <1>10, <1>11, <1>12, <1>13, <1>14, <1>15, <1>16, <1>17, <1>18, <1>19, <1>20, <1>21, <1>22, <1>23, <1>24, <1>25, <1>26, <1>27
     DEF Next, FileNext, PollerNext, ProcNext, Exit, Crash

-----------------------------------------------------------------------------
(* A path taken after the shutdown request is the last one of its          *)
(* processor: it does not get back to its queue.                           *)
LateIsLast ==
    \A p \in Procs :
        /\ late[p] <= 1
        /\ late[p] = 1 => shutdown /\ pc[p] # "dequeue"

Local == Typed /\ LateIsLast

(* The steps that are not of a processor, and what they leave alone. *)
LEMMA OtherSteps ==
    ASSUME [Next]_vars
    PROVE  \/ UNCHANGED <<procVars, late, shutdown>>
           \/ SignalThread \/ Forget
           \/ \E p \in Procs : ProcNext(p)
BY DEF Next, FileNext, PollerNext, Exit, Crash, Create, CloseWrite, MoveIn, CloseRead, Start,
         Interrupt, PollerCheck, PollKnown, PollWatch, SelectNothing, SelectRead, HandleEvent,
         EndOfEvents, vars, mainVars, procVars, histVars

LEMMA StepLocal == Local /\ [Next]_vars => (ItemHeld /\ ErrsLeft /\ LateIsLast)'
<1> SUFFICES ASSUME Local, [Next]_vars PROVE (ItemHeld /\ ErrsLeft /\ LateIsLast)'
  OBVIOUS
<1> USE DEF Local, Typed, ItemHeld, ErrsLeft, LateIsLast, Owning
<1>1. CASE UNCHANGED <<procVars, late, shutdown>>
  BY <1>1 DEF procVars
<1>2. CASE SignalThread
  BY <1>2 DEF SignalThread, procVars, histVars
<1>3. CASE Forget
  BY <1>3, BoundsAssumption DEF Forget
<1>4. ASSUME NEW p \in Procs, ProcNext(p) PROVE (ItemHeld /\ ErrsLeft /\ LateIsLast)'
  <2>1. CASE ProcCheck(p)
    BY <2>1 DEF ProcCheck, ProcGoto, TypeOK, ProcTypes, HistTypes, mainVars, histVars
  <2>2. CASE DequeueTimeout(p)
    BY <2>2 DEF DequeueTimeout, ProcGoto, TypeOK, ProcTypes, HistTypes, mainVars, histVars
  <2>3. CASE Dequeue(p)
    BY <2>3, HeadTailProperties DEF Dequeue, ProcGoto, TypeOK, ProcTypes, HistTypes, mainVars, histVars, PollTypes
  <2>4. CASE Claim(p)
    BY <2>4 DEF Claim, ProcGoto, TypeOK, ProcTypes, HistTypes, mainVars, histVars
  <2>5. CASE ClaimFails(p)
    BY <2>5 DEF ClaimFails, ProcGoto, TypeOK, ProcTypes, HistTypes, mainVars, histVars
  <2>6. CASE Open(p)
    BY <2>6, BoundsAssumption DEF Open, ProcGoto, TypeOK, ProcTypes, HistTypes, mainVars, histVars
  <2>7. CASE Row(p)
    <3>1. ItemHeld' /\ LateIsLast'
      BY <2>7 DEF Row, ProcGoto, TypeOK, ProcTypes, HistTypes, mainVars
    <3>2. ErrsLeft'
      BY <2>7, BoundsAssumption DEF Row, ProcGoto, TypeOK, ProcTypes
    <3> QED
      BY <3>1, <3>2
  <2>8. CASE EndOfFile(p)
    BY <2>8 DEF EndOfFile, ProcGoto, TypeOK, ProcTypes, HistTypes, mainVars, histVars
  <2>9. CASE Archive(p)
    BY <2>9 DEF Archive, ProcGoto, TypeOK, ProcTypes, HistTypes, mainVars, histVars
  <2>10. CASE Close(p)
    BY <2>10, BoundsAssumption DEF Close, ProcGoto, TypeOK, ProcTypes, HistTypes, mainVars, histVars
  <2>11. CASE UnableToLoad(p)
    BY <2>11 DEF UnableToLoad, ProcGoto, TypeOK, ProcTypes, HistTypes, mainVars, histVars
  <2> QED
    BY <1>4, <2>1, <2>2, <2>3, <2>4, <2>5, <2>6, <2>7, <2>8, <2>9, <2>10, <2>11 DEF ProcNext
<1> QED
  BY <1>1, <1>2, <1>3, <1>4, OtherSteps

LEMMA InitLocal == Init => Local
BY InitTypeOK DEF Init, Local, Typed, ItemHeld, ErrsLeft, LateIsLast, Owning

(* The types, and the facts about a single processor: what it holds, how    *)
(* many errors are left, and that a late path is its last.                  *)
THEOREM LocalInvariant == Spec => []Local
<1>1. Local /\ [Next]_vars => Local'
  BY StepTypeOK, StepLocal DEF Local, Typed
<1> QED
  BY <1>1, InitLocal, PTL DEF Spec

(* Every variable keeps to its type, whatever the producers do. *)
THEOREM PipelineTypes == Spec => []TypeOK
<1>1. Local => TypeOK
  BY DEF Local, Typed
<1> QED
  BY <1>1, LocalInvariant, PTL

(* Once shutdown is requested, a processor takes at most one more path from *)
(* the queue: the one its loop had already decided to wait for.             *)
THEOREM PipelineStops == Spec => []OneMoreFile
<1>1. Local => OneMoreFile
  BY DEF Local, LateIsLast, OneMoreFile
<1> QED
  BY <1>1, LocalInvariant, PTL

-----------------------------------------------------------------------------
(* The rename as a claim.  First, sequences. *)

LEMMA RangeAppend ==
    ASSUME NEW S, NEW s \in Seq(S), NEW e \in S
    PROVE  Range(Append(s, e)) = Range(s) \union {e}
<1>1. /\ Append(s, e) \in Seq(S) /\ Len(Append(s, e)) = Len(s) + 1 /\ Len(s) \in Nat
      /\ \A i \in 1..Len(s) : Append(s, e)[i] = s[i]
      /\ Append(s, e)[Len(s) + 1] = e
  BY AppendProperties
<1>2. Range(Append(s, e)) = {Append(s, e)[i] : i \in 1..Len(s) + 1}
  BY <1>1, RangeEquality
<1>3. Range(s) = {s[i] : i \in 1..Len(s)}
  BY RangeEquality
<1> QED
  BY <1>1, <1>2, <1>3

LEMMA RangeTail ==
    ASSUME NEW S, NEW s \in Seq(S), s # <<>>
    PROVE  Range(s) = Range(Tail(s)) \union {Head(s)}
<1>1. /\ Tail(s) \in Seq(S) /\ Len(Tail(s)) = Len(s) - 1 /\ Len(s) \in Nat \ {0}
      /\ \A i \in 1..Len(Tail(s)) : Tail(s)[i] = s[i + 1]
      /\ Head(s) = s[1]
  BY HeadTailProperties
<1>2. Range(Tail(s)) = {Tail(s)[i] : i \in 1..Len(s) - 1} /\ Range(s) = {s[i] : i \in 1..Len(s)}
  <2>1. PICK t \in Seq(S) : t = Tail(s) /\ Len(t) = Len(s) - 1
    BY <1>1
  <2>2. Range(t) = {t[i] : i \in 1..Len(t)} /\ Range(s) = {s[i] : i \in 1..Len(s)}
    BY RangeEquality
  <2> QED
    BY <2>1, <2>2
<1>3. \A i \in 1..Len(s) : i = 1 \/ i - 1 \in 1..Len(s) - 1
  BY <1>1
<1>4. \A i \in 1..Len(s) - 1 : i + 1 \in 1..Len(s)
  BY <1>1
<1>5. ASSUME NEW x \in Range(s) PROVE x \in Range(Tail(s)) \union {Head(s)}
  <2>1. PICK i \in 1..Len(s) : x = s[i]
    BY <1>2
  <2>2. CASE i # 1
    BY <1>1, <1>2, <1>3, <2>1, <2>2
  <2> QED
    BY <1>1, <2>1, <2>2
<1>6. ASSUME NEW x \in Range(Tail(s)) \union {Head(s)} PROVE x \in Range(s)
  BY <1>1, <1>2, <1>4
<1> QED
  BY <1>5, <1>6

LEMMA RangeFront ==
    ASSUME NEW S, NEW s \in Seq(S), s # <<>>
    PROVE  /\ s[Len(s)] \in Range(s)
           /\ Range(SubSeq(s, 1, Len(s) - 1)) \subseteq Range(s)
<1>1. Len(s) \in Nat \ {0} /\ \A i \in 1..Len(s) : s[i] \in S
  OBVIOUS
<1>2. /\ SubSeq(s, 1, Len(s) - 1) \in Seq(S) /\ Len(SubSeq(s, 1, Len(s) - 1)) = Len(s) - 1
      /\ \A i \in 1..Len(s) - 1 : SubSeq(s, 1, Len(s) - 1)[i] = s[i]
  <2> DEFINE last == Len(s) - 1
  <2>1. last \in Nat /\ \A i \in 1..last : s[i] \in S
    BY <1>1
  <2> HIDE DEF last
  <2>2. /\ SubSeq(s, 1, last) \in Seq(S)
        /\ Len(SubSeq(s, 1, last)) = IF 1 <= last THEN last - 1 + 1 ELSE 0
        /\ \A i \in 1..last - 1 + 1 : SubSeq(s, 1, last)[i] = s[1 + i - 1]
    BY <2>1, SubSeqProperties
  <2>3. /\ Len(SubSeq(s, 1, last)) = last
        /\ \A i \in 1..last : SubSeq(s, 1, last)[i] = s[i]
    BY <2>1, <2>2
  <2> QED
    BY <2>2, <2>3 DEF last
<1>3. Range(s) = {s[i] : i \in 1..Len(s)}
  BY RangeEquality
<1>4. Range(SubSeq(s, 1, Len(s) - 1)) = {SubSeq(s, 1, Len(s) - 1)[i] : i \in 1..Len(s) - 1}
  BY <1>2, RangeEquality
<1> QED
  BY <1>1, <1>2, <1>3, <1>4

LEMMA InHandNames == Local => InHand \subseteq Names
<1> SUFFICES ASSUME Local PROVE InHand \subseteq Names
  OBVIOUS
<1>1. paths \in Seq(Names) /\ queue \in Seq(Names)
  BY DEF Local, Typed, TypeOK, PollTypes
<1>2. Range(paths) \subseteq Names /\ Range(queue) \subseteq Names
  BY <1>1, RangeEquality
<1>3. \A p \in Procs : pc[p] = "claim" => item[p] \in Names
  BY DEF Local, Typed, ItemHeld
<1> QED
  BY <1>2, <1>3 DEF InHand

(* Handing over the last known path adds none. *)

LEMMA EnqueueInHand ==
    ASSUME TypeOK, paths # <<>>, EnqueueLast
    PROVE  Range(paths') \union Range(queue') = Range(paths') \union Range(queue) \union {paths[Len(paths)]}
<1>1. paths \in Seq(Names) /\ queue \in Seq(Names) /\ paths[Len(paths)] \in Names
  BY DEF TypeOK, PollTypes
<1> QED
  BY <1>1, RangeAppend DEF EnqueueLast

-----------------------------------------------------------------------------
(* With distinct names a rename moves the one file it is meant for. *)
LEMMA RenameEffect ==
    ASSUME UniqueNames, TypeOK, BaseKept,
           NEW old \in Names, NEW new \in Names, new.base = old.base, new # old,
           NEW c \in linked, name[c] = old, Rename(old, new)
    PROVE  name' = [name EXCEPT ![c] = new] /\ linked' = linked
<1>1. \A d \in Contents : name[d].base = old.base => d = c
  BY DEF UniqueNames, BaseKept, TypeOK, FileTypes
<1>2. At(old) = {c}
  BY <1>1 DEF At, TypeOK, FileTypes
<1>3. At(new) = {}
  BY <1>1 DEF At, TypeOK, FileTypes
<1>4. /\ name' = [d \in Contents |-> IF d \in At(old) THEN new ELSE name[d]]
      /\ linked' = linked \ At(new)
  BY <1>2 DEF Rename
<1> QED
  BY <1>2, <1>3, <1>4 DEF TypeOK, FileTypes

-----------------------------------------------------------------------------
(* The steps of everybody but the processors that are at a file.  They may *)
(* add names that carry no "_inprogress" to the paths.                     *)
LEMMA QuietKeeps ==
    ASSUME Local, ClaimInvariant,
           UNCHANGED <<name, linked, fresh, fd, up>>,
           \A n \in InHand' : n \in InHand \/ (n.inprogress = 0 /\ ~n.done),
           \A p \in Procs :
              \/ pc'[p] = pc[p] /\ item'[p] = item[p]
              \/ pc[p] \notin Owning \union {"close"} /\ pc'[p] \notin Owning /\ up
    PROVE  ClaimInvariant'
<1> USE DEF ClaimInvariant
<1>1. \A p \in Procs, c \in Contents : Owns(p, c)' <=> Owns(p, c)
  BY DEF Owns
<1>2. BaseKept' /\ NothingOverwritten' /\ DownIsIdle'
  BY DEF BaseKept, NothingOverwritten, DownIsIdle
<1>3. PathsBehind'
  <2>1. ASSUME NEW n \in InHand', NEW c \in Contents, NEW p \in Procs, Owns(p, c)
        PROVE  0 < name[c].inprogress
    BY <2>1 DEF Owns, Local, Typed, ItemHeld, Tmp, Names
  <2>2. \A c \in Contents : 0 <= name[c].inprogress
    BY DEF Local, Typed, TypeOK, FileTypes, Names
  <2> QED
    BY <1>1, <2>1, <2>2 DEF PathsBehind
<1>4. OwnersHaveFile'
  BY <1>1 DEF OwnersHaveFile
<1>5. StreamsOwned'
  <2>1. \A p \in Procs : fd[p] \subseteq Contents
    BY DEF Local, Typed, TypeOK, ProcTypes
  <2> QED
    BY <1>1, <2>1 DEF StreamsOwned, Owning
<1>6. ClaimExclusive'
  BY <1>1 DEF ClaimExclusive
<1> QED
  BY <1>2, <1>3, <1>4, <1>5, <1>6

(* A new file is nobody's: the file of a processor with the same name would *)
(* have been there before.                                                  *)
LEMMA NewFileEffect ==
    ASSUME UniqueNames, Local, ClaimInvariant,
           NEW c \in fresh, linked' = linked \union {c}, UNCHANGED <<name, pc, item>>
    PROVE  /\ c \in Contents /\ c \notin linked
           /\ \A p \in Procs, d \in Contents : Owns(p, d)' <=> Owns(p, d)
<1> USE DEF ClaimInvariant
<1>1. c \in Contents /\ c \notin linked
  BY DEF Local, Typed, TypeOK, FileTypes, NothingOverwritten
<1>2. ASSUME NEW p \in Procs, Owns(p, c)' PROVE FALSE
  <2>1. pc[p] \in Owning /\ name[c] = Tmp(item[p])
    BY <1>2 DEF Owns
  <2>2. PICK d \in Contents : d \in linked /\ name[d] = Tmp(item[p])
    BY <2>1 DEF OwnersHaveFile, Owns
  <2>3. d = c
    BY <1>1, <2>1, <2>2 DEF BaseKept, UniqueNames
  <2> QED
    BY <1>1, <2>2, <2>3
<1>3. \A p \in Procs : ~Owns(p, c)
  BY <1>1 DEF Owns
<1> QED
  BY <1>1, <1>2, <1>3 DEF Owns

LEMMA NewFileKeeps ==
    ASSUME UniqueNames, Local, ClaimInvariant,
           NEW c \in fresh, fresh' = fresh \ {c}, linked' = linked \union {c},
           UNCHANGED <<name, up, paths, queue, procVars>>
    PROVE  ClaimInvariant'
<1> USE DEF ClaimInvariant, procVars
<1>1. c \in Contents /\ c \notin linked /\ \A p \in Procs, d \in Contents : Owns(p, d)' <=> Owns(p, d)
  BY NewFileEffect
<1>2. BaseKept' /\ NothingOverwritten' /\ DownIsIdle'
  BY <1>1 DEF BaseKept, NothingOverwritten, DownIsIdle, Local, Typed, TypeOK, FileTypes
<1>3. InHand' = InHand
  BY DEF InHand
<1>4. PathsBehind' /\ OwnersHaveFile'
  BY <1>1, <1>3 DEF PathsBehind, OwnersHaveFile
<1>5. \A p \in Procs : fd[p] \subseteq Contents
  BY DEF Local, Typed, TypeOK, ProcTypes
<1>6. StreamsOwned' /\ ClaimExclusive'
  BY <1>1, <1>5 DEF StreamsOwned, ClaimExclusive
<1> QED
  BY <1>2, <1>4, <1>6

(* At the start nobody owns a file, and the list names each file as it is. *)
LEMMA StartKeeps ==
    ASSUME UniqueNames, Local, ClaimInvariant, Start
    PROVE  ClaimInvariant'
<1> USE DEF ClaimInvariant
<1>1. /\ UNCHANGED <<fileVars, queue, procVars>> /\ ~up /\ up'
      /\ \A p \in Procs : pc[p] = "check"
  BY DEF Start, DownIsIdle
<1>2. \A p \in Procs, c \in Contents : ~Owns(p, c)'
  BY <1>1 DEF Owns, Owning, procVars
<1>3. \A n \in Range(paths') : \E c \in linked : n = name[c] /\ ~name[c].done
  <2>1. PICK order \in SetToSeqs(Listing) : paths' = [i \in 1..Len(order) |-> name[order[i]]]
    BY DEF Start
  <2>2. Listing \subseteq Contents /\ Cardinality(Listing) \in Nat
    BY FilesAssumption, FS_Subset, FS_CardinalityType DEF Listing, Local, Typed, TypeOK, FileTypes
  <2>3. order \in [1..Cardinality(Listing) -> Listing] /\ Len(order) = Cardinality(Listing)
    BY <2>2 DEF SetToSeqs
  <2>4. \A i \in 1..Len(order) : order[i] \in Listing
    BY <2>3
  <2>5. \A n \in Range(paths') : \E i \in 1..Len(order) : n = name[order[i]]
    BY <2>1, <2>2, <2>3 DEF Range
  <2> QED
    BY <2>4, <2>5 DEF Listing, ShouldAdd
<1>4. \A n \in InHand' : n \in Range(paths') \/ n \in InHand
  BY <1>1 DEF InHand, procVars
<1>5. PathsBehind'
  <2>1. ASSUME NEW n \in Range(paths')
        PROVE  /\ ~n.done
               /\ \A c \in Contents : BaseOf[c] = n.base => n.inprogress <= name[c].inprogress
    <3>1. PICK d \in linked : n = name[d] /\ ~name[d].done
      BY <1>3
    <3>2. d \in Contents /\ name[d] \in Names
      BY DEF Local, Typed, TypeOK, FileTypes
    <3>3. \A c \in Contents : BaseOf[c] = n.base => c = d
      BY <3>1, <3>2 DEF BaseKept, UniqueNames
    <3>4. n.inprogress \in Nat
      BY <3>1, <3>2 DEF Names
    <3> QED
      BY <3>1, <3>3, <3>4
  <2> QED
    BY <1>1, <1>2, <1>4, <2>1 DEF PathsBehind, fileVars
<1>6. BaseKept' /\ NothingOverwritten' /\ DownIsIdle'
  BY <1>1 DEF BaseKept, NothingOverwritten, DownIsIdle, fileVars, procVars
<1>7. OwnersHaveFile' /\ StreamsOwned' /\ ClaimExclusive'
  BY <1>1, <1>2 DEF OwnersHaveFile, StreamsOwned, ClaimExclusive, Owning, procVars
<1> QED
  BY <1>5, <1>6, <1>7

LEMMA ForgetKeeps ==
    ASSUME Local, ClaimInvariant, Forget
    PROVE  ClaimInvariant'
<1> USE DEF ClaimInvariant
<1>1. /\ UNCHANGED fileVars /\ paths' = <<>> /\ queue' = <<>> /\ ~up'
      /\ \A p \in Procs : pc'[p] = "check" /\ fd'[p] = {}
  BY DEF Forget
<1>2. InHand' = {}
  BY <1>1 DEF InHand, Range
<1>3. \A p \in Procs, c \in Contents : ~Owns(p, c)'
  BY <1>1 DEF Owns, Owning
<1>4. BaseKept' /\ NothingOverwritten' /\ DownIsIdle' /\ PathsBehind'
  BY <1>1, <1>2 DEF BaseKept, NothingOverwritten, DownIsIdle, PathsBehind, fileVars
<1>5. OwnersHaveFile' /\ StreamsOwned' /\ ClaimExclusive'
  BY <1>1, <1>3 DEF OwnersHaveFile, StreamsOwned, ClaimExclusive, Owning
<1> QED
  BY <1>4, <1>5

-----------------------------------------------------------------------------
(* The steps of a processor at its file. *)

(* What the rename of a claim and of an archive does, to which file, and    *)
(* who owns a file afterwards.                                              *)
TakesFile(p, c) ==
    /\ c \in linked /\ name[c] = item[p] /\ ~name[c].done
    /\ linked' = linked
    /\ name'[c] = Tmp(item[p]) /\ \A d \in Contents : d # c => name'[d] = name[d]
    /\ \A q \in Procs : ~Owns(q, c)
    /\ \A q \in Procs, d \in Contents : Owns(q, d)' <=> Owns(q, d) \/ (q = p /\ d = c)

GivesFileBack(p, c) ==
    /\ c \in linked /\ name[c] = Tmp(item[p]) /\ Owns(p, c) /\ ~item[p].done
    /\ linked' = linked
    /\ name'[c] = Done(item[p]) /\ \A d \in Contents : d # c => name'[d] = name[d]
    /\ \A q \in Procs, d \in Contents : Owns(q, d)' <=> Owns(q, d) /\ q # p
    /\ \A q \in Procs : ~Owns(q, c)'

(* The file that a claim takes had no owner, because an owner's file has a  *)
(* longer name than any path that is still in hand.                         *)
LEMMA ClaimEffect ==
    ASSUME UniqueNames, Local, ClaimInvariant, NEW p \in Procs, Claim(p)
    PROVE  \E c \in Contents : TakesFile(p, c)
<1> USE DEF ClaimInvariant
<1> DEFINE n == item[p]
<1>1. /\ pc[p] = "claim" /\ pc' = [pc EXCEPT ![p] = "open"] /\ up /\ At(n) # {} /\ Rename(n, Tmp(n))
      /\ UNCHANGED item
  BY DEF Claim, ProcGoto
<1>2. n \in Names /\ n \in InHand /\ ~n.done /\ n.inprogress \in Nat
  BY <1>1 DEF Local, Typed, ItemHeld, InHand, PathsBehind, Names
<1>3. PICK c \in linked : name[c] = n
  BY <1>1 DEF At
<1>4. c \in Contents
  BY DEF Local, Typed, TypeOK, FileTypes
<1>5. Tmp(n) \in Names /\ Tmp(n).base = n.base /\ Tmp(n) # n /\ Tmp(n).inprogress = n.inprogress + 1
  BY <1>2, NameShapes DEF Tmp, Names
<1>6. name' = [name EXCEPT ![c] = Tmp(n)] /\ linked' = linked
  BY <1>1, <1>2, <1>3, <1>5, RenameEffect DEF Local, Typed
<1>7. \A d \in Contents : name[d].base = n.base => d = c
  BY <1>3, <1>4 DEF UniqueNames, BaseKept
<1>8. /\ name'[c] = Tmp(n)
      /\ \A d \in Contents : d # c => name'[d] = name[d]
  BY <1>4, <1>6 DEF Local, Typed, TypeOK, FileTypes
<1>9. /\ pc'[p] = "open" /\ \A q \in Procs : q # p => pc'[q] = pc[q]
  BY <1>1 DEF Local, Typed, TypeOK, ProcTypes
<1>10. \A q \in Procs : ~Owns(q, c)
  BY <1>2, <1>3, <1>4 DEF PathsBehind, BaseKept
<1>11. \A q \in Procs : q # p => ~Owns(q, c)'
  <2>1. SUFFICES ASSUME NEW q \in Procs, q # p, Owns(q, c)' PROVE FALSE
    OBVIOUS
  <2>2. pc[q] \in Owning /\ Tmp(item[q]) = Tmp(n)
    BY <1>1, <1>8, <1>9, <2>1 DEF Owns
  <2>3. PICK d \in Contents : Owns(q, d)
    BY <2>2 DEF OwnersHaveFile
  <2>4. name[d] = Tmp(n)
    BY <2>2, <2>3 DEF Owns
  <2> QED
    BY <1>5, <1>7, <1>10, <2>3, <2>4
<1>12. \A q \in Procs, d \in Contents : q # p => (Owns(q, d)' <=> Owns(q, d))
  BY <1>1, <1>6, <1>8, <1>9, <1>10, <1>11 DEF Owns
<1>13. \A d \in Contents : Owns(p, d)' <=> d = c
  <2>1. \A d \in Contents : d # c => name[d] # Tmp(n)
    BY <1>5, <1>7
  <2> QED
    BY <1>1, <1>3, <1>6, <1>8, <1>9, <2>1 DEF Owns, Owning
<1>14. \A d \in Contents : ~Owns(p, d)
  BY <1>1 DEF Owns, Owning
<1> QED
  BY <1>2, <1>3, <1>4, <1>6, <1>8, <1>10, <1>12, <1>13, <1>14 DEF TakesFile

LEMMA ArchiveEffect ==
    ASSUME UniqueNames, Local, ClaimInvariant, NEW p \in Procs, Archive(p)
    PROVE  \E c \in Contents : GivesFileBack(p, c)
<1> USE DEF ClaimInvariant
<1> DEFINE n == item[p]
<1>1. /\ pc[p] = "archive" /\ pc' = [pc EXCEPT ![p] = "close"] /\ up /\ Rename(Tmp(n), Done(n))
      /\ UNCHANGED item
  BY DEF Archive, ProcGoto
<1>2. n \in Names /\ ~n.done /\ n.inprogress \in Nat
  BY <1>1 DEF Local, Typed, ItemHeld, OwnersHaveFile, Names, Owning
<1>3. PICK c \in Contents : Owns(p, c)
  BY <1>1 DEF OwnersHaveFile, Owning
<1>4. c \in linked /\ name[c] = Tmp(n)
  BY <1>3 DEF Owns
<1>5. /\ Tmp(n) \in Names /\ Done(n) \in Names /\ Done(n).base = Tmp(n).base /\ Done(n) # Tmp(n)
      /\ Done(n).done
  BY <1>2, NameShapes DEF Tmp, Done, Names
<1>6. name' = [name EXCEPT ![c] = Done(n)] /\ linked' = linked
  BY <1>1, <1>4, <1>5, RenameEffect DEF Local, Typed
<1>7. /\ name'[c] = Done(n)
      /\ \A d \in Contents : d # c => name'[d] = name[d]
  BY <1>6 DEF Local, Typed, TypeOK, FileTypes
<1>8. /\ pc'[p] = "close" /\ \A q \in Procs : q # p => pc'[q] = pc[q]
  BY <1>1 DEF Local, Typed, TypeOK, ProcTypes
<1>9. \A q \in Procs : ~Owns(q, c)'
  <2>1. SUFFICES ASSUME NEW q \in Procs, Owns(q, c)' PROVE FALSE
    OBVIOUS
  <2>2. q # p /\ pc[q] \in Owning /\ Done(n) = Tmp(item[q])
    BY <1>1, <1>7, <1>8, <2>1 DEF Owns, Owning
  <2>3. ~Tmp(item[q]).done
    BY <2>2 DEF OwnersHaveFile, Tmp
  <2> QED
    BY <1>5, <2>2, <2>3
<1>10. \A q \in Procs : q # p => ~Owns(q, c)
  BY <1>3 DEF ClaimExclusive
<1>11. \A q \in Procs, d \in Contents : q # p => (Owns(q, d)' <=> Owns(q, d))
  BY <1>1, <1>6, <1>7, <1>8, <1>9, <1>10 DEF Owns
<1>12. \A d \in Contents : ~Owns(p, d)'
  BY <1>8 DEF Owns, Owning
<1> QED
  BY <1>2, <1>3, <1>4, <1>6, <1>7, <1>9, <1>11, <1>12 DEF GivesFileBack

LEMMA ClaimKeeps ==
    ASSUME UniqueNames, Local, ClaimInvariant, NEW p \in Procs, Claim(p)
    PROVE  ClaimInvariant'
<1> USE DEF ClaimInvariant
<1> DEFINE n == item[p]
<1>1. /\ pc[p] = "claim" /\ up
      /\ UNCHANGED <<fresh, up, paths, queue, item, fd>>
      /\ pc'[p] = "open" /\ \A q \in Procs : q # p => pc'[q] = pc[q]
  BY DEF Claim, ProcGoto, pollVars, mainVars, Local, Typed, TypeOK, ProcTypes
<1>2. n \in Names /\ n.inprogress \in Nat
  BY <1>1 DEF Local, Typed, ItemHeld, Names
<1>3. PICK c \in Contents : TakesFile(p, c)
  BY ClaimEffect
<1> USE DEF TakesFile
<1>4. Tmp(n).base = n.base /\ Tmp(n).inprogress = n.inprogress + 1 /\ ~Tmp(n).done /\ ~n.done
  BY <1>2, <1>3 DEF Tmp, Names
<1>5. BaseKept' /\ NothingOverwritten' /\ DownIsIdle'
  BY <1>1, <1>3, <1>4 DEF BaseKept, NothingOverwritten, DownIsIdle
<1>6. PathsBehind'
  <2>1. InHand' \subseteq InHand
    BY <1>1 DEF InHand
  <2>2. ASSUME NEW m \in InHand, BaseOf[c] = m.base
        PROVE  m.inprogress < name'[c].inprogress /\ m.inprogress <= name'[c].inprogress
    <3>1. m.inprogress <= n.inprogress
      BY <1>3, <2>2 DEF PathsBehind
    <3>2. m.inprogress \in Nat
      BY InHandNames DEF Names
    <3> QED
      BY <1>2, <1>3, <1>4, <3>1, <3>2
  <2>3. \A m \in InHand, d \in Contents, q \in Procs : Owns(q, d)' /\ d # c => Owns(q, d)
    BY <1>3
  <2> QED
    BY <1>3, <2>1, <2>2, <2>3 DEF PathsBehind
<1>7. OwnersHaveFile'
  BY <1>1, <1>3, <1>4 DEF OwnersHaveFile
<1>8. StreamsOwned'
  <2>1. \A q \in Procs : fd[q] \subseteq Contents
    BY DEF Local, Typed, TypeOK, ProcTypes
  <2>2. fd[p] = {}
    BY <1>1, <2>1 DEF StreamsOwned
  <2>3. ASSUME NEW q \in Procs, q # p, NEW d \in fd[q] PROVE d # c \/ pc[q] # "close"
    BY <1>3 DEF StreamsOwned
  <2> QED
    BY <1>1, <1>3, <2>1, <2>2, <2>3 DEF StreamsOwned
<1>9. ClaimExclusive'
  BY <1>1, <1>3 DEF ClaimExclusive
<1> QED
  BY <1>5, <1>6, <1>7, <1>8, <1>9

(* While a processor keeps its file open, what it owns does not change; the *)
(* stream that it opens is of the file it owns.                             *)
LEMMA StreamKeeps ==
    ASSUME UniqueNames, Local, ClaimInvariant, NEW p \in Procs,
           Open(p) \/ Row(p) \/ UnableToLoad(p) \/ EndOfFile(p)
    PROVE  ClaimInvariant'
<1> USE DEF ClaimInvariant
<1>1. /\ UNCHANGED <<fileVars, up, paths, queue, item>> /\ up
      /\ pc[p] \in {"open", "rows"} /\ pc'[p] \in {"rows", "archive"}
      /\ \A q \in Procs : q # p => pc'[q] = pc[q] /\ fd'[q] = fd[q]
      /\ fd'[p] = fd[p] \/ fd'[p] \subseteq At(Tmp(item[p]))
  <2>1. pc \in [Procs -> {"check", "dequeue", "claim", "open", "rows", "archive", "close", "exit"}]
        /\ fd \in [Procs -> SUBSET Contents]
    BY DEF Local, Typed, TypeOK, ProcTypes
  <2>2. CASE Open(p)
    BY <2>1, <2>2 DEF Open, ProcGoto, pollVars, mainVars
  <2>3. CASE Row(p)
    BY <2>1, <2>3 DEF Row, ProcGoto, pollVars, mainVars
  <2>4. CASE EndOfFile(p)
    BY <2>1, <2>4 DEF EndOfFile, ProcGoto, pollVars, mainVars
  <2>5. CASE UnableToLoad(p)
    BY <2>1, <2>5 DEF UnableToLoad, ProcGoto, pollVars, mainVars
  <2> QED
    BY <2>2, <2>3, <2>4, <2>5
<1>2. \A q \in Procs, d \in Contents : Owns(q, d)' <=> Owns(q, d)
  BY <1>1 DEF Owns, Owning, fileVars
<1>3. InHand' = InHand
  BY <1>1 DEF InHand
<1>4. BaseKept' /\ NothingOverwritten' /\ DownIsIdle' /\ PathsBehind' /\ OwnersHaveFile'
  BY <1>1, <1>2, <1>3
     DEF BaseKept, NothingOverwritten, DownIsIdle, PathsBehind, OwnersHaveFile, Owning, fileVars
<1>5. ~item[p].done /\ \A d \in Contents : d \in At(Tmp(item[p])) => Owns(p, d)
  BY <1>1 DEF OwnersHaveFile, At, Owns, Owning
<1>6. \A q \in Procs : fd[q] \subseteq Contents /\ fd'[q] \subseteq Contents
  BY <1>1 DEF Local, Typed, TypeOK, ProcTypes, At, FileTypes
<1>7. \A d \in fd'[p] : Owns(p, d)
  BY <1>1, <1>5, <1>6 DEF StreamsOwned
<1>8. StreamsOwned'
  BY <1>1, <1>2, <1>6, <1>7 DEF StreamsOwned, fileVars
<1>9. \A q \in Procs : q # p => fd[q] \intersect fd'[p] = {}
  <2>1. SUFFICES ASSUME NEW q \in Procs, q # p, NEW d \in fd[q], d \in fd'[p] PROVE FALSE
    OBVIOUS
  <2>2. Owns(p, d) /\ d \in Contents /\ ~name[d].done
    BY <1>5, <1>6, <1>7, <2>1 DEF Owns, Tmp
  <2> QED
    BY <2>1, <2>2 DEF StreamsOwned, ClaimExclusive
<1>10. ClaimExclusive'
  BY <1>1, <1>2, <1>9 DEF ClaimExclusive
<1> QED
  BY <1>4, <1>8, <1>10

(* The archive: the file loses one suffix, and the paths in hand had at     *)
(* least one less.                                                          *)
LEMMA ArchiveKeeps ==
    ASSUME UniqueNames, Local, ClaimInvariant, NEW p \in Procs, Archive(p)
    PROVE  ClaimInvariant'
<1> USE DEF ClaimInvariant
<1> DEFINE n == item[p]
<1>1. /\ pc[p] = "archive" /\ up
      /\ UNCHANGED <<fresh, up, paths, queue, item, fd>>
      /\ pc'[p] = "close" /\ \A q \in Procs : q # p => pc'[q] = pc[q]
  BY DEF Archive, ProcGoto, pollVars, mainVars, Local, Typed, TypeOK, ProcTypes
<1>2. n \in Names /\ n.inprogress \in Nat
  BY <1>1 DEF Local, Typed, ItemHeld, Names, Owning
<1>3. PICK c \in Contents : GivesFileBack(p, c)
  BY ArchiveEffect
<1> USE DEF GivesFileBack
<1>4. /\ Done(n).base = Tmp(n).base /\ Done(n).done /\ Done(n).inprogress = n.inprogress
      /\ Tmp(n).inprogress = n.inprogress + 1
  BY <1>2 DEF Tmp, Done, Names
<1>5. BaseKept' /\ NothingOverwritten' /\ DownIsIdle'
  BY <1>1, <1>3, <1>4 DEF BaseKept, NothingOverwritten, DownIsIdle
<1>6. PathsBehind'
  <2>1. InHand' \subseteq InHand /\ \A m \in InHand : m.inprogress \in Nat
    BY <1>1, InHandNames DEF InHand, Names
  <2>2. ASSUME NEW m \in InHand, BaseOf[c] = m.base
        PROVE  m.inprogress <= name'[c].inprogress
    <3>1. m.inprogress < n.inprogress + 1
      BY <1>3, <1>4, <2>2 DEF PathsBehind
    <3> QED
      BY <1>2, <1>3, <1>4, <2>1, <3>1
  <2>3. \A q \in Procs, d \in Contents : Owns(q, d)' => d # c /\ Owns(q, d)
    BY <1>3
  <2> QED
    BY <1>3, <2>1, <2>2, <2>3 DEF PathsBehind
<1>7. OwnersHaveFile'
  BY <1>1, <1>3 DEF OwnersHaveFile, Owning
<1>8. StreamsOwned'
  <2>1. \A q \in Procs : fd[q] \subseteq Contents
    BY DEF Local, Typed, TypeOK, ProcTypes
  <2>2. \A d \in Contents : Owns(p, d) => d = c
    BY <1>3 DEF Owns, BaseKept, UniqueNames
  <2>3. \A d \in fd[p] : name'[d].done
    BY <1>1, <1>3, <1>4, <2>1, <2>2 DEF StreamsOwned
  <2>4. \A d \in Contents : name[d].done => name'[d].done
    BY <1>3, <1>4
  <2> QED
    BY <1>1, <1>3, <2>1, <2>3, <2>4 DEF StreamsOwned
<1>9. ClaimExclusive'
  BY <1>1, <1>3 DEF ClaimExclusive
<1> QED
  BY <1>5, <1>6, <1>7, <1>8, <1>9

LEMMA CloseKeeps ==
    ASSUME Local, ClaimInvariant, NEW p \in Procs, Close(p)
    PROVE  ClaimInvariant'
<1> USE DEF ClaimInvariant
<1>1. /\ UNCHANGED <<fileVars, up, paths, queue>> /\ up
      /\ pc[p] = "close" /\ pc'[p] = "check" /\ fd'[p] = {}
      /\ \A q \in Procs : q # p => pc'[q] = pc[q] /\ fd'[q] = fd[q] /\ item'[q] = item[q]
  BY DEF Close, ProcGoto, pollVars, mainVars, Local, Typed, TypeOK, ProcTypes
<1>2. \A q \in Procs, d \in Contents : Owns(q, d)' <=> Owns(q, d)
  BY <1>1 DEF Owns, Owning, fileVars
<1>3. InHand' = InHand
  BY <1>1 DEF InHand
<1>4. BaseKept' /\ NothingOverwritten' /\ DownIsIdle' /\ PathsBehind'
  BY <1>1, <1>2, <1>3 DEF BaseKept, NothingOverwritten, DownIsIdle, PathsBehind, fileVars
<1>5. OwnersHaveFile'
  BY <1>1, <1>2 DEF OwnersHaveFile, Owning
<1>6. \A q \in Procs : fd[q] \subseteq Contents
  BY DEF Local, Typed, TypeOK, ProcTypes
<1>7. StreamsOwned' /\ ClaimExclusive'
  BY <1>1, <1>2, <1>6 DEF StreamsOwned, ClaimExclusive, fileVars
<1> QED
  BY <1>4, <1>5, <1>7

-----------------------------------------------------------------------------
(* The other steps are quiet. *)

LEMMA OutsideKeeps ==
    ASSUME Local, ClaimInvariant,
           \/ \E c \in Contents : CloseWrite(c) \/ CloseRead(c)
           \/ Interrupt \/ SignalThread \/ PollerCheck \/ PollWatch \/ SelectNothing \/ SelectRead
           \/ UNCHANGED vars
    PROVE  ClaimInvariant'
<1>1. UNCHANGED <<name, linked, fresh, fd, up, pc, item, paths, queue>>
  BY DEF CloseWrite, CloseRead, Interrupt, SignalThread, PollerCheck, PollWatch, SelectNothing,
         SelectRead, vars, fileVars, mainVars, pollVars, procVars
<1>2. InHand' = InHand
  BY <1>1 DEF InHand
<1> QED
  BY <1>1, <1>2, QuietKeeps

(* A path that the poller hands over was in hand already. *)
LEMMA EnqueueKeeps ==
    ASSUME Local, ClaimInvariant, paths # <<>>, EnqueueLast,
           UNCHANGED <<fileVars, mainVars, procVars>>
    PROVE  ClaimInvariant'
<1>1. paths \in Seq(Names)
  BY DEF Local, Typed, TypeOK, PollTypes
<1>2. Range(paths') \subseteq Range(paths) /\ paths[Len(paths)] \in Range(paths)
  BY <1>1, RangeFront DEF EnqueueLast
<1>3. InHand' \subseteq InHand
  BY <1>2, EnqueueInHand DEF InHand, Local, Typed, procVars
<1> QED
  BY <1>3, QuietKeeps DEF fileVars, mainVars, procVars

(* A path that an event adds is a name without "_inprogress". *)
LEMMA HandleEventKeeps ==
    ASSUME Local, ClaimInvariant, HandleEvent
    PROVE  ClaimInvariant'
<1> DEFINE e == Head(buf)
<1>1. UNCHANGED <<fileVars, mainVars, queue, procVars>>
  BY DEF HandleEvent
<1>2. paths \in Seq(Names) /\ e.name \in Names
  <2>1. paths \in Seq(Names) /\ buf \in Seq(Events) /\ buf # <<>>
    BY DEF HandleEvent, Local, Typed, TypeOK, PollTypes
  <2>2. Head(buf) \in Events
    BY <2>1, HeadTailProperties
  <2> QED
    BY <2>1, <2>2 DEF Events

<1>3. CASE Relevant(e)
  <2>1. Range(paths') = Range(paths) \union {e.name}
    BY <1>2, <1>3, RangeAppend DEF HandleEvent
  <2>2. e.name.inprogress = 0 /\ ~e.name.done
    BY <1>3 DEF Relevant, ShouldAdd
  <2>3. \A n \in InHand' : n \in InHand \/ n = e.name
    BY <1>1, <2>1 DEF InHand, procVars
  <2> QED
    BY <1>1, <2>2, <2>3, QuietKeeps DEF fileVars, mainVars, procVars
<1>4. CASE ~Relevant(e)
  <2>1. InHand' = InHand
    BY <1>1, <1>4 DEF InHand, HandleEvent, procVars
  <2> QED
    BY <1>1, <2>1, QuietKeeps DEF fileVars, mainVars, procVars
<1> QED
  BY <1>3, <1>4

(* A processor that has no file. *)
LEMMA IdleKeeps ==
    ASSUME Local, ClaimInvariant, NEW p \in Procs,
           ProcCheck(p) \/ DequeueTimeout(p) \/ Dequeue(p) \/ ClaimFails(p)
    PROVE  ClaimInvariant'
<1>1. pc \in [Procs -> {"check", "dequeue", "claim", "open", "rows", "archive", "close", "exit"}]
      /\ item \in [Procs -> Names \union {NoName}] /\ queue \in Seq(Names)
  BY DEF Local, Typed, TypeOK, ProcTypes, PollTypes
<1>2. /\ UNCHANGED <<fileVars, fd, up, paths>> /\ up
      /\ pc[p] \in {"check", "dequeue", "claim"}
      /\ pc'[p] \in {"exit", "dequeue", "check", "claim"}
      /\ \A q \in Procs : q # p => pc'[q] = pc[q] /\ item'[q] = item[q]
  BY <1>1 DEF ProcCheck, DequeueTimeout, Dequeue, ClaimFails, ProcGoto, pollVars, mainVars
<1>3. InHand' \subseteq InHand
  <2>1. CASE Dequeue(p)
    <3>1. queue # <<>> /\ queue' = Tail(queue) /\ item'[p] = Head(queue)
      BY <1>1, <2>1 DEF Dequeue
    <3>2. Range(queue) = Range(queue') \union {item'[p]}
      BY <1>1, <3>1, RangeTail
    <3> QED
      BY <1>2, <3>2 DEF InHand
  <2>2. CASE ~Dequeue(p)
    <3>1. queue' = queue /\ pc'[p] # "claim"
      BY <1>1, <2>2 DEF ProcCheck, DequeueTimeout, ClaimFails, ProcGoto
    <3> QED
      BY <1>2, <3>1 DEF InHand
  <2> QED
    BY <2>1, <2>2
<1>4. pc[p] \notin Owning \union {"close"} /\ pc'[p] \notin Owning
  BY <1>2 DEF Owning
<1> QED
  BY <1>2, <1>3, <1>4, QuietKeeps DEF fileVars

LEMMA StepClaim == ASSUME UniqueNames, Local, ClaimInvariant, [Next]_vars PROVE ClaimInvariant'
<1>1. CASE \E c \in Contents : Create(c) \/ MoveIn(c)
  <2>1. PICK c \in fresh : Create(c) \/ MoveIn(c)
    BY <1>1 DEF Create, MoveIn
  <2>2. fresh' = fresh \ {c} /\ linked' = linked \union {c}
        /\ UNCHANGED <<name, up, paths, queue, procVars>>
    BY <2>1 DEF Create, MoveIn, mainVars, pollVars
  <2> QED
    BY <2>2, NewFileKeeps
<1>2. CASE PollKnown \/ (EndOfEvents /\ paths # <<>>)
  BY <1>2, EnqueueKeeps DEF PollKnown, EndOfEvents
<1>3. CASE EndOfEvents /\ paths = <<>>
  <2>1. UNCHANGED <<fileVars, mainVars, paths, queue, procVars>>
    BY <1>3 DEF EndOfEvents
  <2>2. InHand' = InHand
    BY <2>1 DEF InHand, procVars
  <2> QED
    BY <2>1, <2>2, QuietKeeps DEF fileVars, mainVars, procVars
<1>4. ASSUME NEW p \in Procs, ProcNext(p) PROVE ClaimInvariant'
  BY <1>4, IdleKeeps, ClaimKeeps, StreamKeeps, ArchiveKeeps, CloseKeeps DEF ProcNext
<1> QED
  BY <1>1, <1>2, <1>3, <1>4, OutsideKeeps, HandleEventKeeps, StartKeeps, ForgetKeeps
     DEF Next, FileNext, PollerNext, Exit, Crash

LEMMA InitClaim == Init => ClaimInvariant
<1> SUFFICES ASSUME Init PROVE ClaimInvariant
  OBVIOUS
<1>1. InHand = {}
  BY DEF Init, InHand, Range
<1>2. \A p \in Procs, c \in Contents : ~Owns(p, c)
  BY DEF Init, Owns
<1>3. BaseKept
  BY DEF Init, BaseKept, Original
<1> QED
  BY <1>1, <1>2, <1>3
     DEF Init, ClaimInvariant, PathsBehind, OwnersHaveFile, StreamsOwned, DownIsIdle,
         NothingOverwritten, ClaimExclusive, Owning

(* A path in hand is older than every name a processor works under, and no  *)
(* path is newer than its file: each claim finds a file that nobody has.    *)
THEOREM ClaimInvariantHolds == ASSUME UniqueNames PROVE Spec => []ClaimInvariant
<1>1. Local /\ ClaimInvariant /\ [Next]_vars => ClaimInvariant'
  BY StepClaim
<1> QED
  BY <1>1, InitClaim, LocalInvariant, PTL DEF Spec

(* When producers never use a name twice, no file is ever handled by two    *)
(* processors, whatever is enqueued, and however often the process is       *)
(* killed and started.                                                      *)
THEOREM ClaimsAreExclusive == ASSUME UniqueNames PROVE Spec => []ClaimExclusive
<1>1. ClaimInvariant => ClaimExclusive
  BY DEF ClaimInvariant
<1> QED
  BY <1>1, ClaimInvariantHolds, PTL

(* Nor do the renames of claims and archives ever overwrite a file. *)
THEOREM RenamesKeepFiles == ASSUME UniqueNames PROVE Spec => []NothingOverwritten
<1>1. ClaimInvariant => NothingOverwritten
  BY DEF ClaimInvariant
<1> QED
  BY <1>1, ClaimInvariantHolds, PTL
=============================================================================
