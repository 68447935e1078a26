--------------------------- MODULE FileLifeProofs ---------------------------
(***************************************************************************)
(* With distinct file names: what is archived stays so and was read, each  *)
(* run of the process hands a row on at most once, and FilePipeline        *)
(* implements FileLifecycle.  A file that the poller knows is not          *)
(* forgotten, as long as the kernel's queue of events does not fill up and *)
(* no file is renamed into the directory.                                  *)
(***************************************************************************)
EXTENDS FilePipelineProofs

-----------------------------------------------------------------------------
(* The kinds of steps.  Most of them leave the files and the processors     *)
(* that have one alone.                                                     *)

OwnersStay == \A q \in Procs, d \in Contents : Owns(q, d)' <=> Owns(q, d)

Aside ==
    /\ OwnersStay
    /\ UNCHANGED <<name, attempts, stopped>>
    /\ linked' = linked \/ \E c \in Contents \ linked : linked' = linked \union {c} /\ c \in fresh
    /\ fresh' \subseteq fresh
    /\ \A q \in Procs : \/ pc'[q] = pc[q] /\ fd'[q] = fd[q] /\ pos'[q] = pos[q]
                        \/ pc[q] \notin Owning /\ pc'[q] \notin Owning

LEMMA OutsideAside ==
    ASSUME UniqueNames, Local, ClaimInvariant,
           \/ \E c \in Contents : FileNext(c)
           \/ Interrupt \/ SignalThread \/ PollerNext \/ UNCHANGED vars
    PROVE  Aside /\ UNCHANGED <<up, run>>
<1>1. UNCHANGED <<name, attempts, stopped, procVars, up, run>>
  BY DEF FileNext, Create, CloseWrite, MoveIn, CloseRead, Interrupt, SignalThread, PollerNext,
         PollerCheck, PollKnown, PollWatch, SelectNothing, SelectRead, HandleEvent, EndOfEvents,
         vars, fileVars, mainVars, histVars
<1>2. \/ UNCHANGED <<linked, fresh>>
      \/ \E c \in fresh : linked' = linked \union {c} /\ fresh' = fresh \ {c}
  BY DEF FileNext, Create, CloseWrite, MoveIn, CloseRead, Interrupt, SignalThread, PollerNext,
         PollerCheck, PollKnown, PollWatch, SelectNothing, SelectRead, HandleEvent, EndOfEvents,
         vars, fileVars
<1>3. CASE UNCHANGED <<linked, fresh>>
  BY <1>1, <1>3 DEF Aside, OwnersStay, Owns, procVars
<1>4. ASSUME NEW c \in fresh, linked' = linked \union {c}, fresh' = fresh \ {c} PROVE Aside
  BY <1>1, <1>4, NewFileEffect DEF Aside, OwnersStay, procVars
<1> QED
  BY <1>1, <1>2, <1>3, <1>4

LEMMA StartAside == ASSUME Local, ClaimInvariant, Start PROVE Aside
BY DEF Start, Aside, OwnersStay, Owns, fileVars, procVars

LEMMA IdleAside ==
    ASSUME Local, ClaimInvariant, NEW p \in Procs,
           ProcCheck(p) \/ DequeueTimeout(p) \/ Dequeue(p) \/ ClaimFails(p) \/ Close(p)
    PROVE  Aside /\ UNCHANGED <<up, run>>
<1>1. /\ UNCHANGED <<fileVars, attempts, stopped, up, run>>
      /\ pc[p] \notin Owning /\ pc'[p] \notin Owning
      /\ \A q \in Procs : q # p => /\ pc'[q] = pc[q] /\ item'[q] = item[q]
                                   /\ fd'[q] = fd[q] /\ pos'[q] = pos[q]
  BY DEF ProcCheck, DequeueTimeout, Dequeue, ClaimFails, Close, ProcGoto, Owning, mainVars,
         histVars, Local, Typed, TypeOK, ProcTypes
<1> QED
  BY <1>1 DEF Aside, OwnersStay, Owns, fileVars

LEMMA StepKinds ==
    ASSUME UniqueNames, Local, ClaimInvariant, [Next]_vars
    PROVE  \/ \E p \in Procs : \/ Claim(p) \/ Open(p) \/ Row(p) \/ UnableToLoad(p)
                              \/ EndOfFile(p) \/ Archive(p)
           \/ Forget /\ up
           \/ Start /\ Aside
           \/ Aside /\ UNCHANGED <<up, run>>
BY OutsideAside, StartAside, IdleAside DEF Next, ProcNext, Exit, Crash

LEMMA StreamStep ==
    ASSUME Local, NEW p \in Procs, Open(p) \/ Row(p) \/ UnableToLoad(p) \/ EndOfFile(p)
    PROVE  /\ OwnersStay /\ UNCHANGED <<fileVars, up, run, item>>
           /\ pc[p] \in {"open", "rows"} /\ pc'[p] \in {"rows", "archive"}
           /\ \A q \in Procs : q # p => pc'[q] = pc[q] /\ fd'[q] = fd[q] /\ pos'[q] = pos[q]
<1>1. pc \in [Procs -> {"check", "dequeue", "claim", "open", "rows", "archive", "close", "exit"}]
      /\ fd \in [Procs -> SUBSET Contents] /\ pos \in [Procs -> 0..Rows]
  BY DEF Local, Typed, TypeOK, ProcTypes
<1>2. /\ UNCHANGED <<fileVars, up, run, item>>
      /\ pc[p] \in {"open", "rows"} /\ pc'[p] \in {"rows", "archive"}
      /\ \A q \in Procs : q # p => pc'[q] = pc[q] /\ fd'[q] = fd[q] /\ pos'[q] = pos[q]
  <2>1. CASE Open(p)
    BY <1>1, <2>1 DEF Open, ProcGoto, mainVars
  <2>2. CASE Row(p)
    BY <1>1, <2>2 DEF Row, ProcGoto, mainVars
  <2>3. CASE EndOfFile(p)
    BY <1>1, <2>3 DEF EndOfFile, ProcGoto, mainVars
  <2>4. CASE UnableToLoad(p)
    BY <1>1, <2>4 DEF UnableToLoad, ProcGoto, mainVars
  <2> QED
    BY <2>1, <2>2, <2>3, <2>4
<1> QED
  BY <1>2 DEF OwnersStay, Owns, Owning, fileVars

LEMMA ClaimStep ==
    ASSUME Local, NEW p \in Procs, Claim(p)
    PROVE  /\ UNCHANGED <<attempts, stopped, up, run, fd, pos, fresh>> /\ up
           /\ pc[p] = "claim" /\ pc'[p] = "open" /\ \A q \in Procs : q # p => pc'[q] = pc[q]
BY DEF Claim, ProcGoto, mainVars, histVars, Local, Typed, TypeOK, ProcTypes

LEMMA ArchiveStep ==
    ASSUME Local, NEW p \in Procs, Archive(p)
    PROVE  /\ UNCHANGED <<attempts, stopped, up, run, fd, pos, fresh>> /\ up
           /\ pc[p] = "archive" /\ pc'[p] = "close" /\ \A q \in Procs : q # p => pc'[q] = pc[q]
BY DEF Archive, ProcGoto, mainVars, histVars, Local, Typed, TypeOK, ProcTypes

LEMMA ForgetStep ==
    ASSUME Forget
    PROVE  /\ UNCHANGED <<fileVars, run, attempts, stopped>> /\ up' = FALSE
           /\ \A q \in Procs : pc'[q] = "check" /\ \A c \in Contents : ~Owns(q, c)'
BY DEF Forget, Owns, Owning

(* What a processor has, with distinct names. *)
LEMMA Ownership ==
    ASSUME UniqueNames, Local, ClaimInvariant
    PROVE  /\ \A p \in Procs, c, d \in Contents : Owns(p, c) /\ Owns(p, d) => c = d
           /\ \A p, q \in Procs, c \in Contents : Owns(p, c) /\ Owns(q, c) => p = q
           /\ \A p \in Procs, c \in Contents : Owns(p, c) => ~name[c].done
           /\ \A p \in Procs : pc[p] = "rows" => \A c \in fd[p] : Owns(p, c)
           /\ \A p \in Procs : fd[p] \subseteq Contents
<1> USE DEF ClaimInvariant
<1>1. \A p \in Procs, c, d \in Contents : Owns(p, c) /\ Owns(p, d) => c = d
  BY DEF Owns, BaseKept, UniqueNames
<1>2. \A p, q \in Procs, c \in Contents : Owns(p, c) /\ Owns(q, c) => p = q
  BY DEF ClaimExclusive
<1>3. \A p \in Procs, c \in Contents : Owns(p, c) => ~name[c].done
  BY DEF OwnersHaveFile, Owns, Tmp
<1>4. \A p \in Procs : fd[p] \subseteq Contents
  BY DEF Local, Typed, TypeOK, ProcTypes
<1>5. \A p \in Procs : pc[p] = "rows" => \A c \in fd[p] : Owns(p, c)
  BY DEF StreamsOwned
<1> QED
  BY <1>1, <1>2, <1>3, <1>4, <1>5

-----------------------------------------------------------------------------
(* An archived file is left alone. *)

Final(c) == name[c].done => c \in linked' /\ name'[c] = name[c] /\ attempts'[c] = attempts[c]

LEMMA StepFinal ==
    ASSUME UniqueNames, Local, ClaimInvariant, [Next]_vars, NEW c \in linked
    PROVE  Final(c)
<1>1. c \in Contents /\ attempts \in [Contents -> [1..Rows -> Nat]]
  BY DEF Local, Typed, TypeOK, FileTypes, HistTypes
<1>2. ASSUME NEW p \in Procs, Claim(p) PROVE Final(c)
  BY <1>1, <1>2, ClaimEffect, ClaimStep DEF TakesFile, Final
<1>3. ASSUME NEW p \in Procs, Archive(p) PROVE Final(c)
  <2>1. PICK d \in Contents : GivesFileBack(p, d)
    BY <1>3, ArchiveEffect
  <2>2. ~name[d].done
    BY <2>1 DEF GivesFileBack, Tmp
  <2> QED
    BY <1>1, <1>3, <2>1, <2>2, ArchiveStep DEF GivesFileBack, Final
<1>4. ASSUME NEW p \in Procs, Open(p) \/ UnableToLoad(p) \/ EndOfFile(p) PROVE Final(c)
  BY <1>4, StreamStep DEF Open, UnableToLoad, EndOfFile, Final, fileVars
<1>5. ASSUME NEW p \in Procs, Row(p) PROVE Final(c)
  <2>1. pc[p] = "rows" /\ UNCHANGED fileVars
    BY <1>5, StreamStep DEF Row, ProcGoto
  <2>2. name[c].done => c \notin fd[p]
    BY <1>1, <2>1, Ownership
  <2>3. c \notin fd[p] => attempts'[c] = attempts[c]
    BY <1>1, <1>5 DEF Row
  <2> QED
    BY <2>1, <2>2, <2>3 DEF Final, fileVars
<1>6. CASE Forget
  BY <1>6, ForgetStep DEF Final, fileVars
<1>7. CASE Aside
  BY <1>1, <1>7 DEF Aside, Final
<1> QED
  BY <1>2, <1>3, <1>4, <1>5, <1>6, <1>7, StepKinds

(* Nobody renames an archived file or hands on its rows again, in this run  *)
(* of the process or in a later one.                                        *)
THEOREM ArchiveIsFinal == ASSUME UniqueNames PROVE Spec => ArchivedIsFinal
<1>1. Local /\ ClaimInvariant /\ [Next]_vars =>
          [\A c \in linked : name[c].done =>
              c \in linked' /\ name'[c] = name[c] /\ attempts'[c] = attempts[c]]_vars
  BY StepFinal DEF Final
<1> QED
  BY <1>1, LocalInvariant, ClaimInvariantHolds, PTL DEF Spec, ArchivedIsFinal

-----------------------------------------------------------------------------
(* Each run hands a row on at most once: a row that may still be handed on  *)
(* in this run has been handed on in earlier runs only.                     *)

MayRead(c, r) ==
    /\ up /\ ~name[c].done
    /\ \A p \in Procs : Owns(p, c) => pc[p] = "open" \/ (pc[p] = "rows" /\ pos[p] < r)

AttemptInvariant ==
    \A c \in Contents, r \in 1..Rows :
        attempts[c][r] <= run /\ (MayRead(c, r) => attempts[c][r] < run)

LEMMA InitAttempts == Init => AttemptInvariant
BY DEF Init, AttemptInvariant, MayRead

(* A row that is not handed on: it may be afterwards only if it was before. *)
LEMMA AttemptsKept ==
    ASSUME AttemptInvariant, UNCHANGED run, NEW c \in Contents, NEW r \in 1..Rows,
           attempts'[c][r] = attempts[c][r], MayRead(c, r)' => MayRead(c, r)
    PROVE  attempts'[c][r] <= run' /\ (MayRead(c, r)' => attempts'[c][r] < run')
BY DEF AttemptInvariant

LEMMA StepAttempts ==
    ASSUME UniqueNames, Local, ClaimInvariant, AttemptInvariant, [Next]_vars
    PROVE  AttemptInvariant'
<1> SUFFICES ASSUME NEW c \in Contents, NEW r \in 1..Rows
             PROVE  attempts'[c][r] <= run' /\ (MayRead(c, r)' => attempts'[c][r] < run')
  BY DEF AttemptInvariant
<1>1. /\ attempts \in [Contents -> [1..Rows -> Nat]] /\ attempts[c][r] \in Nat /\ run \in Nat
      /\ pos \in [Procs -> 0..Rows] /\ Rows \in Nat
  BY BoundsAssumption DEF Local, Typed, TypeOK, MainTypes, HistTypes, ProcTypes
<1>2. ASSUME NEW p \in Procs, Claim(p)
      PROVE  attempts'[c][r] <= run' /\ (MayRead(c, r)' => attempts'[c][r] < run')
  <2>1. PICK d \in Contents : TakesFile(p, d)
    BY <1>2, ClaimEffect
  <2>2. MayRead(c, r)' => MayRead(c, r)
    <3>1. CASE c = d
      BY <1>2, <2>1, <3>1, ClaimStep DEF TakesFile, MayRead
    <3>2. CASE c # d
      <4>1. name'[c] = name[c] /\ \A q \in Procs : Owns(q, c)' <=> Owns(q, c)
        BY <2>1, <3>2 DEF TakesFile
      <4>2. ~Owns(p, c)
        BY <1>2, ClaimStep DEF Owns, Owning
      <4> QED
        BY <1>2, <4>1, <4>2, ClaimStep DEF MayRead
    <3> QED
      BY <3>1, <3>2
  <2> QED
    BY <1>2, <2>2, ClaimStep, AttemptsKept
<1>3. ASSUME NEW p \in Procs, Archive(p)
      PROVE  attempts'[c][r] <= run' /\ (MayRead(c, r)' => attempts'[c][r] < run')
  <2>1. PICK d \in Contents : GivesFileBack(p, d)
    BY <1>3, ArchiveEffect
  <2>2. MayRead(c, r)' => MayRead(c, r)
    <3>1. CASE c = d
      BY <2>1, <3>1 DEF GivesFileBack, MayRead, Done
    <3>2. CASE c # d
      <4>1. ~Owns(p, c)
        BY <2>1, <3>2, Ownership DEF GivesFileBack
      <4>2. name'[c] = name[c] /\ \A q \in Procs : Owns(q, c)' <=> Owns(q, c)
        BY <2>1, <3>2, <4>1 DEF GivesFileBack
      <4> QED
        BY <1>3, <4>1, <4>2, ArchiveStep DEF MayRead
    <3> QED
      BY <3>1, <3>2
  <2> QED
    BY <1>3, <2>2, ArchiveStep, AttemptsKept
<1>4. ASSUME NEW p \in Procs, Open(p) \/ UnableToLoad(p) \/ EndOfFile(p)
      PROVE  attempts'[c][r] <= run' /\ (MayRead(c, r)' => attempts'[c][r] < run')
  <2>1. attempts' = attempts
    BY <1>4 DEF Open, UnableToLoad, EndOfFile
  <2>2. pc'[p] = "rows" => pc[p] = "open"
    BY <1>4, StreamStep DEF Open, UnableToLoad, EndOfFile, ProcGoto, Local, Typed, TypeOK, ProcTypes
  <2>3. MayRead(c, r)' => MayRead(c, r)
    BY <1>4, <2>2, StreamStep DEF MayRead, OwnersStay, fileVars
  <2> QED
    BY <1>4, <2>1, <2>3, StreamStep, AttemptsKept
<1>5. ASSUME NEW p \in Procs, Row(p)
      PROVE  attempts'[c][r] <= run' /\ (MayRead(c, r)' => attempts'[c][r] < run')
  <2>1. /\ up /\ pc[p] = "rows" /\ pos[p] < Rows /\ pos' = [pos EXCEPT ![p] = @ + 1]
        /\ attempts' = [d \in Contents |-> IF d \in fd[p]
                                           THEN [attempts[d] EXCEPT ![pos'[p]] = @ + 1]
                                           ELSE attempts[d]]
    BY <1>5 DEF Row, ProcGoto
  <2>2. pos'[p] = pos[p] + 1 /\ pos[p] \in Nat
    BY <1>1, <2>1
  <2>3. CASE c \in fd[p] /\ r = pos'[p]
    <3>1. Owns(p, c) /\ ~name[c].done
      BY <2>1, <2>3, Ownership
    <3>2. pos[p] < r
      BY <2>2, <2>3
    <3>3. \A q \in Procs : Owns(q, c) => q = p
      BY <3>1, Ownership
    <3>4. MayRead(c, r)
      BY <2>1, <3>1, <3>2, <3>3 DEF MayRead
    <3>5. attempts'[c][r] = attempts[c][r] + 1
      BY <1>1, <2>1, <2>3
    <3>6. attempts[c][r] < run /\ run' = run
      BY <1>5, <3>4, StreamStep DEF AttemptInvariant
    <3>7. attempts'[c][r] <= run'
      BY <1>1, <3>5, <3>6
    <3>8. ~MayRead(c, r)'
      <4>1. Owns(p, c)' /\ pc'[p] \in {"rows", "archive"}
        BY <1>5, <3>1, StreamStep DEF OwnersStay
      <4>2. ~(pos'[p] < r)
        BY <1>1, <2>2, <2>3
      <4> QED
        BY <4>1, <4>2 DEF MayRead
    <3> QED
      BY <3>7, <3>8
  <2>4. CASE ~(c \in fd[p] /\ r = pos'[p])
    <3>1. attempts'[c][r] = attempts[c][r]
      BY <1>1, <2>1, <2>4
    <3>2. pos'[p] < r => pos[p] < r
      BY <2>2
    <3>3. MayRead(c, r)' => MayRead(c, r)
      <4>1. /\ \A q \in Procs : Owns(q, c)' <=> Owns(q, c)
            /\ name' = name /\ up' = up /\ pc'[p] \in {"rows", "archive"}
            /\ \A q \in Procs : q # p => pc'[q] = pc[q] /\ pos'[q] = pos[q]
        BY <1>5, StreamStep DEF OwnersStay, fileVars
      <4> QED
        BY <2>1, <3>2, <4>1 DEF MayRead
    <3> QED
      BY <1>5, <3>1, <3>3, StreamStep, AttemptsKept
  <2> QED
    BY <2>3, <2>4
<1>6. CASE Forget
  <2>1. attempts' = attempts /\ run' = run /\ ~MayRead(c, r)'
    BY <1>6, ForgetStep DEF MayRead
  <2> QED
    BY <2>1, AttemptsKept
<1>7. CASE Start
  <2>1. attempts' = attempts /\ run' = run + 1
    BY <1>7 DEF Start
  <2>2. attempts[c][r] <= run
    BY DEF AttemptInvariant
  <2>3. attempts'[c][r] < run' /\ attempts'[c][r] <= run'
    BY <1>1, <2>1, <2>2
  <2> QED
    BY <2>3
<1>8. CASE Aside /\ UNCHANGED <<up, run>>
  <2>1. MayRead(c, r)' => MayRead(c, r)
    <3>1. \A q \in Procs : Owns(q, c) => pc[q] \in Owning
      BY DEF Owns
    <3> QED
      BY <1>8, <3>1 DEF Aside, OwnersStay, MayRead
  <2> QED
    BY <1>8, <2>1, AttemptsKept DEF Aside
<1> QED
  BY <1>2, <1>3, <1>4, <1>5, <1>6, <1>7, <1>8, StepKinds

(* A row was handed on at most once in each run, and one that may still be  *)
(* handed on in this run only in earlier ones.                              *)
THEOREM AttemptInvariantHolds == ASSUME UniqueNames PROVE Spec => []AttemptInvariant
<1>1. Local /\ ClaimInvariant /\ AttemptInvariant /\ [Next]_vars => AttemptInvariant'
  BY StepAttempts
<1> QED
  BY <1>1, InitAttempts, LocalInvariant, ClaimInvariantHolds, PTL DEF Spec

(* A row is published once in each run at most: the file whose handling a   *)
(* crash cut short is read again, in the next run and not in this one.      *)
THEOREM RowsOncePerRun == ASSUME UniqueNames PROVE Spec => []AttemptsBoundedByRuns
<1>1. AttemptInvariant => AttemptsBoundedByRuns
  BY DEF AttemptInvariant, AttemptsBoundedByRuns
<1> QED
  BY <1>1, AttemptInvariantHolds, PTL

-----------------------------------------------------------------------------
(* What is archived was read: a processor that streams a readable file has  *)
(* it open and handed on each row up to its position.                       *)

AllHandedOn(c) == stopped[c] # {} \/ \A r \in 1..Rows : attempts[c][r] >= 1

StreamRead(p, c) ==
    /\ pc[p] = "rows" => c \in fd[p] /\ \A r \in 1..pos[p] : attempts[c][r] >= 1
    /\ pc[p] = "archive" => AllHandedOn(c)

ReadInvariant ==
    /\ \A p \in Procs, c \in Contents \ Unreadable : Owns(p, c) => StreamRead(p, c)
    /\ \A c \in Contents \ linked : name[c] = Original(c)
    /\ ArchivedWasRead

LEMMA InitRead == Init => ReadInvariant
BY DEF Init, ReadInvariant, ArchivedWasRead, Owns

LEMMA StepRead ==
    ASSUME UniqueNames, Local, ClaimInvariant, ReadInvariant, [Next]_vars
    PROVE  ReadInvariant'
<1> USE DEF ReadInvariant
<1>1. /\ attempts \in [Contents -> [1..Rows -> Nat]] /\ stopped \in [Contents -> SUBSET Reasons]
      /\ pos \in [Procs -> 0..Rows] /\ Rows \in Nat /\ linked \subseteq Contents
      /\ pc \in [Procs -> {"check", "dequeue", "claim", "open", "rows", "archive", "close", "exit"}]
      /\ fd \in [Procs -> SUBSET Contents]
  BY BoundsAssumption DEF Local, Typed, TypeOK, FileTypes, HistTypes, ProcTypes
<1>2. ASSUME NEW p \in Procs, Claim(p) PROVE ReadInvariant'
  <2>1. PICK d \in Contents : TakesFile(p, d)
    BY <1>2, ClaimEffect
  <2>2. ASSUME NEW q \in Procs, NEW c \in Contents \ Unreadable, Owns(q, c)'
        PROVE  StreamRead(q, c)'
    <3>1. q = p => pc'[q] = "open"
      BY <1>2, ClaimStep
    <3>2. q # p => Owns(q, c) /\ pc'[q] = pc[q]
      BY <1>2, <2>1, <2>2, ClaimStep DEF TakesFile
    <3> QED
      BY <1>2, <3>1, <3>2, ClaimStep DEF StreamRead, AllHandedOn
  <2>3. (\A c \in Contents \ linked : name[c] = Original(c))'
    BY <2>1 DEF TakesFile, Original
  <2>4. ArchivedWasRead'
    <3>1. ~Tmp(item[p]).done
      BY <2>1 DEF TakesFile, Tmp
    <3>2. \A c \in Contents : name'[c].done => name[c].done
      BY <2>1, <3>1 DEF TakesFile
    <3>3. linked' = linked /\ UNCHANGED <<attempts, stopped>>
      BY <1>2, <2>1, ClaimStep DEF TakesFile
    <3> QED
      BY <1>1, <3>2, <3>3 DEF ArchivedWasRead
  <2> QED
    BY <2>2, <2>3, <2>4
<1>3. ASSUME NEW p \in Procs, Archive(p) PROVE ReadInvariant'
  <2>1. PICK d \in Contents : GivesFileBack(p, d)
    BY <1>3, ArchiveEffect
  <2>2. ASSUME NEW q \in Procs, NEW c \in Contents \ Unreadable, Owns(q, c)'
        PROVE  StreamRead(q, c)'
    <3>1. Owns(q, c) /\ q # p
      BY <2>1, <2>2 DEF GivesFileBack
    <3> QED
      BY <1>3, <3>1, ArchiveStep DEF StreamRead, AllHandedOn
  <2>3. (\A c \in Contents \ linked : name[c] = Original(c))'
    BY <2>1 DEF GivesFileBack, Original
  <2>4. ArchivedWasRead'
    <3>1. d \notin Unreadable => AllHandedOn(d)
      BY <1>3, <2>1, ArchiveStep DEF GivesFileBack, StreamRead
    <3>2. \A c \in linked \ Unreadable : name[c].done => AllHandedOn(c)
      BY DEF ArchivedWasRead, AllHandedOn
    <3>3. linked' = linked /\ \A c \in Contents : c # d => name'[c] = name[c]
      BY <2>1 DEF GivesFileBack
    <3>4. \A c \in linked' \ Unreadable : name'[c].done => AllHandedOn(c)
      BY <1>1, <3>1, <3>2, <3>3
    <3>5. UNCHANGED <<attempts, stopped>>
      BY <1>3, ArchiveStep
    <3> QED
      BY <3>4, <3>5 DEF ArchivedWasRead, AllHandedOn
  <2> QED
    BY <2>2, <2>3, <2>4
<1>4. ASSUME NEW p \in Procs, Open(p) \/ Row(p) \/ UnableToLoad(p) \/ EndOfFile(p),
             \A c \in Contents : ~Owns(p, c) => UNCHANGED <<attempts[c], stopped[c]>>,
             \A c \in Contents \ Unreadable : Owns(p, c) => StreamRead(p, c)'
      PROVE  ReadInvariant'
  <2>1. ASSUME NEW q \in Procs, NEW c \in Contents \ Unreadable, Owns(q, c)', q # p
        PROVE  StreamRead(q, c)'
    <3>1. Owns(q, c) /\ ~Owns(p, c)
      BY <1>4, <2>1, StreamStep, Ownership DEF OwnersStay
    <3> QED
      BY <1>4, <2>1, <3>1, StreamStep DEF StreamRead, AllHandedOn
  <2>2. \A c \in Contents \ Unreadable : Owns(p, c)' => StreamRead(p, c)'
    BY <1>4, StreamStep DEF OwnersStay
  <2>3. ArchivedWasRead'
    <3>1. UNCHANGED <<name, linked>>
      BY <1>4, StreamStep DEF fileVars
    <3>2. \A c \in linked : name[c].done => UNCHANGED <<attempts[c], stopped[c]>>
      BY <1>1, <1>4, Ownership
    <3> QED
      BY <3>1, <3>2 DEF ArchivedWasRead
  <2>4. (\A c \in Contents \ linked : name[c] = Original(c))'
    BY <1>4, StreamStep DEF fileVars, Original
  <2> QED
    BY <2>1, <2>2, <2>3, <2>4
<1>5. ASSUME NEW p \in Procs, Open(p) PROVE ReadInvariant'
  <2>1. /\ pc[p] = "open" /\ attempts' = attempts
        /\ pc' = [pc EXCEPT ![p] = IF At(Tmp(item[p])) \subseteq Unreadable THEN "archive" ELSE "rows"]
        /\ fd' = [fd EXCEPT ![p] = At(Tmp(item[p])) \ Unreadable]
        /\ pos' = [pos EXCEPT ![p] = 0]
        /\ stopped' = [c \in Contents |-> IF c \in fd'[p] THEN {} ELSE stopped[c]]
    BY <1>5 DEF Open, ProcGoto
  <2>2. \A c \in Contents : c \in At(Tmp(item[p])) <=> Owns(p, c)
    BY <2>1 DEF At, Owns, Owning
  <2>3. \A c \in Contents : ~Owns(p, c) => UNCHANGED <<attempts[c], stopped[c]>>
    BY <1>1, <2>1, <2>2
  <2>4. ASSUME NEW c \in Contents \ Unreadable, Owns(p, c) PROVE StreamRead(p, c)'
    <3>1. pc'[p] = "rows" /\ c \in fd'[p] /\ pos'[p] = 0
      BY <1>1, <2>1, <2>2, <2>4
    <3> QED
      BY <3>1 DEF StreamRead
  <2> QED
    BY <1>4, <1>5, <2>3, <2>4
<1>6. ASSUME NEW p \in Procs, Row(p) PROVE ReadInvariant'
  <2>1. /\ pc[p] = "rows" /\ pos[p] < Rows /\ pos' = [pos EXCEPT ![p] = @ + 1] /\ fd' = fd
        /\ attempts' = [c \in Contents |-> IF c \in fd[p]
                                           THEN [attempts[c] EXCEPT ![pos'[p]] = @ + 1]
                                           ELSE attempts[c]]
    BY <1>6 DEF Row, ProcGoto
  <2>2. /\ \A c \in Contents : c \notin fd[p] => stopped'[c] = stopped[c]
        /\ pc'[p] = "archive" => \A c \in fd[p] : stopped'[c] # {}
    <3>1. CASE pc' = [pc EXCEPT ![p] = "rows"] /\ UNCHANGED stopped
      BY <1>1, <3>1
    <3>2. CASE /\ pc' = [pc EXCEPT ![p] = IF errs'[p] > ExcLimit THEN "archive" ELSE "rows"]
               /\ stopped' = [c \in Contents |-> IF c \in fd[p] /\ errs'[p] > ExcLimit
                                                 THEN stopped[c] \union {"errors"} ELSE stopped[c]]
      <4>1. pc'[p] = "archive" => errs'[p] > ExcLimit
        BY <1>1, <3>2
      <4>2. fd[p] \subseteq Contents
        BY <1>1
      <4> QED
        BY <3>2, <4>1, <4>2
    <3> QED
      BY <1>6, <3>1, <3>2 DEF Row, ProcGoto
  <2>3. pos'[p] = pos[p] + 1 /\ pos[p] \in Nat /\ pos'[p] \in 1..Rows
    BY <1>1, <2>1
  <2>4. \A c \in fd[p] : Owns(p, c)
    BY <2>1, Ownership
  <2>5. \A c \in Contents : ~Owns(p, c) => UNCHANGED <<attempts[c], stopped[c]>>
    BY <1>1, <2>1, <2>2, <2>4
  <2>6. ASSUME NEW c \in Contents \ Unreadable, Owns(p, c) PROVE StreamRead(p, c)'
    <3>1. c \in fd[p] /\ \A r \in 1..pos[p] : attempts[c][r] >= 1
      BY <2>1, <2>6 DEF StreamRead
    <3>2. attempts'[c][pos'[p]] = attempts[c][pos'[p]] + 1 /\ attempts[c][pos'[p]] \in Nat
      BY <1>1, <2>1, <2>3, <3>1
    <3>3. \A r \in 1..Rows : r # pos'[p] => attempts'[c][r] = attempts[c][r]
      BY <1>1, <2>1, <3>1
    <3>4. \A r \in 1..pos'[p] : r \in 1..Rows /\ (r = pos'[p] \/ r \in 1..pos[p])
      BY <1>1, <2>3
    <3>5. attempts'[c][pos'[p]] >= 1
      BY <3>2
    <3>6. \A r \in 1..pos'[p] : attempts'[c][r] >= 1
      BY <3>1, <3>3, <3>4, <3>5
    <3> QED
      BY <2>1, <2>2, <3>1, <3>6 DEF StreamRead, AllHandedOn
  <2> QED
    BY <1>4, <1>6, <2>5, <2>6
<1>7. ASSUME NEW p \in Procs, EndOfFile(p) PROVE ReadInvariant'
  <2>1. /\ pc[p] = "rows" /\ pc'[p] = "archive" /\ fd' = fd /\ attempts' = attempts
        /\ stopped' = [c \in Contents |-> IF c \in fd[p] /\ pos[p] < Rows
                                          THEN stopped[c] \union {"early"} ELSE stopped[c]]
    BY <1>1, <1>7 DEF EndOfFile, ProcGoto
  <2>2. \A c \in fd[p] : Owns(p, c)
    BY <2>1, Ownership
  <2>3. \A c \in Contents : ~Owns(p, c) => UNCHANGED <<attempts[c], stopped[c]>>
    BY <1>1, <2>1, <2>2
  <2>4. ASSUME NEW c \in Contents \ Unreadable, Owns(p, c) PROVE StreamRead(p, c)'
    <3>1. c \in fd[p] /\ \A r \in 1..pos[p] : attempts[c][r] >= 1
      BY <2>1, <2>4 DEF StreamRead
    <3>2. CASE pos[p] < Rows
      BY <2>1, <3>1, <3>2 DEF StreamRead, AllHandedOn
    <3>3. CASE ~(pos[p] < Rows)
      <4>1. pos[p] = Rows
        BY <1>1, <3>3
      <4> QED
        BY <2>1, <3>1, <4>1 DEF StreamRead, AllHandedOn
    <3> QED
      BY <3>2, <3>3
  <2> QED
    BY <1>4, <1>7, <2>3, <2>4
<1>10. ASSUME NEW p \in Procs, UnableToLoad(p) PROVE ReadInvariant'
  <2>1. /\ pc[p] = "rows" /\ pc'[p] = "archive" /\ fd' = fd /\ attempts' = attempts
        /\ stopped' = [c \in Contents |-> IF c \in fd[p]
                                          THEN stopped[c] \union {"unable to load"} ELSE stopped[c]]
    BY <1>1, <1>10 DEF UnableToLoad, ProcGoto, histVars
  <2>2. \A c \in fd[p] : Owns(p, c)
    BY <2>1, Ownership
  <2>3. \A c \in Contents : ~Owns(p, c) => UNCHANGED <<attempts[c], stopped[c]>>
    BY <1>1, <2>1, <2>2
  <2>4. ASSUME NEW c \in Contents \ Unreadable, Owns(p, c) PROVE StreamRead(p, c)'
    <3>1. c \in fd[p]
      BY <2>1, <2>4 DEF StreamRead
    <3>2. stopped'[c] # {}
      BY <2>1, <3>1
    <3> QED
      BY <2>1, <3>2 DEF StreamRead, AllHandedOn
  <2> QED
    BY <1>4, <1>10, <2>3, <2>4
<1>8. CASE Forget
  <2>1. \A q \in Procs, c \in Contents : ~Owns(q, c)'
    BY <1>8, ForgetStep
  <2>2. ArchivedWasRead' /\ (\A c \in Contents \ linked : name[c] = Original(c))'
    BY <1>8, ForgetStep DEF ArchivedWasRead, fileVars, Original
  <2> QED
    BY <2>1, <2>2
<1>9. CASE Aside
  <2>1. ASSUME NEW q \in Procs, NEW c \in Contents \ Unreadable, Owns(q, c)'
        PROVE  StreamRead(q, c)'
    <3>1. Owns(q, c) /\ pc[q] \in Owning
      BY <1>9, <2>1 DEF Aside, OwnersStay, Owns
    <3>2. pc'[q] = pc[q] /\ fd'[q] = fd[q] /\ pos'[q] = pos[q] /\ UNCHANGED <<attempts, stopped>>
      BY <1>9, <3>1 DEF Aside
    <3> QED
      BY <3>1, <3>2 DEF StreamRead, AllHandedOn
  <2>2. (\A c \in Contents \ linked : name[c] = Original(c))'
    BY <1>9 DEF Aside, Original
  <2>3. \A c \in Contents \ linked : ~name[c].done
    <3>1. \A c \in Contents : ~Original(c).done
      BY DEF Original
    <3> QED
      BY <3>1
  <2>4. ArchivedWasRead'
    BY <1>9, <2>3 DEF Aside, ArchivedWasRead
  <2> QED
    BY <2>1, <2>2, <2>4
<1> QED
  BY <1>2, <1>3, <1>5, <1>6, <1>7, <1>8, <1>9, <1>10, StepKinds

(* A processor has handed on every row up to its position in a readable     *)
(* file, or was stopped short of that; a file that is not there yet has its *)
(* first name.                                                              *)
THEOREM ReadInvariantHolds == ASSUME UniqueNames PROVE Spec => []ReadInvariant
<1>1. Local /\ ClaimInvariant /\ ReadInvariant /\ [Next]_vars => ReadInvariant'
  BY StepRead
<1> QED
  BY <1>1, InitRead, LocalInvariant, ClaimInvariantHolds, PTL DEF Spec

(* A file that could be read is archived only after each of its rows was    *)
(* handed to publish(), in this run or before, or after its stream ended    *)
(* too early for one of the three reasons that `stopped' names.               *)
THEOREM ArchivedFilesWereRead == ASSUME UniqueNames PROVE Spec => []ArchivedWasRead
<1>1. ReadInvariant => ArchivedWasRead
  BY DEF ReadInvariant
<1> QED
  BY <1>1, ReadInvariantHolds, PTL

-----------------------------------------------------------------------------
(* FilePipeline implements FileLifecycle.  The suffixes of a name count how *)
(* often the file was claimed; a file that nobody has was claimed in        *)
(* earlier runs only.                                                       *)

ClaimsFit(c) ==
    /\ Claims(c) <= run
    /\ up /\ ~name[c].done /\ (\A p \in Procs : ~Owns(p, c)) => Claims(c) < run
LifecycleInvariant == \A c \in Contents : ClaimsFit(c)

(* The abstract state of a file, by cases. *)
View(c) ==
    /\ \A p \in Procs : Owns(p, c) => Holder(c) = p
    /\ (\A p \in Procs : ~Owns(p, c)) => Holder(c) = NoName
    /\ c \notin linked => Stage(c) = "absent"
    /\ c \in linked /\ name[c].done => Stage(c) = "archived"
    /\ c \in linked /\ ~name[c].done =>
          Stage(c) = IF \E p \in Procs : Owns(p, c) THEN "taken" ELSE "waiting"

LEMMA Views == ClaimExclusive => \A c \in Contents : View(c)
<1> SUFFICES ASSUME ClaimExclusive, NEW c \in Contents PROVE View(c)
  OBVIOUS
<1>1. ASSUME NEW p \in Procs, Owns(p, c) PROVE Holder(c) = p
  <2>1. \A q \in Procs : Owns(q, c) => q = p
    BY <1>1 DEF ClaimExclusive
  <2> QED
    BY <1>1, <2>1 DEF Holder
<1>2. (\A p \in Procs : ~Owns(p, c)) => Holder(c) = NoName
  BY DEF Holder
<1>3. (\E p \in Procs : Owns(p, c)) <=> Holder(c) # NoName
  BY <1>1, <1>2, FilesAssumption
<1>4. c \in linked /\ ~name[c].done =>
          Stage(c) = IF \E p \in Procs : Owns(p, c) THEN "taken" ELSE "waiting"
  BY <1>3 DEF Stage
<1> QED
  BY <1>1, <1>2, <1>4 DEF View, Stage

LEMMA InitLifecycle == Init => LifecycleInvariant /\ FileLife!Init
<1> SUFFICES ASSUME Init PROVE LifecycleInvariant /\ FileLife!Init
  OBVIOUS
<1>1. \A c \in Contents : Claims(c) = 0 /\ run = 0 /\ ~up
  BY DEF Init, Claims, Original
<1>2. \A c \in Contents : Stage(c) = "absent" /\ Holder(c) = NoName
  BY DEF Init, Stage, Holder, Owns
<1> QED
  BY <1>1, <1>2 DEF Init, LifecycleInvariant, ClaimsFit, FileLife!Init

(* What the two renames do to the count of claims. *)
LEMMA ClaimsCount ==
    ASSUME UniqueNames, Local, ClaimInvariant, NEW p \in Procs, NEW c \in Contents
    PROVE  /\ Claims(c) \in Nat
           /\ Claim(p) /\ TakesFile(p, c) => Claims(c)' = Claims(c) + 1
           /\ Archive(p) /\ GivesFileBack(p, c) => Claims(c)' = Claims(c)
<1>1. name[c].inprogress \in Nat /\ name[c] \in Names
  BY DEF Local, Typed, TypeOK, FileTypes, Names
<1>2. Claims(c) \in Nat
  BY <1>1 DEF Claims
<1>3. ASSUME Claim(p), TakesFile(p, c) PROVE Claims(c)' = Claims(c) + 1
  <2>1. /\ name[c] = item[p] /\ ~name[c].done /\ name'[c] = Tmp(item[p])
    BY <1>3 DEF TakesFile
  <2>2. name'[c].inprogress = name[c].inprogress + 1 /\ ~name'[c].done
    BY <2>1 DEF Tmp
  <2> QED
    BY <1>1, <2>1, <2>2 DEF Claims
<1>4. ASSUME Archive(p), GivesFileBack(p, c) PROVE Claims(c)' = Claims(c)
  <2>1. item[p] \in Names
    BY <1>4, ArchiveStep DEF Local, Typed, ItemHeld, Owning
  <2>2. /\ name[c] = Tmp(item[p]) /\ ~item[p].done /\ name'[c] = Done(item[p])
    BY <1>4 DEF GivesFileBack
  <2>3. /\ name[c].inprogress = item[p].inprogress + 1 /\ ~name[c].done
        /\ name'[c].inprogress = item[p].inprogress /\ name'[c].done
        /\ item[p].inprogress \in Nat
    BY <2>1, <2>2 DEF Tmp, Done, Names
  <2> QED
    BY <2>3 DEF Claims
<1> QED
  BY <1>2, <1>3, <1>4

LEMMA StepLifecycle ==
    ASSUME UniqueNames, Local, ClaimInvariant, LifecycleInvariant, [Next]_vars
    PROVE  LifecycleInvariant'
<1> SUFFICES ASSUME NEW c \in Contents PROVE ClaimsFit(c)'
  BY DEF LifecycleInvariant
<1>1. ClaimsFit(c)
  BY DEF LifecycleInvariant
<1>2. run \in Nat
  BY DEF Local, Typed, TypeOK, MainTypes
<1>3. ASSUME UNCHANGED <<name[c], run>>,
             up' /\ (\A p \in Procs : ~Owns(p, c)') => up /\ \A p \in Procs : ~Owns(p, c)
      PROVE  ClaimsFit(c)'
  BY <1>1, <1>3 DEF ClaimsFit, Claims
<1>4. ASSUME NEW p \in Procs, Claim(p) PROVE ClaimsFit(c)'
  <2>1. PICK d \in Contents : TakesFile(p, d)
    BY <1>4, ClaimEffect
  <2>2. CASE c = d
    <3>1. Claims(c)' = Claims(c) + 1 /\ Claims(c) \in Nat /\ run' = run
      BY <1>4, <2>1, <2>2, ClaimsCount, ClaimStep
    <3>2. Claims(c) < run
      BY <1>1, <1>4, <2>1, <2>2, ClaimStep DEF ClaimsFit, TakesFile
    <3>3. Claims(c)' <= run'
      BY <1>2, <3>1, <3>2
    <3>4. Owns(p, c)'
      BY <2>1, <2>2 DEF TakesFile
    <3> QED
      BY <3>3, <3>4 DEF ClaimsFit
  <2>3. CASE c # d
    BY <1>3, <1>4, <2>1, <2>3, ClaimStep DEF TakesFile
  <2> QED
    BY <2>2, <2>3
<1>5. ASSUME NEW p \in Procs, Archive(p) PROVE ClaimsFit(c)'
  <2>1. PICK d \in Contents : GivesFileBack(p, d)
    BY <1>5, ArchiveEffect
  <2>2. CASE c = d
    <3>1. Claims(c)' = Claims(c) /\ run' = run
      BY <1>5, <2>1, <2>2, ClaimsCount, ArchiveStep
    <3>2. name'[c].done
      BY <2>1, <2>2 DEF GivesFileBack, Done
    <3> QED
      BY <1>1, <3>1, <3>2 DEF ClaimsFit
  <2>3. CASE c # d
    <3>1. ~Owns(p, c)
      BY <2>1, <2>3, Ownership DEF GivesFileBack
    <3> QED
      BY <1>3, <1>5, <2>1, <2>3, <3>1, ArchiveStep DEF GivesFileBack
  <2> QED
    BY <2>2, <2>3
<1>6. ASSUME NEW p \in Procs, Open(p) \/ Row(p) \/ UnableToLoad(p) \/ EndOfFile(p) PROVE ClaimsFit(c)'
  BY <1>3, <1>6, StreamStep DEF OwnersStay, fileVars
<1>7. CASE Forget
  BY <1>3, <1>7, ForgetStep DEF fileVars
<1>8. CASE Start
  <2>1. Claims(c)' = Claims(c) /\ run' = run + 1
    BY <1>8 DEF Start, Claims, fileVars
  <2>2. Claims(c) <= run /\ Claims(c) \in Nat
    <3>1. name[c].inprogress \in Nat
      BY DEF Local, Typed, TypeOK, FileTypes, Names
    <3> QED
      BY <1>1, <3>1 DEF ClaimsFit, Claims
  <2>3. Claims(c)' < run' /\ Claims(c)' <= run'
    BY <1>2, <2>1, <2>2
  <2> QED
    BY <2>3 DEF ClaimsFit
<1>9. CASE Aside /\ UNCHANGED <<up, run>>
  BY <1>3, <1>9 DEF Aside, OwnersStay
<1> QED
  BY <1>4, <1>5, <1>6, <1>7, <1>8, <1>9, StepKinds

(* A file was claimed at most once in each run, and one that nobody has in  *)
(* earlier runs only.                                                       *)
THEOREM LifecycleInvariantHolds == ASSUME UniqueNames PROVE Spec => []LifecycleInvariant
<1>1. Local /\ ClaimInvariant /\ LifecycleInvariant /\ [Next]_vars => LifecycleInvariant'
  BY StepLifecycle
<1> QED
  BY <1>1, InitLifecycle, LocalInvariant, ClaimInvariantHolds, PTL DEF Spec

(* A file whose name and owner stay is the same for FileLifecycle. *)
LEMMA ViewKept ==
    ASSUME NEW c \in Contents, View(c), View(c)', name'[c] = name[c], c \in linked' <=> c \in linked,
           \A q \in Procs : Owns(q, c)' <=> Owns(q, c)
    PROVE  Stage(c)' = Stage(c) /\ Holder(c)' = Holder(c) /\ Claims(c)' = Claims(c)
<1>1. Claims(c)' = Claims(c)
  BY DEF Claims
<1>2. Holder(c)' = Holder(c)
  <2>1. CASE \E p \in Procs : Owns(p, c)
    BY <2>1 DEF View
  <2>2. CASE \A p \in Procs : ~Owns(p, c)
    BY <2>2 DEF View
  <2> QED
    BY <2>1, <2>2
<1>3. Stage(c)' = Stage(c)
  <2>1. CASE c \notin linked
    BY <2>1 DEF View
  <2>2. CASE c \in linked /\ name[c].done
    BY <2>2 DEF View
  <2>3. CASE c \in linked /\ ~name[c].done
    BY <2>3 DEF View
  <2> QED
    BY <2>1, <2>2, <2>3
<1> QED
  BY <1>1, <1>2, <1>3

LEMMA StepImplements ==
    ASSUME UniqueNames, Local, ClaimInvariant, ReadInvariant, LifecycleInvariant,
           \A c \in Contents : View(c) /\ View(c)', [Next]_vars
    PROVE  [FileLife!Next]_(FileLife!vars)
<1>1. /\ \A c \in Contents : Claims(c) \in Nat
      /\ linked \subseteq Contents
  <2>1. \A c \in Contents : name[c].inprogress \in Nat
    BY DEF Local, Typed, TypeOK, FileTypes, Names
  <2> QED
    BY <2>1 DEF Claims, Local, Typed, TypeOK, FileTypes
<1>2. ASSUME UNCHANGED <<up, run, name, linked>>, OwnersStay
      PROVE  UNCHANGED FileLife!vars
  <2>1. \A c \in Contents : Stage(c)' = Stage(c) /\ Holder(c)' = Holder(c) /\ Claims(c)' = Claims(c)
    BY <1>2, ViewKept DEF OwnersStay
  <2> QED
    BY <1>2, <2>1 DEF FileLife!vars
<1>3. ASSUME NEW p \in Procs, Claim(p) PROVE FileLife!Next
  <2>1. PICK c \in Contents : TakesFile(p, c)
    BY <1>3, ClaimEffect
  <2>2. up /\ UNCHANGED <<up, run>> /\ \A d \in Contents : ~Owns(p, d)
    BY <1>3, ClaimStep DEF Owns, Owning
  <2>3. /\ Stage(c) = "waiting" /\ Stage(c)' = "taken" /\ Holder(c)' = p
        /\ Claims(c)' = Claims(c) + 1 /\ Claims(c) < run
    <3>1. Claims(c)' = Claims(c) + 1
      BY <1>3, <2>1, ClaimsCount
    <3>2. Claims(c) < run
      BY <2>1, <2>2 DEF LifecycleInvariant, ClaimsFit, TakesFile
    <3>3. Stage(c) = "waiting"
      BY <2>1 DEF View, TakesFile
    <3>4. c \in linked' /\ Owns(p, c)' /\ ~name'[c].done
      BY <2>1 DEF TakesFile, Tmp
    <3>5. Stage(c)' = "taken" /\ Holder(c)' = p
      BY <3>4 DEF View
    <3> QED
      BY <3>1, <3>2, <3>3, <3>5
  <2>4. \A d \in Contents : d # c =>
            Stage(d)' = Stage(d) /\ Holder(d)' = Holder(d) /\ Claims(d)' = Claims(d)
    BY <2>1, ViewKept DEF TakesFile
  <2>5. \A d \in Contents : Holder(d) # p
    <3>1. ASSUME NEW d \in Contents, Holder(d) = p PROVE FALSE
      <4>1. CASE \E q \in Procs : Owns(q, d)
        BY <2>2, <3>1, <4>1 DEF View
      <4>2. CASE \A q \in Procs : ~Owns(q, d)
        BY <3>1, <4>2, FilesAssumption DEF View
      <4> QED
        BY <4>1, <4>2
    <3> QED
      BY <3>1
  <2>6. FileLife!Take(c, p)
    BY <2>2, <2>3, <2>4, <2>5 DEF FileLife!Take
  <2> QED
    BY <2>6 DEF FileLife!Next
<1>4. ASSUME NEW p \in Procs, Archive(p) PROVE FileLife!Next
  <2>1. PICK c \in Contents : GivesFileBack(p, c)
    BY <1>4, ArchiveEffect
  <2>2. up /\ UNCHANGED <<up, run>>
    BY <1>4, ArchiveStep
  <2>3. Stage(c) = "taken" /\ Stage(c)' = "archived" /\ Holder(c)' = NoName /\ Claims(c)' = Claims(c)
    <3>1. Claims(c)' = Claims(c)
      BY <1>4, <2>1, ClaimsCount
    <3>2. ~name[c].done /\ c \in linked /\ Owns(p, c)
      BY <2>1, Ownership DEF GivesFileBack
    <3>3. name'[c].done /\ c \in linked' /\ \A q \in Procs : ~Owns(q, c)'
      BY <2>1 DEF GivesFileBack, Done
    <3> QED
      BY <3>1, <3>2, <3>3 DEF View
  <2>4. \A d \in Contents : d # c => \A q \in Procs : Owns(q, d)' <=> Owns(q, d)
    BY <2>1, Ownership DEF GivesFileBack
  <2>5. \A d \in Contents : d # c =>
            Stage(d)' = Stage(d) /\ Holder(d)' = Holder(d) /\ Claims(d)' = Claims(d)
    BY <2>1, <2>4, ViewKept DEF GivesFileBack
  <2>6. FileLife!Archive(c)
    BY <2>2, <2>3, <2>5 DEF FileLife!Archive
  <2> QED
    BY <2>6 DEF FileLife!Next
<1>5. ASSUME NEW p \in Procs, Open(p) \/ Row(p) \/ UnableToLoad(p) \/ EndOfFile(p) PROVE UNCHANGED FileLife!vars
  BY <1>2, <1>5, StreamStep DEF fileVars
<1>6. CASE Forget /\ up
  <2>1. /\ UNCHANGED <<name, linked, run>> /\ up' = FALSE
        /\ \A q \in Procs, c \in Contents : ~Owns(q, c)'
    BY <1>6, ForgetStep DEF fileVars
  <2>2. ASSUME NEW c \in Contents
        PROVE  /\ Holder(c)' = NoName /\ Claims(c)' = Claims(c)
               /\ Stage(c)' = IF Stage(c) = "taken" THEN "waiting" ELSE Stage(c)
    <3>1. Claims(c)' = Claims(c) /\ Holder(c)' = NoName
      BY <2>1 DEF Claims, View
    <3>2. CASE c \notin linked
      BY <2>1, <3>1, <3>2 DEF View
    <3>3. CASE c \in linked /\ name[c].done
      BY <2>1, <3>1, <3>3 DEF View
    <3>4. CASE c \in linked /\ ~name[c].done
      BY <2>1, <3>1, <3>4 DEF View
    <3> QED
      BY <3>2, <3>3, <3>4
  <2>3. FileLife!Stop
    BY <1>6, <2>1, <2>2 DEF FileLife!Stop
  <2> QED
    BY <2>3 DEF FileLife!Next
<1>7. CASE Start /\ Aside
  <2>1. UNCHANGED <<name, linked>> /\ OwnersStay /\ ~up /\ up' = TRUE /\ run' = run + 1
    BY <1>7 DEF Start, Aside, fileVars
  <2>2. \A c \in Contents : Stage(c)' = Stage(c) /\ Holder(c)' = Holder(c) /\ Claims(c)' = Claims(c)
    BY <2>1, ViewKept DEF OwnersStay
  <2>3. FileLife!Start
    BY <2>1, <2>2 DEF FileLife!Start
  <2> QED
    BY <2>3 DEF FileLife!Next
<1>8. CASE Aside /\ UNCHANGED <<up, run>>
  <2>1. CASE linked' = linked
    BY <1>2, <1>8, <2>1 DEF Aside
  <2>2. ASSUME NEW c \in Contents \ linked, linked' = linked \union {c} PROVE FileLife!Next
    <3>1. name' = name /\ OwnersStay
      BY <1>8 DEF Aside
    <3>2. ~name[c].done
      <4>1. name[c] = Original(c)
        BY DEF ReadInvariant
      <4> QED
        BY <4>1 DEF Original
    <3>3. \A q \in Procs : ~Owns(q, c) /\ ~Owns(q, c)'
      BY <3>1 DEF Owns, OwnersStay
    <3>4. /\ Stage(c) = "absent" /\ Stage(c)' = "waiting" /\ Holder(c)' = Holder(c)
          /\ Claims(c)' = Claims(c)
      BY <2>2, <3>1, <3>2, <3>3 DEF View, Claims
    <3>5. \A d \in Contents : d # c =>
              Stage(d)' = Stage(d) /\ Holder(d)' = Holder(d) /\ Claims(d)' = Claims(d)
      BY <2>2, <3>1, ViewKept DEF OwnersStay
    <3>6. FileLife!Produce(c)
      BY <1>8, <3>4, <3>5 DEF FileLife!Produce
    <3> QED
      BY <3>6 DEF FileLife!Next
  <2> QED
    BY <1>8, <2>1, <2>2 DEF Aside
<1> QED
  BY <1>3, <1>4, <1>5, <1>6, <1>7, <1>8, StepKinds

(* Without looking at paths, queues and events, a user of Flycatcher may    *)
(* think of a file as FileLifecycle does: it waits, is handled by one       *)
(* processor once in each run, and is archived for good.                    *)
THEOREM PipelineImplementsLifecycle == ASSUME UniqueNames PROVE Spec => ImplementsLifecycle
<1>1. ClaimInvariant => \A c \in Contents : View(c)
  BY Views DEF ClaimInvariant
<1>2. Local /\ ClaimInvariant /\ ReadInvariant /\ LifecycleInvariant
      /\ (\A c \in Contents : View(c)) /\ (\A c \in Contents : View(c))' /\ [Next]_vars
          => [FileLife!Next]_(FileLife!vars)
  BY StepImplements
<1> QED
  BY <1>1, <1>2, InitLifecycle, LocalInvariant, ClaimInvariantHolds, ReadInvariantHolds,
     LifecycleInvariantHolds, PTL DEF Spec, ImplementsLifecycle, FileLife!Spec

-----------------------------------------------------------------------------
(* What the poller knows.  The event queue never reaches its limit, so     *)
(* that no event is dropped.                                               *)
Room == Len(events) < EventLimit

Known(c) == up /\ ~name[c].done /\ (c \in seen \/ name[c].inprogress # 0)
Held(c) == Pending(name[c]) \/ \E p \in Procs : Owns(p, c)

AllHeld == \A c \in linked : Known(c) => Held(c)
TrackInvariant ==
    /\ AllHeld
    /\ dpc # "events" => buf = <<>>
    /\ fresh \intersect seen = {}

LEMMA InitTrack == Init => TrackInvariant
BY DEF Init, TrackInvariant, AllHeld

-----------------------------------------------------------------------------
(* What keeps a path on its way. *)

LEMMA PendingStays ==
    ASSUME Range(paths) \union Range(queue) \subseteq Range(paths') \union Range(queue'),
           Range(events) \union Range(buf) \subseteq Range(events') \union Range(buf'),
           \A q \in Procs : pc[q] = "claim" => pc'[q] = "claim" /\ item'[q] = item[q]
    PROVE  \A n : Pending(n) => Pending(n)'
BY DEF Pending

LEMMA EnqueueKeepsPaths ==
    ASSUME Local, paths # <<>>, EnqueueLast
    PROVE  Range(paths) \union Range(queue) \subseteq Range(paths') \union Range(queue')
<1> DEFINE last == Len(paths) - 1
<1>1. paths \in Seq(Names) /\ queue \in Seq(Names) /\ Len(paths) \in Nat \ {0}
      /\ \A i \in 1..Len(paths) : paths[i] \in Names
  BY DEF Local, Typed, TypeOK, PollTypes
<1>2. last \in Nat /\ \A i \in 1..last : paths[i] \in Names
  BY <1>1
<1>3. paths' = SubSeq(paths, 1, last) /\ queue' = Append(queue, paths[Len(paths)])
  BY DEF EnqueueLast
<1>4. Range(queue') = Range(queue) \union {paths[Len(paths)]}
  BY <1>1, <1>3, RangeAppend
<1>5. \A i \in 1..Len(paths) : i = Len(paths) \/ i \in 1..last
  BY <1>1
<1>6. Range(paths) = {paths[i] : i \in 1..Len(paths)}
  BY <1>1, RangeEquality
<1> HIDE DEF last
<1>7. /\ paths' \in Seq(Names) /\ Len(paths') = IF 1 <= last THEN last - 1 + 1 ELSE 0
      /\ \A i \in 1..last - 1 + 1 : paths'[i] = paths[1 + i - 1]
  BY <1>2, <1>3, SubSeqProperties
<1>8. Len(paths') = last /\ \A i \in 1..last : paths'[i] = paths[i]
  BY <1>2, <1>7
<1>9. Range(paths') = {paths'[i] : i \in 1..last}
  BY <1>7, <1>8, RangeEquality
<1> QED
  BY <1>4, <1>5, <1>6, <1>8, <1>9

(* The two parts of the events are all of them. *)
LEMMA SplitKeepsEvents ==
    ASSUME NEW S, NEW s \in Seq(S), NEW n \in 0..Len(s)
    PROVE  Range(s) \subseteq Range(SubSeq(s, 1, n)) \union Range(SubSeq(s, n + 1, Len(s)))
<1> DEFINE l == SubSeq(s, 1, n)
           r == SubSeq(s, n + 1, Len(s))
<1>1. Len(s) \in Nat /\ n \in Nat /\ n <= Len(s) /\ \A i \in 1..Len(s) : s[i] \in S
  OBVIOUS
<1>2. /\ l \in Seq(S) /\ Len(l) = IF 1 <= n THEN n - 1 + 1 ELSE 0
      /\ \A i \in 1..n - 1 + 1 : l[i] = s[1 + i - 1]
  BY <1>1, SubSeqProperties
<1>3. /\ r \in Seq(S) /\ Len(r) = IF n + 1 <= Len(s) THEN Len(s) - (n + 1) + 1 ELSE 0
      /\ \A i \in 1..Len(s) - (n + 1) + 1 : r[i] = s[n + 1 + i - 1]
  BY <1>1, SubSeqProperties
<1> HIDE DEF l, r
<1>4. Range(l) = {l[i] : i \in 1..Len(l)} /\ Range(r) = {r[i] : i \in 1..Len(r)}
      /\ Range(s) = {s[i] : i \in 1..Len(s)}
  BY <1>2, <1>3, RangeEquality
<1>5. Len(l) = n /\ \A i \in 1..n : l[i] = s[i]
  BY <1>1, <1>2
<1>6. Len(r) = Len(s) - n /\ \A i \in 1..Len(s) - n : r[i] = s[n + i]
  BY <1>1, <1>3
<1>7. ASSUME NEW i \in 1..Len(s) PROVE s[i] \in Range(l) \union Range(r)
  <2>1. CASE i <= n
    <3>1. i \in 1..n
      BY <1>1, <2>1
    <3> QED
      BY <1>4, <1>5, <3>1
  <2>2. CASE ~(i <= n)
    <3>1. i - n \in 1..Len(s) - n /\ n + (i - n) = i
      BY <1>1, <2>2
    <3>2. r[i - n] = s[i]
      BY <1>6, <3>1
    <3> QED
      BY <1>4, <1>6, <3>1, <3>2
  <2> QED
    BY <2>1, <2>2
<1>8. Range(s) \subseteq Range(l) \union Range(r)
  BY <1>4, <1>7
<1> QED
  BY <1>8 DEF l, r

(* With room for it, the event of a close is queued when the directory is   *)
(* watched, and no event is lost.                                           *)
LEMMA PostKeepsEvents ==
    ASSUME Local, Room, NEW C \in SUBSET Contents, Post("IN_CLOSE", C)
    PROVE  /\ Range(events) \subseteq Range(events')
           /\ seen' \subseteq seen \union C
           /\ \A c \in C : C = {c} /\ c \in seen' \ seen =>
                  [mask |-> "IN_CLOSE", name |-> name[c]] \in Range(events')
<1> DEFINE e == [mask |-> "IN_CLOSE", name |-> name[CHOOSE c \in C : TRUE]]
<1>1. events \in Seq(Events) /\ (C # {} => e \in Events)
  BY DEF Local, Typed, TypeOK, MainTypes, FileTypes, Events
<1>2. events' = IF watch /\ C # {} THEN Append(events, e) ELSE events
  BY DEF Post, Room
<1>3. seen' = IF watch THEN seen \union C ELSE seen
  BY DEF Post
<1>4. \A c \in C : C = {c} => e = [mask |-> "IN_CLOSE", name |-> name[c]]
  OBVIOUS
<1> HIDE DEF e
<1>5. C # {} => Range(Append(events, e)) = Range(events) \union {e}
  BY <1>1, RangeAppend
<1> QED
  BY <1>2, <1>3, <1>4, <1>5

-----------------------------------------------------------------------------
(* The steps that leave the names and the owners alone. *)

LEMMA AsideHolds ==
    ASSUME Local, ReadInvariant, TrackInvariant, Aside, UNCHANGED up,
           \A c \in linked : Pending(name[c]) => Pending(name[c])',
           \A c \in linked' : c \in seen' \ seen =>
               c \in linked /\ (name[c].done \/ name[c].inprogress # 0 \/ Pending(name[c])')
    PROVE  AllHeld'
<1> SUFFICES ASSUME NEW c \in linked', Known(c)' PROVE Held(c)'
  BY DEF AllHeld
<1>1. name' = name /\ OwnersStay
  BY DEF Aside
<1>2. c \in linked
  <2>1. ASSUME c \notin linked PROVE FALSE
    <3>1. c \in Contents \ linked /\ c \in fresh
      BY <2>1 DEF Aside
    <3>2. name[c].inprogress = 0
      <4>1. name[c] = Original(c)
        BY <3>1 DEF ReadInvariant
      <4> QED
        BY <4>1 DEF Original
    <3>3. c \in seen' /\ c \notin seen
      BY <1>1, <3>1, <3>2 DEF Known, TrackInvariant
    <3> QED
      BY <2>1, <3>3
  <2> QED
    BY <2>1
<1>3. CASE Known(c)
  <2>1. Held(c)
    BY <1>2, <1>3 DEF TrackInvariant, AllHeld
  <2>2. ASSUME NEW p \in Procs, Owns(p, c) PROVE Owns(p, c)'
    BY <1>1, <1>2, <2>2 DEF OwnersStay, Local, Typed, TypeOK, FileTypes
  <2> QED
    BY <1>1, <1>2, <2>1, <2>2 DEF Held
<1>4. CASE ~Known(c)
  BY <1>1, <1>2, <1>4 DEF Known, Held
<1> QED
  BY <1>3, <1>4

(* A close of a file by a program. *)
LEMMA ClosedIsHeld ==
    ASSUME UniqueNames, Local, ClaimInvariant, ReadInvariant, TrackInvariant, Room,
           NEW c \in Contents, CloseWrite(c) \/ CloseRead(c)
    PROVE  TrackInvariant'
<1>1. /\ UNCHANGED <<name, linked, fresh, up, dpc, buf, paths, queue, pc, item>>
      /\ Aside
  <2>1. Aside
    BY OutsideAside DEF FileNext
  <2> QED
    BY <2>1 DEF CloseWrite, CloseRead, mainVars, pollVars, procVars
<1>2. PICK C \in SUBSET {c} : C \subseteq linked /\ Post("IN_CLOSE", C)
  BY DEF CloseWrite, CloseRead
<1>3. /\ Range(events) \subseteq Range(events') /\ seen' \subseteq seen \union C
      /\ c \in C /\ c \in seen' \ seen => [mask |-> "IN_CLOSE", name |-> name[c]] \in Range(events')
  BY <1>2, PostKeepsEvents
<1>4. \A n : Pending(n) => Pending(n)'
  BY <1>1, <1>3, PendingStays
<1>5. ASSUME NEW d \in linked', d \in seen' \ seen
      PROVE  d \in linked /\ (name[d].done \/ name[d].inprogress # 0 \/ Pending(name[d])')
  <2>1. d = c /\ c \in C
    BY <1>2, <1>3, <1>5
  <2> DEFINE e == [mask |-> "IN_CLOSE", name |-> name[c]]
  <2>2. e \in Range(events') /\ e.name = name[c] /\ e.mask = "IN_CLOSE"
    BY <1>3, <1>5, <2>1
  <2> HIDE DEF e
  <2>3. ~name[c].done /\ name[c].inprogress = 0 => Relevant(e)
    BY <2>2 DEF Relevant, ShouldAdd
  <2>4. Relevant(e) => Pending(name[c])'
    BY <1>1, <2>2 DEF Pending
  <2> QED
    BY <1>1, <1>5, <2>1, <2>3, <2>4
<1>6. AllHeld'
  BY <1>1, <1>4, <1>5, AsideHolds
<1>7. fresh' \intersect seen' = {}
  <2>1. c \in C => c \notin fresh
    BY <1>2 DEF ClaimInvariant, NothingOverwritten
  <2> QED
    BY <1>1, <1>2, <1>3, <2>1 DEF TrackInvariant
<1> QED
  BY <1>1, <1>6, <1>7 DEF TrackInvariant

(* A sequence of the elements of a finite set has all of them. *)
LEMMA OrderIsComplete ==
    ASSUME NEW S, IsFiniteSet(S), NEW order \in SetToSeqs(S)
    PROVE  /\ Cardinality(S) \in Nat /\ order \in [1..Cardinality(S) -> S]
           /\ \A x \in S : \E i \in 1..Cardinality(S) : order[i] = x
<1> DEFINE D == 1..Cardinality(S)
<1>1. Cardinality(S) \in Nat
  BY FS_CardinalityType
<1>2. order \in [D -> S] /\ \A i, j \in D : i # j => order[i] # order[j]
  BY DEF SetToSeqs
<1>3. IsFiniteSet(D) /\ Cardinality(D) = Cardinality(S)
  BY <1>1, FS_Interval
<1>4. order \in Injection(D, S)
  BY <1>2 DEF Injection, IsInjective
<1>5. order \in Surjection(D, S)
  BY <1>3, <1>4, FS_Injection
<1> QED
  BY <1>1, <1>2, <1>5 DEF Surjection

(* At the start each file that is not archived is on the list. *)
LEMMA StartLists ==
    ASSUME Local, ClaimInvariant, TrackInvariant, Start
    PROVE  TrackInvariant'
<1>1. PICK order \in SetToSeqs(Listing) : paths' = [i \in 1..Len(order) |-> name[order[i]]]
  BY DEF Start
<1>2. Listing \subseteq linked /\ IsFiniteSet(Listing)
  BY FilesAssumption, FS_Subset DEF Listing, Local, Typed, TypeOK, FileTypes
<1>3. /\ Cardinality(Listing) \in Nat /\ order \in [1..Cardinality(Listing) -> Listing]
      /\ \A c \in Listing : \E i \in 1..Cardinality(Listing) : order[i] = c
  BY <1>1, <1>2, OrderIsComplete
<1>4. Len(order) = Cardinality(Listing)
  BY <1>3
<1>5. ASSUME NEW c \in linked, ~name[c].done PROVE Pending(name[c])'
  <2>1. c \in Listing
    BY <1>5 DEF Listing, ShouldAdd
  <2>2. PICK i \in 1..Cardinality(Listing) : order[i] = c
    BY <1>3, <2>1
  <2>3. name[c] \in Range(paths')
    BY <1>1, <1>4, <2>2 DEF Range
  <2> QED
    BY <2>3 DEF Start, fileVars, Pending
<1>6. AllHeld'
  BY <1>5 DEF Start, fileVars, AllHeld, Known, Held
<1>7. fresh' \intersect seen' = {}
  BY <1>2 DEF Start, fileVars, TrackInvariant, ClaimInvariant, NothingOverwritten
<1> QED
  BY <1>6, <1>7 DEF TrackInvariant, Start

(* The poller.  Between its reads no event waits in the buffer. *)
LEMMA PollerHolds ==
    ASSUME UniqueNames, Local, ClaimInvariant, ReadInvariant, TrackInvariant, PollerNext
    PROVE  TrackInvariant'
<1>1. Aside /\ UNCHANGED <<up, fresh, seen, linked, procVars>>
  <2>1. Aside /\ up' = up
    BY OutsideAside
  <2> QED
    BY <2>1 DEF PollerNext, PollerCheck, PollKnown, PollWatch, SelectNothing, SelectRead,
         HandleEvent, EndOfEvents, mainVars, fileVars, histVars
<1>2. ASSUME \A n : Pending(n) => Pending(n)', dpc' # "events" => buf' = <<>> PROVE TrackInvariant'
  <2>1. \A c \in linked : Pending(name[c]) => Pending(name[c])'
    <3>1. name' = name
      BY <1>1 DEF Aside
    <3> QED
      BY <1>2, <3>1
  <2>2. seen' = seen /\ fresh' = fresh
    BY <1>1
  <2>3. AllHeld'
    BY <1>1, <2>1, <2>2, AsideHolds
  <2> QED
    BY <1>2, <2>2, <2>3 DEF TrackInvariant
<1>3. dpc # "events" => buf = <<>>
  BY DEF TrackInvariant
<1>4. CASE PollerCheck \/ PollWatch \/ SelectNothing
  <2>1. UNCHANGED <<paths, queue, events, buf>> /\ dpc # "events"
    BY <1>4 DEF PollerCheck, PollWatch, SelectNothing, PollerGoto, watchVars
  <2>2. \A n : Pending(n) => Pending(n)'
    BY <1>1, <2>1, PendingStays DEF procVars
  <2> QED
    BY <1>2, <1>3, <2>1, <2>2
<1>5. CASE PollKnown \/ (EndOfEvents /\ paths # <<>>)
  <2>1. UNCHANGED <<events, buf>> /\ buf = <<>> /\ EnqueueLast /\ paths # <<>>
    BY <1>3, <1>5 DEF PollKnown, EndOfEvents, PollerGoto, watchVars
  <2>2. \A n : Pending(n) => Pending(n)'
    BY <1>1, <2>1, EnqueueKeepsPaths, PendingStays DEF procVars
  <2> QED
    BY <1>2, <2>1, <2>2
<1>6. CASE EndOfEvents /\ paths = <<>>
  <2>1. UNCHANGED <<paths, queue, events, buf>> /\ buf = <<>>
    BY <1>6 DEF EndOfEvents, watchVars
  <2>2. \A n : Pending(n) => Pending(n)'
    BY <1>1, <2>1, PendingStays DEF procVars
  <2> QED
    BY <1>2, <2>1, <2>2
<1>7. CASE SelectRead
  <2>1. PICK n \in 1..BufEvents : /\ n <= Len(events) /\ buf' = SubSeq(events, 1, n)
                                  /\ events' = SubSeq(events, n + 1, Len(events))
    BY <1>7 DEF SelectRead
  <2>2. /\ UNCHANGED <<paths, queue>> /\ dpc' = "events" /\ buf = <<>>
    BY <1>3, <1>7 DEF SelectRead, PollerGoto
  <2>3. events \in Seq(Events) /\ n \in 0..Len(events)
    BY <2>1, BoundsAssumption DEF Local, Typed, TypeOK, MainTypes
  <2>4. Range(events) \subseteq Range(buf') \union Range(events')
    BY <2>1, <2>3, SplitKeepsEvents
  <2>5. Range(buf) = {}
    BY <2>2 DEF Range
  <2>6. \A m : Pending(m) => Pending(m)'
    BY <1>1, <2>2, <2>4, <2>5, PendingStays DEF procVars
  <2> QED
    BY <1>2, <2>2, <2>6
<1>8. CASE HandleEvent
  <2>1. /\ dpc' = "events" /\ UNCHANGED <<queue, events>> /\ buf # <<>> /\ buf' = Tail(buf)
        /\ paths' = IF Relevant(Head(buf)) THEN Append(paths, Head(buf).name) ELSE paths
    BY <1>8 DEF HandleEvent, PollerGoto, watchVars
  <2>2. buf \in Seq(Events) /\ paths \in Seq(Names)
    BY DEF Local, Typed, TypeOK, PollTypes
  <2>3. Range(buf) = Range(buf') \union {Head(buf)}
    BY <2>1, <2>2, RangeTail
  <2>4. Head(buf).name \in Names
    <3>1. Head(buf) \in Events
      BY <2>1, <2>2, HeadTailProperties
    <3> QED
      BY <3>1 DEF Events
  <2>5. /\ Range(paths) \subseteq Range(paths')
        /\ Relevant(Head(buf)) => Head(buf).name \in Range(paths')
    BY <2>1, <2>2, <2>4, RangeAppend
  <2>6. \A n : Pending(n) => Pending(n)'
    BY <1>1, <2>1, <2>3, <2>5 DEF Pending, procVars
  <2> QED
    BY <1>2, <2>1, <2>6
<1> QED
  BY <1>4, <1>5, <1>6, <1>7, <1>8 DEF PollerNext

(* A processor that has no file.  It gives a path up only when there is no  *)
(* file of that name.                                                       *)
LEMMA IdleHolds ==
    ASSUME Local, ClaimInvariant, ReadInvariant, TrackInvariant, NEW p \in Procs,
           ProcCheck(p) \/ DequeueTimeout(p) \/ Dequeue(p) \/ ClaimFails(p)
    PROVE  TrackInvariant'
<1>1. /\ UNCHANGED <<fresh, linked, up, seen, dpc, buf, events, paths>>
      /\ Aside /\ \A q \in Procs : q # p => pc'[q] = pc[q] /\ item'[q] = item[q]
  <2>1. Aside
    BY IdleAside
  <2> QED
    BY <2>1 DEF ProcCheck, DequeueTimeout, Dequeue, ClaimFails, ProcGoto, fileVars, watchVars,
         mainVars, pollVars, histVars, Local, Typed, TypeOK, ProcTypes
<1>2. ASSUME \A c \in linked : Pending(name[c]) => Pending(name[c])' PROVE TrackInvariant'
  BY <1>1, <1>2, AsideHolds DEF TrackInvariant
<1>3. CASE ProcCheck(p) \/ DequeueTimeout(p)
  <2>1. pc[p] # "claim" /\ queue' = queue
    BY <1>3 DEF ProcCheck, DequeueTimeout, ProcGoto
  <2>2. \A n : Pending(n) => Pending(n)'
    BY <1>1, <2>1, PendingStays
  <2>3. name' = name
    BY <1>1 DEF Aside
  <2> QED
    BY <1>2, <2>2, <2>3
<1>4. CASE Dequeue(p)
  <2>1. /\ pc[p] # "claim" /\ pc'[p] = "claim" /\ queue # <<>> /\ queue' = Tail(queue)
        /\ item'[p] = Head(queue)
    BY <1>4 DEF Dequeue, ProcGoto, Local, Typed, TypeOK, ProcTypes
  <2>2. queue \in Seq(Names)
    BY DEF Local, Typed, TypeOK, PollTypes
  <2>3. Range(queue) = Range(queue') \union {item'[p]}
    BY <2>1, <2>2, RangeTail
  <2>4. \A n : Pending(n) => Pending(n)'
    BY <1>1, <2>1, <2>3 DEF Pending
  <2>5. name' = name
    BY <1>1 DEF Aside
  <2> QED
    BY <1>2, <2>4, <2>5
<1>5. CASE ClaimFails(p)
  <2>1. queue' = queue /\ At(item[p]) = {} /\ name' = name
    BY <1>1, <1>5 DEF ClaimFails, Aside
  <2>2. \A c \in linked : item[p] # name[c]
    BY <2>1 DEF At
  <2>3. \A c \in linked : Pending(name[c]) => Pending(name[c])'
    BY <1>1, <2>1, <2>2 DEF Pending
  <2> QED
    BY <1>2, <2>3
<1> QED
  BY <1>3, <1>4, <1>5

-----------------------------------------------------------------------------
(* A processor at its file. *)

LEMMA ClaimHolds ==
    ASSUME UniqueNames, Local, ClaimInvariant, TrackInvariant, NEW p \in Procs, Claim(p)
    PROVE  TrackInvariant'
<1>1. PICK c \in Contents : TakesFile(p, c)
  BY ClaimEffect
<1>2. /\ UNCHANGED <<fresh, seen, dpc, buf, events, paths, queue, item>> /\ up /\ up'
      /\ pc[p] = "claim" /\ \A q \in Procs : q # p => pc'[q] = pc[q]
  BY ClaimStep DEF Claim, watchVars, pollVars, histVars
<1>3. ASSUME NEW d \in linked', Known(d)' PROVE Held(d)'
  <2>1. CASE d = c
    BY <1>1, <2>1 DEF TakesFile, Held
  <2>2. CASE d # c
    <3>1. d \in linked /\ d \in Contents /\ name'[d] = name[d]
      BY <1>1, <2>2 DEF TakesFile, Local, Typed, TypeOK, FileTypes
    <3>2. Held(d)
      BY <1>2, <1>3, <3>1 DEF Known, TrackInvariant, AllHeld
    <3>3. item[p] # name[d]
      BY <1>1, <2>2, <3>1 DEF TakesFile, ClaimInvariant, BaseKept, UniqueNames
    <3>4. Pending(name[d]) => Pending(name[d])'
      BY <1>2, <3>1, <3>3 DEF Pending
    <3>5. \A q \in Procs : Owns(q, d) => Owns(q, d)'
      BY <1>1, <3>1 DEF TakesFile
    <3> QED
      BY <3>2, <3>4, <3>5 DEF Held
  <2> QED
    BY <2>1, <2>2
<1>4. AllHeld'
  BY <1>3 DEF AllHeld
<1> QED
  BY <1>2, <1>4 DEF TrackInvariant

LEMMA ArchiveHolds ==
    ASSUME UniqueNames, Local, ClaimInvariant, TrackInvariant, NEW p \in Procs, Archive(p)
    PROVE  TrackInvariant'
<1>1. PICK c \in Contents : GivesFileBack(p, c)
  BY ArchiveEffect
<1>2. /\ UNCHANGED <<fresh, seen, dpc, buf, events, paths, queue, item>> /\ up /\ up'
      /\ pc[p] = "archive" /\ \A q \in Procs : q # p => pc'[q] = pc[q]
  BY ArchiveStep DEF Archive, watchVars, pollVars, histVars
<1>3. ASSUME NEW d \in linked', Known(d)' PROVE Held(d)'
  <2>1. d # c
    BY <1>1, <1>3 DEF GivesFileBack, Known, Done
  <2>2. d \in linked /\ d \in Contents /\ name'[d] = name[d]
    BY <1>1, <2>1 DEF GivesFileBack, Local, Typed, TypeOK, FileTypes
  <2>3. Held(d)
    BY <1>2, <1>3, <2>2 DEF Known, TrackInvariant, AllHeld
  <2>4. Pending(name[d]) => Pending(name[d])'
    BY <1>2, <2>2 DEF Pending
  <2>5. \A q \in Procs : Owns(q, d) => Owns(q, d)'
    BY <1>1, <2>1, <2>2, Ownership DEF GivesFileBack
  <2> QED
    BY <2>3, <2>4, <2>5 DEF Held
<1>4. AllHeld'
  BY <1>3 DEF AllHeld
<1> QED
  BY <1>2, <1>4 DEF TrackInvariant

LEMMA StreamHolds ==
    ASSUME Local, ClaimInvariant, TrackInvariant, NEW p \in Procs,
           Open(p) \/ Row(p) \/ UnableToLoad(p) \/ EndOfFile(p)
    PROVE  TrackInvariant'
<1>1. /\ OwnersStay /\ UNCHANGED <<name, linked, fresh, up, item>>
      /\ pc[p] # "claim" /\ \A q \in Procs : q # p => pc'[q] = pc[q]
  BY StreamStep DEF fileVars
<1>2. UNCHANGED <<seen, dpc, buf, events, paths, queue>>
  BY DEF Open, Row, UnableToLoad, EndOfFile, watchVars, pollVars
<1>3. \A n : Pending(n) => Pending(n)'
  BY <1>1, <1>2, PendingStays
<1>4. linked \subseteq Contents
  BY DEF Local, Typed, TypeOK, FileTypes
<1>5. AllHeld'
  BY <1>1, <1>2, <1>3, <1>4 DEF TrackInvariant, AllHeld, Known, Held, OwnersStay
<1> QED
  BY <1>1, <1>2, <1>5 DEF TrackInvariant

(* The close of an archived file queues an event that nobody needs. *)
LEMMA CloseHolds ==
    ASSUME Local, ClaimInvariant, ReadInvariant, TrackInvariant, Room, NEW p \in Procs, Close(p)
    PROVE  TrackInvariant'
<1>1. /\ UNCHANGED <<fresh, linked, up, dpc, buf, paths, queue>> /\ Aside
      /\ pc[p] = "close" /\ \A q \in Procs : q # p => pc'[q] = pc[q] /\ item'[q] = item[q]
  <2>1. Aside
    BY IdleAside
  <2> QED
    BY <2>1 DEF Close, ProcGoto, fileVars, mainVars, pollVars, Local, Typed, TypeOK, ProcTypes
<1>2. Post("IN_CLOSE", fd[p] \intersect linked) /\ fd[p] \intersect linked \subseteq Contents
  BY DEF Close, Local, Typed, TypeOK, FileTypes
<1>3. Range(events) \subseteq Range(events') /\ seen' \subseteq seen \union (fd[p] \intersect linked)
  BY <1>2, PostKeepsEvents
<1>4. \A c \in fd[p] : name[c].done
  BY <1>1 DEF ClaimInvariant, StreamsOwned
<1>5. \A n : Pending(n) => Pending(n)'
  BY <1>1, <1>3, PendingStays
<1>6. name' = name
  BY <1>1 DEF Aside
<1>7. AllHeld'
  BY <1>1, <1>3, <1>4, <1>5, <1>6, AsideHolds
<1>8. fresh' \intersect seen' = {}
  BY <1>1, <1>3 DEF TrackInvariant, ClaimInvariant, NothingOverwritten
<1> QED
  BY <1>1, <1>7, <1>8 DEF TrackInvariant

(* The other steps touch neither paths nor events. *)
LEMMA OthersHold ==
    ASSUME UniqueNames, Local, ClaimInvariant, ReadInvariant, TrackInvariant,
           (\E c \in Contents : Create(c)) \/ Interrupt \/ SignalThread \/ UNCHANGED vars
    PROVE  TrackInvariant'
<1>1. /\ Aside /\ UNCHANGED <<up, seen, dpc, buf, events, paths, queue, pc, item>>
      /\ fresh' \subseteq fresh
  <2>1. Aside
    BY OutsideAside DEF FileNext
  <2> QED
    BY <2>1 DEF Aside, Create, Interrupt, SignalThread, vars, fileVars, watchVars, mainVars,
         pollVars, procVars, histVars
<1>2. \A n : Pending(n) => Pending(n)'
  BY <1>1, PendingStays
<1>3. name' = name
  BY <1>1 DEF Aside
<1>4. AllHeld'
  BY <1>1, <1>2, <1>3, AsideHolds
<1> QED
  BY <1>1, <1>4 DEF TrackInvariant

LEMMA StepTrack ==
    ASSUME UniqueNames, MovedIn = {}, Local, ClaimInvariant, ReadInvariant, TrackInvariant, Room,
           [Next]_vars
    PROVE  TrackInvariant'
<1>1. CASE Forget
  BY <1>1 DEF Forget, fileVars, TrackInvariant, AllHeld, Known
<1>2. ASSUME NEW c \in Contents, FileNext(c) PROVE TrackInvariant'
  BY <1>2, ClosedIsHeld, OthersHold DEF FileNext, MoveIn
<1>3. ASSUME NEW p \in Procs, ProcNext(p) PROVE TrackInvariant'
  BY <1>3, IdleHolds, ClaimHolds, StreamHolds, ArchiveHolds, CloseHolds DEF ProcNext
<1> QED
  BY <1>1, <1>2, <1>3, PollerHolds, StartLists, OthersHold DEF Next, Exit, Crash

(* A discovered file is on its way to a processor, or a processor has it,   *)
(* or it is archived, also after crashes and whatever closes are reported,  *)
(* if files are written in the directory (a file that is renamed into it is *)
(* not noticed) and the kernel has room for the events.                     *)
THEOREM FilesStayTracked ==
    ASSUME UniqueNames, MovedIn = {}
    PROVE  Spec /\ []Room => []Tracked
<1>1. Local /\ ClaimInvariant /\ ReadInvariant /\ TrackInvariant /\ Room /\ [Next]_vars
          => TrackInvariant'
  BY StepTrack
<1>2. TrackInvariant => Tracked
  BY DEF TrackInvariant, AllHeld, Known, Held, Tracked
<1> QED
  BY <1>1, <1>2, InitTrack, LocalInvariant, ClaimInvariantHolds, ReadInvariantHolds, PTL DEF Spec
=============================================================================
