------------------------ MODULE BaselineRegistry_proofs ------------------------
(***************************************************************************)
(* Safety of the baseline registry, for any number of variants, baselines, *)
(* nested calls and edits: who holds the lock, what a lookup can miss, and *)
(* when a SIGHUP has had its effect.                                       *)
(***************************************************************************)
EXTENDS BaselineRegistry, SequenceTheorems, TLAPS

\* The calls a stack may hold.
LookupFrame ==
  [op : {"lookup"}, pc : {"list", "listing", "get", "getting"}, id : Ids,
   left : SUBSET Variants, stays : SUBSET Variants]
ReloadFrame ==
  [op : {"reload"}, pc : {"glob", "read", "swap", "swapping"},
   dirs : SUBSET { DirectoryOf[v] : v \in Variants }, left : SUBSET Variants,
   new : [Variants -> Ids \cup {None}]]
Frame == LookupFrame \cup ReloadFrame

RegTypeOK ==
  /\ directory \in Snapshots \cup {Broken}
  /\ loaded \in [Variants -> Ids \cup {None}]
  /\ lock \in Nat
  /\ stack \in Seq(Frame)
  /\ {sighup, alive, missed, settled} \subseteq BOOLEAN
  /\ ~alive => stack = <<>>

-----------------------------------------------------------------------------
(* What a step does to the stack.                                           *)

\* The top call moves on, returns, or is interrupted by another one.
MovesOn(frame) ==
  /\ stack # <<>> /\ Len(stack') = Depth /\ stack'[Depth] = frame
  /\ \A i \in 1 .. Depth - 1 : stack'[i] = stack[i]
Returns ==
  /\ stack # <<>> /\ Len(stack') = Depth - 1
  /\ \A i \in 1 .. Depth - 1 : stack'[i] = stack[i]
Calls(frame) ==
  /\ Len(stack') = Depth + 1 /\ stack'[Depth + 1] = frame
  /\ \A i \in 1 .. Depth : stack'[i] = stack[i]

LEMMA StepMovesOn ==
  ASSUME RegTypeOK, stack # <<>>, NEW frame \in Frame, Step(frame)
  PROVE  MovesOn(frame) /\ stack' \in Seq(Frame)
BY DEF RegTypeOK, Step, MovesOn, Depth

LEMMA FrontReturns ==
  ASSUME RegTypeOK, stack # <<>>, stack' = Front(stack)
  PROVE  Returns /\ stack' \in Seq(Frame)
<1>1. Len(stack) \in Nat /\ Len(stack) >= 1 /\ stack \in Seq(Frame)
  BY DEF RegTypeOK
<1> DEFINE rest == SubSeq(stack, 1, Len(stack) - 1)
<1>2. rest \in Seq(Frame) /\ Len(rest) = Len(stack) - 1
      /\ \A i \in 1 .. Len(stack) - 1 : rest[i] = stack[i]
  <2>1. \A i \in 1 .. Len(stack) - 1 : stack[1 + i - 1] = stack[i]
    BY <1>1
  <2>2. 1 \in 1 .. Len(stack) + 1 /\ Len(stack) - 1 \in (1 - 1) .. Len(stack)
        /\ (Len(stack) - 1) - 1 + 1 = Len(stack) - 1
    BY <1>1
  <2>3. QED
    BY <1>1, <2>1, <2>2, SubSeqProperties
<1>3. QED
  BY <1>2 DEF Front, Returns, Depth

LEMMA AppendCalls ==
  ASSUME RegTypeOK, NEW frame \in Frame, stack' = Append(stack, frame)
  PROVE  Calls(frame) /\ stack' \in Seq(Frame)
BY DEF RegTypeOK, Calls, Depth

\* The call that runs, in a state where one does.
LEMMA TopIsFrame ==
  ASSUME RegTypeOK, stack # <<>>
  PROVE  /\ Depth \in Nat /\ Depth >= 1 /\ Top = stack[Depth] /\ Top \in Frame
         /\ Top.pc \in {"list", "listing", "get", "getting"} => Top \in LookupFrame
         /\ Top.pc \in {"glob", "read", "swap", "swapping"} => Top \in ReloadFrame
BY DEF RegTypeOK, Depth, Top, Frame, LookupFrame, ReloadFrame

\* The frames the actions make of the one that runs.
Waiting(pc) == [Top EXCEPT !.pc = Locked[pc]]
Listed == [Top EXCEPT !.pc = "get", !.left = { v \in Variants : loaded[v] # None }]
Passed == [Top EXCEPT !.pc = "get", !.left = @ \ {FirstOf(@)}]
Globbed(d) ==
  [Top EXCEPT !.left = FilesIn(d), !.dirs = @ \ {d},
              !.pc = ReadsOn(FilesIn(d), Top.dirs \ {d})]
OneRead(v) ==
  [Top EXCEPT !.new[v] = directory[v], !.left = @ \ {v},
              !.pc = ReadsOn(Top.left \ {v}, Top.dirs)]

LEMMA WaitingLookup ==
  ASSUME RegTypeOK, stack # <<>>, NEW pc \in {"list", "get"}, Top.pc = pc
  PROVE  /\ Waiting(pc) \in LookupFrame
         /\ Waiting(pc).pc = (IF pc = "list" THEN "listing" ELSE "getting")
         /\ Waiting(pc).id = Top.id /\ Waiting(pc).left = Top.left
         /\ Waiting(pc).stays = Top.stays
<1>1. Top \in LookupFrame
  BY TopIsFrame
<1>2. Locked[pc] = (IF pc = "list" THEN "listing" ELSE "getting")
  BY DEF Locked
<1>3. QED
  BY <1>1, <1>2 DEF Waiting, LookupFrame

LEMMA WaitingReload ==
  ASSUME RegTypeOK, stack # <<>>, Top.pc = "swap"
  PROVE  /\ Waiting("swap") \in ReloadFrame /\ Waiting("swap").pc = "swapping"
         /\ Waiting("swap").left = Top.left /\ Waiting("swap").new = Top.new
         /\ Waiting("swap").dirs = Top.dirs
<1>1. Top \in ReloadFrame
  BY TopIsFrame
<1>2. Locked["swap"] = "swapping"
  BY DEF Locked
<1>3. QED
  BY <1>1, <1>2 DEF Waiting, ReloadFrame

LEMMA ListedIs ==
  ASSUME RegTypeOK, stack # <<>>, Top.pc = "listing"
  PROVE  /\ Listed \in LookupFrame /\ Listed.pc = "get"
         /\ Listed.left = { v \in Variants : loaded[v] # None }
         /\ Listed.id = Top.id /\ Listed.stays = Top.stays
<1>1. Top \in LookupFrame
  BY TopIsFrame
<1>2. QED
  BY <1>1 DEF Listed, LookupFrame

LEMMA PassedIs ==
  ASSUME RegTypeOK, stack # <<>>, Top.pc = "getting"
  PROVE  /\ Passed \in LookupFrame /\ Passed.pc = "get"
         /\ Passed.left = Top.left \ {FirstOf(Top.left)}
         /\ Passed.id = Top.id /\ Passed.stays = Top.stays
<1>1. Top \in LookupFrame
  BY TopIsFrame
<1>2. QED
  BY <1>1 DEF Passed, LookupFrame

\* A reload goes on to a pc that tells what it has left.
LEMMA ReadsOnIs ==
  ASSUME NEW left, NEW dirs
  PROVE  /\ ReadsOn(left, dirs) \in {"read", "glob", "swap"}
         /\ ReadsOn(left, dirs) # "read" => left = {}
         /\ ReadsOn(left, dirs) = "swap" => dirs = {}
BY DEF ReadsOn

LEMMA GlobbedIs ==
  ASSUME RegTypeOK, stack # <<>>, Top.pc = "glob", NEW d \in Top.dirs
  PROVE  /\ Globbed(d) \in ReloadFrame
         /\ Globbed(d).left = FilesIn(d) /\ Globbed(d).dirs = Top.dirs \ {d}
         /\ Globbed(d).new = Top.new
         /\ Globbed(d).pc \in {"read", "glob", "swap"}
         /\ Globbed(d).pc # "read" => FilesIn(d) = {}
         /\ Globbed(d).pc = "swap" => Top.dirs \ {d} = {}
<1>1. Top \in ReloadFrame
  BY TopIsFrame
<1> DEFINE files == FilesIn(d)
           rest == Top.dirs \ {d}
           goesOn == ReadsOn(files, rest)
<1>2. files \in SUBSET Variants
      /\ rest \in SUBSET { DirectoryOf[v] : v \in Variants }
  BY <1>1 DEF FilesIn, ReloadFrame
<1>3. /\ goesOn \in {"read", "glob", "swap"}
      /\ goesOn # "read" => files = {}
      /\ goesOn = "swap" => rest = {}
  BY ReadsOnIs
<1>4. Globbed(d) = [Top EXCEPT !.left = files, !.dirs = rest, !.pc = goesOn]
  BY <1>1 DEF Globbed, ReloadFrame
<1> HIDE DEF files, rest, goesOn
<1>5. /\ Globbed(d) \in ReloadFrame
      /\ Globbed(d).left = files /\ Globbed(d).dirs = rest
      /\ Globbed(d).new = Top.new /\ Globbed(d).pc = goesOn
  BY <1>1, <1>2, <1>3, <1>4 DEF ReloadFrame
<1>6. QED
  BY <1>3, <1>5 DEF files, rest

LEMMA OneReadIs ==
  ASSUME RegTypeOK, stack # <<>>, Top.pc = "read", NEW v \in Top.left, Loads(v)
  PROVE  /\ OneRead(v) \in ReloadFrame
         /\ OneRead(v).left = Top.left \ {v} /\ OneRead(v).dirs = Top.dirs
         /\ OneRead(v).pc \in {"read", "glob", "swap"}
         /\ OneRead(v).pc # "read" => Top.left \ {v} = {}
         /\ OneRead(v).pc = "swap" => Top.dirs = {}
         /\ \A w \in Variants :
              OneRead(v).new[w] = IF w = v THEN directory[w] ELSE Top.new[w]
<1>1. Top \in ReloadFrame /\ v \in Variants
  BY TopIsFrame DEF ReloadFrame
<1>2. directory \in [Variants -> Ids \cup {None}]
  BY SnapshotsAssumption DEF RegTypeOK, Loads
<1> DEFINE goesOn == ReadsOn(Top.left \ {v}, Top.dirs)
<1>3. /\ goesOn \in {"read", "glob", "swap"}
      /\ goesOn # "read" => Top.left \ {v} = {}
      /\ goesOn = "swap" => Top.dirs = {}
  BY ReadsOnIs
<1>4. OneRead(v) = [Top EXCEPT !.new[v] = directory[v], !.left = @ \ {v}, !.pc = goesOn]
  BY DEF OneRead
<1>5. [Top.new EXCEPT ![v] = directory[v]] \in [Variants -> Ids \cup {None}]
  BY <1>1, <1>2 DEF ReloadFrame
<1> HIDE DEF goesOn
<1>6. /\ OneRead(v).new = [Top.new EXCEPT ![v] = directory[v]]
      /\ OneRead(v).left = Top.left \ {v} /\ OneRead(v).dirs = Top.dirs
      /\ OneRead(v).pc = goesOn
  BY <1>1, <1>4 DEF ReloadFrame
<1>7. OneRead(v) \in ReloadFrame
  BY <1>1, <1>3, <1>4, <1>5 DEF ReloadFrame
<1>8. QED
  BY <1>1, <1>3, <1>6, <1>7 DEF ReloadFrame

LEMMA NewCalls ==
  ASSUME RegTypeOK
  PROVE  /\ ReloadCall \in ReloadFrame
         /\ \A id \in Ids :
              /\ LookupCall(id) \in LookupFrame
              /\ LookupCall(id).stays = { v \in Variants : loaded[v] = id }
BY DEF ReloadCall, LookupCall, ReloadFrame, LookupFrame

\* The stack after a swap: the reload has returned, and lookups below it know
\* which variants still keep what they look for.
LEMMA SwapReturns ==
  ASSUME RegTypeOK, Swap
  PROVE  /\ stack # <<>> /\ Top \in ReloadFrame /\ Top.pc = "swapping"
         /\ stack' \in Seq(Frame) /\ Len(stack') = Depth - 1
         /\ \A i \in 1 .. Depth - 1 :
              /\ stack[i] \in ReloadFrame => stack'[i] = stack[i]
              /\ stack[i] \in LookupFrame =>
                   /\ stack'[i] \in LookupFrame
                   /\ stack'[i].pc = stack[i].pc /\ stack'[i].id = stack[i].id
                   /\ stack'[i].left = stack[i].left
                   /\ stack'[i].stays =
                        { v \in stack[i].stays : Top.new[v] = stack[i].id }
<1>1. stack # <<>> /\ Top \in ReloadFrame /\ Top.pc = "swapping" /\ Depth \in Nat
      /\ Depth >= 1 /\ Depth = Len(stack)
  BY TopIsFrame DEF Swap, At, Depth
<1> DEFINE moved(i) == IF stack[i].op = "lookup"
                       THEN [stack[i] EXCEPT !.stays =
                               { v \in @ : Top.new[v] = stack[i].id }]
                       ELSE stack[i]
<1>2. stack' = [i \in 1 .. Depth - 1 |-> moved(i)]
  BY DEF Swap
<1>3. ASSUME NEW i \in 1 .. Depth - 1
      PROVE  stack[i] \in Frame
  BY <1>1 DEF RegTypeOK
<1>4. ASSUME NEW i \in 1 .. Depth - 1
      PROVE  /\ moved(i) \in Frame
             /\ stack[i] \in ReloadFrame => moved(i) = stack[i]
             /\ stack[i] \in LookupFrame =>
                  /\ moved(i) \in LookupFrame
                  /\ moved(i).pc = stack[i].pc /\ moved(i).id = stack[i].id
                  /\ moved(i).left = stack[i].left
                  /\ moved(i).stays =
                       { v \in stack[i].stays : Top.new[v] = stack[i].id }
  <2>1. CASE stack[i] \in ReloadFrame
    BY <2>1 DEF ReloadFrame, LookupFrame, Frame
  <2>2. CASE stack[i] \in LookupFrame
    <3>1. stack[i].op = "lookup" /\ stack[i] \notin ReloadFrame
      BY <2>2 DEF ReloadFrame, LookupFrame
    <3>2. moved(i) = [stack[i] EXCEPT !.stays =
                        { v \in stack[i].stays : Top.new[v] = stack[i].id }]
      BY <3>1
    <3>3. QED
      BY <2>2, <3>1, <3>2 DEF LookupFrame, Frame
  <2>3. QED
    BY <1>3, <2>1, <2>2 DEF Frame
<1> HIDE DEF moved
<1>5. stack' \in [1 .. Depth - 1 -> Frame] /\ Depth - 1 \in Nat
  BY <1>1, <1>2, <1>4
<1>6. stack' \in Seq(Frame) /\ Len(stack') = Depth - 1
  BY <1>5
<1>7. QED
  BY <1>1, <1>2, <1>4, <1>6

-----------------------------------------------------------------------------
(* Types.                                                                   *)

LEMMA RegInitType ==
  RegInit => RegTypeOK
<1> SUFFICES ASSUME RegInit PROVE RegTypeOK
  OBVIOUS
<1>1. directory \in Snapshots /\ loaded \in [Variants -> Ids \cup {None}]
  BY SnapshotsAssumption DEF RegInit
<1>2. sighup \in BOOLEAN /\ alive \in BOOLEAN /\ missed \in BOOLEAN
      /\ settled \in BOOLEAN /\ alive
  BY DEF RegInit
<1>3. stack \in Seq(Frame) /\ lock \in Nat
  BY DEF RegInit
<1>4. QED
  BY <1>1, <1>2, <1>3 DEF RegTypeOK

LEMMA RegNextType ==
  RegTypeOK /\ [RegNext]_regVars => RegTypeOK'
<1> SUFFICES ASSUME RegTypeOK, [RegNext]_regVars PROVE RegTypeOK'
  OBVIOUS
<1> USE DEF history
<1>1. /\ stack # <<>> => Depth \in Nat /\ Top \in Frame
      /\ LookupFrame \subseteq Frame /\ ReloadFrame \subseteq Frame
      /\ <<>> \in Seq(Frame)
  BY TopIsFrame DEF Frame
<1>2. ASSUME NEW id \in Ids, BeginLookup(id)
      PROVE  RegTypeOK'
  <2>1. LookupCall(id) \in Frame
    BY <1>1, NewCalls
  <2>2. <<LookupCall(id)>> \in Seq(Frame)
    BY <2>1
  <2>3. QED
    BY <1>2, <2>2 DEF BeginLookup, RegTypeOK
<1>3. CASE Acquire("list")
  <2>1. stack' \in Seq(Frame) /\ stack # <<>>
    BY <1>1, <1>3, WaitingLookup, StepMovesOn DEF Acquire, At, Waiting
  <2>2. QED
    BY <1>1, <1>3, <2>1 DEF Acquire, At, RegTypeOK
<1>4. CASE Acquire("get")
  <2>1. stack' \in Seq(Frame) /\ stack # <<>>
    BY <1>1, <1>4, WaitingLookup, StepMovesOn DEF Acquire, At, Waiting
  <2>2. QED
    BY <1>1, <1>4, <2>1 DEF Acquire, At, RegTypeOK
<1>5. CASE Acquire("swap")
  <2>1. stack' \in Seq(Frame) /\ stack # <<>>
    BY <1>1, <1>5, WaitingReload, StepMovesOn DEF Acquire, At, Waiting
  <2>2. QED
    BY <1>1, <1>5, <2>1 DEF Acquire, At, RegTypeOK
<1>6. CASE ListVariants
  <2>1. stack' \in Seq(Frame) /\ stack # <<>>
    BY <1>1, <1>6, ListedIs, StepMovesOn DEF ListVariants, At, Listed
  <2>2. QED
    BY <1>6, <2>1 DEF ListVariants, At, RegTypeOK
<1>7. CASE GetVariant
  <2>1. stack # <<>> /\ (Step(Passed) \/ stack' = Front(stack)) /\ Passed \in Frame
    BY <1>1, <1>7, PassedIs DEF GetVariant, At, Passed
  <2>2. stack' \in Seq(Frame)
    BY <2>1, StepMovesOn, FrontReturns
  <2>3. QED
    BY <1>7, <2>2 DEF GetVariant, At, RegTypeOK
<1>8. CASE NotFound
  <2>1. stack' \in Seq(Frame)
    BY <1>8, FrontReturns DEF NotFound, At
  <2>2. missed' \in BOOLEAN
    BY <1>8 DEF NotFound, RegTypeOK
  <2>3. QED
    BY <1>8, <2>1, <2>2 DEF NotFound, At, RegTypeOK
<1>9. CASE Hangup
  BY <1>9 DEF Hangup, RegTypeOK
<1>10. CASE RunHandler
  <2>1. stack' \in Seq(Frame)
    BY <1>1, <1>10, NewCalls, AppendCalls DEF RunHandler
  <2>2. settled' \in BOOLEAN
    BY <1>10 DEF RunHandler, RegTypeOK
  <2>3. QED
    BY <1>10, <2>1, <2>2 DEF RunHandler, RegTypeOK
<1>11. CASE ReadFile
  <2>1. stack' \in Seq(Frame)
    BY <1>1, <1>11, OneReadIs, StepMovesOn DEF ReadFile, At, OneRead
  <2>2. QED
    BY <1>11, <2>1 DEF ReadFile, At, RegTypeOK
<1>12. CASE ListFiles
  <2>1. stack' \in Seq(Frame)
    BY <1>1, <1>12, GlobbedIs, StepMovesOn DEF ListFiles, At, Globbed
  <2>2. QED
    BY <1>12, <2>1 DEF ListFiles, At, RegTypeOK
<1>13. CASE ReadFails
  <2>1. alive' \in BOOLEAN /\ sighup' \in BOOLEAN
    BY <1>13 DEF ReadFails, RegTypeOK
  <2>2. QED
    BY <1>1, <1>13, <2>1 DEF ReadFails, RegTypeOK
<1>14. CASE Swap
  <2>1. stack' \in Seq(Frame) /\ Top.new \in [Variants -> Ids \cup {None}]
    BY <1>14, SwapReturns DEF ReloadFrame
  <2>2. QED
    BY <1>14, <2>1 DEF Swap, At, RegTypeOK
<1>15. ASSUME NEW content \in Snapshots \cup {Broken}, Edit(content)
       PROVE  RegTypeOK'
  BY <1>15 DEF Edit, RegTypeOK
<1>16. CASE Restart
  BY <1>16, SnapshotsAssumption DEF Restart, RegTypeOK
<1>17. CASE UNCHANGED regVars
  BY <1>17 DEF regVars, RegTypeOK
<1>18. QED
  BY <1>2, <1>3, <1>4, <1>5, <1>6, <1>7, <1>8, <1>9, <1>10, <1>11, <1>13, <1>14,
     <1>15, <1>16, <1>17, <1>12 DEF RegNext, LookupAcquires

THEOREM RegTypeCorrect ==
  RegSpec => []RegTypeOK
BY RegInitType, RegNextType, PTL DEF RegSpec

-----------------------------------------------------------------------------
(* The lock. LockDiscipline is inductive: a call takes the lock only when   *)
(* it is free, and whoever leaves a locked section is the call on top.      *)

LockedPcs == {"listing", "getting", "swapping"}

LEMMA RegNextLock ==
  RegTypeOK /\ LockDiscipline /\ [RegNext]_regVars => LockDiscipline'
<1> SUFFICES ASSUME RegTypeOK, LockDiscipline, [RegNext]_regVars
             PROVE  LockDiscipline'
  OBVIOUS
<1> USE DEF history
<1>1. lock \in Nat /\ Depth \in Nat /\ Depth = Len(stack) /\ lock <= Depth
      /\ \A i \in 1 .. Depth : stack[i].pc \in LockedPcs <=> lock = i
  BY DEF LockDiscipline, RegTypeOK, Depth, LockedPcs
<1>2. stack # <<>> => Depth >= 1 /\ Top = stack[Depth]
  BY TopIsFrame
<1>3. Depth' = Len(stack')
  BY DEF Depth
<1>4. SUFFICES lock' <= Len(stack')
               /\ \A i \in 1 .. Len(stack') : stack'[i].pc \in LockedPcs <=> lock' = i
  BY <1>3 DEF LockDiscipline, LockedPcs
<1>5. ASSUME NEW frame, MovesOn(frame),
             \/ lock = 0 /\ lock' = Depth /\ frame.pc \in LockedPcs
             \/ lock = Depth /\ lock' = 0 /\ frame.pc \notin LockedPcs
             \/ Top.pc \notin LockedPcs /\ lock' = lock /\ frame.pc \notin LockedPcs
      PROVE  lock' <= Len(stack')
             /\ \A i \in 1 .. Len(stack') : stack'[i].pc \in LockedPcs <=> lock' = i
  BY <1>1, <1>2, <1>5 DEF MovesOn
<1>6. ASSUME Len(stack') = Depth - 1, stack # <<>>,
             \A i \in 1 .. Depth - 1 : stack'[i].pc = stack[i].pc,
             \/ Top.pc \notin LockedPcs /\ lock' = lock
             \/ Top.pc \in LockedPcs /\ lock' = 0
      PROVE  lock' <= Len(stack')
             /\ \A i \in 1 .. Len(stack') : stack'[i].pc \in LockedPcs <=> lock' = i
  BY <1>1, <1>2, <1>6
<1>7. ASSUME NEW id \in Ids, BeginLookup(id)
      PROVE  lock' <= Len(stack')
             /\ \A i \in 1 .. Len(stack') : stack'[i].pc \in LockedPcs <=> lock' = i
  BY <1>1, <1>7 DEF BeginLookup, LookupCall, LockedPcs
<1>8. CASE LookupAcquires
  <2>1. PICK pc \in {"list", "get"} : Acquire(pc)
    BY <1>8 DEF LookupAcquires
  <2>2. stack # <<>> /\ Waiting(pc) \in Frame /\ Waiting(pc).pc \in LockedPcs
    BY <2>1, WaitingLookup DEF Acquire, At, Frame, LockedPcs
  <2>3. MovesOn(Waiting(pc))
    BY <2>1, <2>2, StepMovesOn DEF Acquire, Waiting
  <2>4. QED
    BY <1>5, <2>1, <2>2, <2>3 DEF Acquire
<1>9. CASE Acquire("swap")
  <2>1. stack # <<>> /\ Waiting("swap") \in Frame /\ Waiting("swap").pc \in LockedPcs
    BY <1>9, WaitingReload DEF Acquire, At, Frame, LockedPcs
  <2>2. MovesOn(Waiting("swap"))
    BY <1>9, <2>1, StepMovesOn DEF Acquire, Waiting
  <2>3. QED
    BY <1>5, <1>9, <2>1, <2>2 DEF Acquire
<1>10. CASE ListVariants
  <2>1. stack # <<>> /\ Listed \in Frame /\ Listed.pc \notin LockedPcs /\ Top.pc \in LockedPcs
    BY <1>10, ListedIs DEF ListVariants, At, Frame, LockedPcs
  <2>2. MovesOn(Listed)
    BY <1>10, <2>1, StepMovesOn DEF ListVariants, Listed
  <2>3. lock = Depth
    BY <1>1, <1>2, <2>1
  <2>4. QED
    BY <1>5, <1>10, <2>1, <2>2, <2>3 DEF ListVariants
<1>11. CASE GetVariant
  <2>1. stack # <<>> /\ Passed \in Frame /\ Passed.pc \notin LockedPcs /\ Top.pc \in LockedPcs
    BY <1>11, PassedIs DEF GetVariant, At, Frame, LockedPcs
  <2>2. MovesOn(Passed) \/ Returns
    BY <1>11, <2>1, StepMovesOn, FrontReturns DEF GetVariant, Passed
  <2>3. lock = Depth /\ lock' = 0
    BY <1>1, <1>2, <1>11, <2>1 DEF GetVariant
  <2>4. QED
    BY <1>5, <1>6, <2>1, <2>2, <2>3 DEF Returns
<1>12. CASE NotFound
  <2>1. stack # <<>> /\ Returns /\ Top.pc \notin LockedPcs /\ lock' = lock
    BY <1>12, FrontReturns DEF NotFound, At, LockedPcs
  <2>2. QED
    BY <1>6, <2>1 DEF Returns
<1>13. CASE RunHandler
  <2>1. Calls(ReloadCall)
    BY <1>13, NewCalls, AppendCalls DEF RunHandler, Frame
  <2>2. ReloadCall.pc \notin LockedPcs /\ lock' = lock
    BY <1>13 DEF RunHandler, ReloadCall, LockedPcs
  <2>3. QED
    BY <1>1, <2>1, <2>2 DEF Calls
<1>14. CASE ReadFile
  <2>1. PICK v \in Top.left : Loads(v) /\ Step(OneRead(v))
    BY <1>14 DEF ReadFile, OneRead
  <2>2. stack # <<>> /\ OneRead(v) \in Frame /\ OneRead(v).pc \notin LockedPcs
        /\ Top.pc \notin LockedPcs
    BY <1>14, <2>1, OneReadIs DEF ReadFile, At, Frame, LockedPcs
  <2>3. MovesOn(OneRead(v))
    BY <2>1, <2>2, StepMovesOn
  <2>4. QED
    BY <1>5, <1>14, <2>2, <2>3 DEF ReadFile
<1>15. CASE ListFiles
  <2>1. PICK d \in Top.dirs : Step(Globbed(d))
    BY <1>15 DEF ListFiles, Globbed
  <2>2. stack # <<>> /\ Globbed(d) \in Frame /\ Globbed(d).pc \notin LockedPcs
        /\ Top.pc \notin LockedPcs
    BY <1>15, <2>1, GlobbedIs DEF ListFiles, At, Frame, LockedPcs
  <2>3. MovesOn(Globbed(d))
    BY <2>1, <2>2, StepMovesOn
  <2>4. QED
    BY <1>5, <1>15, <2>2, <2>3 DEF ListFiles
<1>16. CASE ReadFails
  BY <1>16 DEF ReadFails
<1>17. CASE Swap
  <2>1. /\ stack # <<>> /\ Top.pc \in LockedPcs /\ Len(stack') = Depth - 1
        /\ \A i \in 1 .. Depth - 1 : stack[i] \in Frame /\ stack'[i].pc = stack[i].pc
    BY <1>1, <1>17, SwapReturns DEF RegTypeOK, Frame, LockedPcs
  <2>2. QED
    BY <1>6, <1>17, <2>1 DEF Swap
<1>18. CASE Hangup \/ Restart \/ (\E content \in Snapshots \cup {Broken} : Edit(content))
            \/ UNCHANGED regVars
  <2>1. stack' = stack /\ lock' = lock
    BY <1>18 DEF Hangup, Restart, Edit, regVars
  <2>2. QED
    BY <1>1, <2>1
<1>19. QED
  BY <1>7, <1>8, <1>9, <1>10, <1>11, <1>12, <1>13, <1>14, <1>16, <1>17, <1>18,
     <1>15 DEF RegNext

\* The lock is held by the call inside a locked section and by no other,
\* however calls were interrupted, nested and unwound.
THEOREM LockIsDisciplined ==
  RegSpec => []LockDiscipline
<1>1. RegInit => LockDiscipline
  BY DEF RegInit, LockDiscipline, Depth
<1>2. QED
  BY <1>1, RegTypeCorrect, RegNextLock, PTL DEF RegSpec

-----------------------------------------------------------------------------
(* Lookups and SIGHUPs: what a call in progress knows of the registry.      *)

\* A lookup still has before it every variant that has kept its baseline.
LookupOK(frame, dict) ==
  frame \in LookupFrame =>
    /\ \A v \in frame.stays : dict[v] = frame.id
    /\ frame.pc \in {"get", "getting"} => frame.stays \subseteq frame.left

\* A reload has read nothing of the directories it has not listed yet; of the
\* others, one that began after the last edit has read what is there now.
ReloadOK(frame, files, current) ==
  frame \in ReloadFrame =>
    /\ frame.pc # "read" => frame.left = {}
    /\ frame.pc # "glob" => Variants # {}
    /\ frame.pc \in {"swap", "swapping"} => frame.dirs = {}
    /\ \A v \in frame.left : DirectoryOf[v] \notin frame.dirs
    /\ \A v \in Variants : DirectoryOf[v] \in frame.dirs => frame.new[v] = None
    /\ current => \A v \in Variants \ frame.left :
                    DirectoryOf[v] \notin frame.dirs =>
                      files # Broken /\ frame.new[v] = files[v]

OnlyLookups == \A i \in 1 .. Len(stack) : stack[i] \in LookupFrame

\* The inductive invariant.
CallsInv ==
  /\ ~missed
  /\ \A i \in 1 .. Len(stack) : /\ LookupOK(stack[i], loaded)
                                /\ ReloadOK(stack[i], directory, settled)
  /\ alive /\ settled /\ OnlyLookups => loaded = directory

LEMMA FrameKinds ==
  \A f \in Frame : /\ f \in ReloadFrame <=> f.op = "reload"
                   /\ f \in ReloadFrame <=> f \notin LookupFrame
BY DEF Frame, ReloadFrame, LookupFrame

LEMMA ReloadingIs ==
  ASSUME RegTypeOK
  PROVE  Reloading <=> ~OnlyLookups
<1>1. DOMAIN stack = 1 .. Len(stack) /\ \A i \in 1 .. Len(stack) : stack[i] \in Frame
  BY DEF RegTypeOK
<1>2. QED
  BY <1>1, FrameKinds DEF Reloading, OnlyLookups

\* A step of the top call that leaves the registry and its files alone.
LEMMA QuietStep ==
  ASSUME RegTypeOK, CallsInv, NEW frame \in Frame,
         MovesOn(frame) \/ Returns \/ Calls(frame),
         UNCHANGED <<loaded, directory, settled, missed, alive>>,
         LookupOK(frame, loaded), ReloadOK(frame, directory, settled),
         MovesOn(frame) => (frame \in LookupFrame <=> Top \in LookupFrame),
         Returns => Top \in LookupFrame
  PROVE  CallsInv'
<1>1. /\ Depth = Len(stack) /\ Depth \in Nat
      /\ stack # <<>> => Depth >= 1 /\ Top = stack[Depth]
  BY TopIsFrame DEF RegTypeOK, Depth
<1>2. ASSUME NEW i \in 1 .. Len(stack')
      PROVE  /\ LookupOK(stack'[i], loaded)
             /\ ReloadOK(stack'[i], directory, settled)
  <2>1. stack'[i] = frame \/ (i \in 1 .. Depth /\ stack'[i] = stack[i])
    BY <1>1 DEF MovesOn, Returns, Calls
  <2>2. QED
    BY <1>1, <2>1 DEF CallsInv
<1>3. OnlyLookups' => OnlyLookups
  <2>1. CASE MovesOn(frame)
    BY <1>1, <2>1 DEF MovesOn, OnlyLookups
  <2>2. CASE Returns
    BY <1>1, <2>2 DEF Returns, OnlyLookups
  <2>3. CASE Calls(frame)
    BY <1>1, <2>3 DEF Calls, OnlyLookups
  <2>4. QED
    BY <2>1, <2>2, <2>3
<1>4. QED
  BY <1>2, <1>3 DEF CallsInv

LEMMA RegNextCalls ==
  RegTypeOK /\ CallsInv /\ [RegNext]_regVars => CallsInv'
<1> SUFFICES ASSUME RegTypeOK, CallsInv, [RegNext]_regVars PROVE CallsInv'
  OBVIOUS
<1> USE DEF history
<1>1. /\ Depth = Len(stack) /\ Depth \in Nat
      /\ stack # <<>> => /\ Depth >= 1 /\ Top = stack[Depth] /\ Top \in Frame
                         /\ LookupOK(Top, loaded) /\ ReloadOK(Top, directory, settled)
  BY TopIsFrame DEF RegTypeOK, Depth, CallsInv
<1>2. LookupFrame \subseteq Frame /\ ReloadFrame \subseteq Frame
      /\ LookupFrame \cap ReloadFrame = {}
  BY FrameKinds DEF Frame
<1>3. ASSUME NEW id \in Ids, BeginLookup(id)
      PROVE  CallsInv'
  <2>1. LookupCall(id) \in LookupFrame /\ LookupOK(LookupCall(id), loaded)
    BY NewCalls DEF LookupOK, LookupCall
  <2>2. Calls(LookupCall(id))
    BY <1>1, <1>3 DEF BeginLookup, Calls
  <2>3. ~MovesOn(LookupCall(id)) /\ ~Returns
    BY <1>3 DEF BeginLookup, MovesOn, Returns
  <2>4. QED
    BY <1>2, <1>3, <2>1, <2>2, <2>3, QuietStep DEF BeginLookup, ReloadOK
<1>4. CASE LookupAcquires
  <2>1. PICK pc \in {"list", "get"} : Acquire(pc)
    BY <1>4 DEF LookupAcquires
  <2> DEFINE f == Waiting(pc)
  <2>2. /\ stack # <<>> /\ Top \in LookupFrame /\ Top.pc = pc /\ f \in LookupFrame
        /\ f.pc = (IF pc = "list" THEN "listing" ELSE "getting")
        /\ f.id = Top.id /\ f.left = Top.left /\ f.stays = Top.stays
    BY <2>1, WaitingLookup, TopIsFrame DEF Acquire, At
  <2>3. MovesOn(f)
    BY <1>2, <2>1, <2>2, StepMovesOn DEF Acquire, Waiting
  <2> HIDE DEF f
  <2>4. LookupOK(f, loaded) /\ ReloadOK(f, directory, settled)
    BY <1>1, <1>2, <2>2 DEF LookupOK, ReloadOK
  <2>5. ~Returns /\ ~Calls(f)
    BY <1>1, <2>3 DEF MovesOn, Returns, Calls
  <2>6. QED
    BY <1>2, <2>1, <2>2, <2>3, <2>4, <2>5, QuietStep DEF Acquire
<1>5. CASE Acquire("swap")
  <2> DEFINE f == Waiting("swap")
  <2>1. /\ stack # <<>> /\ Top \in ReloadFrame /\ Top.pc = "swap" /\ f \in ReloadFrame
        /\ f.pc = "swapping" /\ f.left = Top.left /\ f.new = Top.new
        /\ f.dirs = Top.dirs
    BY <1>5, WaitingReload, TopIsFrame DEF Acquire, At
  <2>2. MovesOn(f)
    BY <1>2, <1>5, <2>1, StepMovesOn DEF Acquire, Waiting
  <2> HIDE DEF f
  <2>3. LookupOK(f, loaded) /\ ReloadOK(f, directory, settled)
    BY <1>1, <1>2, <2>1 DEF LookupOK, ReloadOK
  <2>4. ~Returns /\ ~Calls(f)
    BY <1>1, <2>2 DEF MovesOn, Returns, Calls
  <2>5. QED
    BY <1>2, <1>5, <2>1, <2>2, <2>3, <2>4, QuietStep DEF Acquire
<1>6. CASE ListVariants
  <2>1. /\ stack # <<>> /\ Top \in LookupFrame /\ Listed \in LookupFrame
        /\ Listed.left = { v \in Variants : loaded[v] # None }
        /\ Listed.id = Top.id /\ Listed.stays = Top.stays
    BY <1>6, ListedIs, TopIsFrame DEF ListVariants, At
  <2>2. MovesOn(Listed)
    BY <1>2, <1>6, <2>1, StepMovesOn DEF ListVariants, Listed
  <2>3. \A v \in Top.stays : v \in Variants /\ loaded[v] = Top.id /\ Top.id # None
    BY <1>1, <2>1, NoneIsNoId DEF LookupOK, LookupFrame
  <2>4. LookupOK(Listed, loaded) /\ ReloadOK(Listed, directory, settled)
    BY <1>2, <2>1, <2>3 DEF LookupOK, ReloadOK
  <2>5. ~Returns /\ ~Calls(Listed)
    BY <1>1, <2>2 DEF MovesOn, Returns, Calls
  <2>6. QED
    BY <1>2, <1>6, <2>1, <2>2, <2>4, <2>5, QuietStep DEF ListVariants
<1>7. CASE GetVariant
  <2>1. /\ stack # <<>> /\ Top \in LookupFrame /\ Top.pc = "getting" /\ Passed \in LookupFrame
        /\ Passed.left = Top.left \ {FirstOf(Top.left)}
        /\ Passed.id = Top.id /\ Passed.stays = Top.stays
    BY <1>7, PassedIs, TopIsFrame DEF GetVariant, At
  <2>2. CASE loaded[FirstOf(Top.left)] = Top.id
    <3>1. Returns
      BY <1>7, <2>1, <2>2, FrontReturns DEF GetVariant
    <3>2. ~MovesOn(Top) /\ ~Calls(Top)
      BY <1>1, <3>1 DEF MovesOn, Returns, Calls
    <3>3. QED
      BY <1>1, <1>7, <2>1, <3>1, <3>2, QuietStep DEF GetVariant
  <2>3. CASE loaded[FirstOf(Top.left)] # Top.id
    <3>1. MovesOn(Passed)
      BY <1>2, <1>7, <2>1, <2>3, StepMovesOn DEF GetVariant, Passed
    <3>2. FirstOf(Top.left) \notin Top.stays
      BY <1>1, <2>1, <2>3 DEF LookupOK
    <3>3. LookupOK(Passed, loaded) /\ ReloadOK(Passed, directory, settled)
      BY <1>1, <1>2, <2>1, <3>2 DEF LookupOK, ReloadOK
    <3>4. ~Returns /\ ~Calls(Passed)
      BY <1>1, <3>1 DEF MovesOn, Returns, Calls
    <3>5. QED
      BY <1>2, <1>7, <2>1, <3>1, <3>3, <3>4, QuietStep DEF GetVariant
  <2>4. QED
    BY <2>2, <2>3
<1>8. CASE NotFound
  <2>1. stack # <<>> /\ Top \in LookupFrame /\ Top.pc = "get" /\ Top.left = {}
    BY <1>8, TopIsFrame DEF NotFound, At
  <2>2. Top.stays = {}
    BY <1>1, <2>1 DEF LookupOK
  <2>3. missed' = missed
    BY <1>8, <2>2 DEF NotFound, RegTypeOK
  <2>4. Returns
    BY <1>8, <2>1, FrontReturns DEF NotFound
  <2>5. ~MovesOn(Top) /\ ~Calls(Top)
    BY <1>1, <2>4 DEF MovesOn, Returns, Calls
  <2>6. QED
    BY <1>1, <1>8, <2>1, <2>3, <2>4, <2>5, QuietStep DEF NotFound
<1>9. CASE RunHandler
  <2>1. ReloadCall \in ReloadFrame /\ Calls(ReloadCall)
    BY <1>2, <1>9, NewCalls, AppendCalls DEF RunHandler
  <2>2. \A current : LookupOK(ReloadCall, loaded) /\ ReloadOK(ReloadCall, directory, current)
    BY <1>2, <2>1 DEF LookupOK, ReloadOK, ReloadCall
  <2>3. ~OnlyLookups'
    BY <1>1, <1>2, <2>1 DEF Calls, OnlyLookups
  <2>4. settled' => settled \/ OnlyLookups
    BY <1>9, ReloadingIs DEF RunHandler
  <2>5. ASSUME NEW i \in 1 .. Depth
        PROVE  LookupOK(stack[i], loaded) /\ ReloadOK(stack[i], directory, settled')
    BY <1>1, <1>2, <2>4 DEF CallsInv, ReloadOK, OnlyLookups
  <2>6. ASSUME NEW i \in 1 .. Len(stack')
        PROVE  LookupOK(stack'[i], loaded) /\ ReloadOK(stack'[i], directory, settled')
    BY <1>1, <2>1, <2>2, <2>5 DEF Calls
  <2>7. QED
    BY <1>9, <2>3, <2>6 DEF RunHandler, CallsInv
<1>10. CASE ReadFile
  <2>1. PICK v \in Top.left : Loads(v) /\ Step(OneRead(v))
    BY <1>10 DEF ReadFile, OneRead
  <2> DEFINE f == OneRead(v)
  <2>2. /\ stack # <<>> /\ Top \in ReloadFrame /\ directory # Broken
        /\ f \in ReloadFrame /\ f.left = Top.left \ {v} /\ f.dirs = Top.dirs
        /\ f.pc # "read" => f.left = {}
        /\ f.pc \in {"swap", "swapping"} => f.dirs = {}
        /\ Variants # {}
        /\ \A w \in Variants : f.new[w] = IF w = v THEN directory[w] ELSE Top.new[w]
    BY <1>10, <2>1, OneReadIs, TopIsFrame DEF ReadFile, At, Loads, ReloadFrame
  <2>3. MovesOn(f)
    BY <1>2, <2>1, <2>2, StepMovesOn
  <2> HIDE DEF f
  <2>4. LookupOK(f, loaded) /\ ReloadOK(f, directory, settled)
    <3>1. \A w \in Variants : DirectoryOf[w] \in Top.dirs => w # v
      BY <1>1, <2>1, <2>2 DEF ReloadOK
    <3>2. QED
      BY <1>1, <1>2, <2>2, <3>1 DEF LookupOK, ReloadOK
  <2>5. ~Returns /\ ~Calls(f)
    BY <1>1, <2>3 DEF MovesOn, Returns, Calls
  <2>6. QED
    BY <1>2, <1>10, <2>2, <2>3, <2>4, <2>5, QuietStep DEF ReadFile
<1>11. CASE ListFiles
  <2>1. PICK d \in Top.dirs : Step(Globbed(d))
    BY <1>11 DEF ListFiles, Globbed
  <2> DEFINE f == Globbed(d)
  <2>2. /\ stack # <<>> /\ Top \in ReloadFrame /\ Top.pc = "glob"
        /\ f \in ReloadFrame /\ f.left = FilesIn(d) /\ f.dirs = Top.dirs \ {d}
        /\ f.new = Top.new
        /\ f.pc # "read" => f.left = {}
        /\ f.pc \in {"swap", "swapping"} => f.dirs = {}
        /\ Variants # {}
    BY <1>11, <2>1, GlobbedIs, TopIsFrame DEF ListFiles, At, ReloadFrame
  <2>3. MovesOn(f)
    BY <1>2, <2>1, <2>2, StepMovesOn
  <2> HIDE DEF f
  <2>4. LookupOK(f, loaded) /\ ReloadOK(f, directory, settled)
    <3>1. Top.left = {} /\ \A w \in Variants :
            /\ DirectoryOf[w] = d => Top.new[w] = None
            /\ w \in FilesIn(d) <=> DirectoryOf[w] = d /\
                                     (directory = Broken \/ directory[w] # None)
      BY <1>1, <2>1, <2>2 DEF ReloadOK, FilesIn
    <3>2. QED
      BY <1>1, <1>2, <2>2, <3>1 DEF LookupOK, ReloadOK, FilesIn
  <2>5. ~Returns /\ ~Calls(f)
    BY <1>1, <2>3 DEF MovesOn, Returns, Calls
  <2>6. QED
    BY <1>2, <1>11, <2>2, <2>3, <2>4, <2>5, QuietStep DEF ListFiles
<1>12. CASE ReadFails
  BY <1>12 DEF ReadFails, CallsInv
<1>13. CASE Swap
  <2>1. stack # <<>> /\ Top \in ReloadFrame /\ Top.pc = "swapping" /\ loaded' = Top.new
        /\ UNCHANGED <<directory, settled, missed, alive>>
    BY <1>13, SwapReturns DEF Swap
  <2>2. settled => loaded' = directory
    <3> SUFFICES ASSUME settled PROVE Top.new = directory
      BY <2>1
    <3>1. \A w \in Variants : directory # Broken /\ Top.new[w] = directory[w]
      <4>1. Top.left = {} /\ Top.dirs = {}
        BY <1>1, <2>1 DEF ReloadOK
      <4>2. QED
        BY <1>1, <2>1, <4>1 DEF ReloadOK
    <3>2. directory # Broken
      BY <1>1, <2>1, <3>1 DEF ReloadOK
    <3>3. directory \in [Variants -> Ids \cup {None}] /\ Top.new \in [Variants -> Ids \cup {None}]
      BY <2>1, <3>2, SnapshotsAssumption DEF RegTypeOK, ReloadFrame
    <3>4. QED
      BY <3>1, <3>3
  <2>3. ASSUME NEW i \in 1 .. Len(stack')
        PROVE  LookupOK(stack'[i], loaded') /\ ReloadOK(stack'[i], directory, settled)
    <3>1. i \in 1 .. Depth /\ i \in 1 .. Depth - 1
          /\ stack[i] \in Frame /\ LookupOK(stack[i], loaded)
          /\ ReloadOK(stack[i], directory, settled)
      BY <1>1, <1>13, SwapReturns DEF CallsInv, RegTypeOK
    <3>2. CASE stack[i] \in ReloadFrame
      BY <1>2, <1>13, <3>1, <3>2, SwapReturns DEF LookupOK
    <3>3. CASE stack[i] \in LookupFrame
      <4>1. /\ stack'[i] \in LookupFrame
            /\ stack'[i].pc = stack[i].pc /\ stack'[i].id = stack[i].id
            /\ stack'[i].left = stack[i].left
            /\ stack'[i].stays = { v \in stack[i].stays : Top.new[v] = stack[i].id }
        BY <1>13, <3>1, <3>3, SwapReturns
      <4>2. QED
        BY <1>2, <2>1, <3>1, <3>3, <4>1 DEF LookupOK, ReloadOK
    <3>4. QED
      BY <3>1, <3>2, <3>3 DEF Frame
  <2>4. QED
    BY <2>1, <2>2, <2>3 DEF CallsInv
<1>14. ASSUME NEW content \in Snapshots \cup {Broken}, Edit(content)
       PROVE  CallsInv'
  BY <1>14 DEF Edit, CallsInv, ReloadOK
<1>15. CASE Restart
  <2>1. stack' = <<>> /\ ~missed' /\ loaded' = directory'
    BY <1>15 DEF Restart, CallsInv, RegTypeOK
  <2>2. QED
    BY <2>1 DEF CallsInv
<1>16. CASE Hangup \/ UNCHANGED regVars
  BY <1>16 DEF Hangup, regVars, CallsInv, OnlyLookups
<1>17. QED
  BY <1>3, <1>4, <1>5, <1>6, <1>7, <1>8, <1>9, <1>10, <1>12, <1>13, <1>14, <1>15,
     <1>16, <1>11 DEF RegNext

LEMMA RegInitCalls ==
  RegInit => CallsInv
BY DEF RegInit, CallsInv

\* A lookup interrupted by any number of reloads never misses a baseline that
\* one variant kept throughout.
THEOREM LookupsDoNotMiss ==
  RegSpec => []NoLookupMisses
<1>1. CallsInv => NoLookupMisses
  BY DEF CallsInv, NoLookupMisses
<1>2. QED
  BY <1>1, RegInitCalls, RegTypeCorrect, RegNextCalls, PTL DEF RegSpec

\* Once nothing is being reloaded, a SIGHUP handled after the last edit has
\* replaced everything, unless it was nested in a reload begun before.
THEOREM HangupsTakeEffect ==
  RegSpec => []HangupTakesEffect
<1>1. RegTypeOK /\ CallsInv => HangupTakesEffect
  BY ReloadingIs DEF CallsInv, HangupTakesEffect
<1>2. QED
  BY <1>1, RegInitCalls, RegTypeCorrect, RegNextCalls, PTL DEF RegSpec
=============================================================================
