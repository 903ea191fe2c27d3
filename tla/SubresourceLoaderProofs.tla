-------------------------- MODULE SubresourceLoaderProofs --------------------------
(***************************************************************************)
(* Proofs about the loads of subresources, for every set of loads and      *)
(* however deep the calls go.                                              *)
(*                                                                         *)
(* None of the invariants of SubresourceLoader is inductive: what a step   *)
(* does depends on the calls that have not returned.  IInv adds what a     *)
(* load is whatever calls there are (Lives, Slots, Count), and what each   *)
(* frame of the stack may rely on (Frames): the call of a request's end()  *)
(* is the only one, a load that leaves its document's list has a frame     *)
(* that will release it, and nothing inside a release concerns that load.  *)
(*                                                                         *)
(* Then the stack, the frames step by step, the loads step by step, and    *)
(* the theorems.                                                           *)
(***************************************************************************)
EXTENDS SubresourceLoader, FiniteSetTheorems, TLAPS

-----------------------------------------------------------------------------
(* The inductive invariant.                                                  *)

\* Frame i is a call of load l at one of the places.
On(i, places, l) == stack[i].at \in places /\ l \in stack[i].loads

(***************************************************************************)
(* What becomes of a load, whatever calls are in progress: it has its      *)
(* client and its request until the request ends, and it ends once.        *)
(***************************************************************************)
Lives ==
    /\ client \cup finishing \cup request \cup responded \cup cancelled
         \cup subresourceLoaders \cup deferred \subseteq created
    /\ created \subseteq (client \cap request) \cup finishing
    /\ calledWillCancel \subseteq finishing
    /\ client \cap finishing \subseteq responded
    /\ multipart \subseteq responded
    /\ validator \subseteq client \ (finishing \cup responded)
    /\ loading \subseteq request
    /\ client \cap finishing \cap loading = {}

\* A load has its place in the scheduler until it is released, and then nothing.
Slots ==
    \A l \in Load :
       /\ scheduled[l] # "no" <=> l \in created \ reachedTerminalState
       /\ handle[l] # "none" => l \in created \ reachedTerminalState
       /\ l \in reachedTerminalState =>
             l \in finishing /\ l \notin subresourceLoaders \cup deferred

Count == IsFiniteSet(request) /\ CountIsOutstanding

Ending == {"end", "stop"}
Bottom == {"response", "notify", "finish", "fail", "finish.removed", "fail.removed"}

\* Where on the stack a call can be.
Placed ==
    \A i \in 1..Len(stack) :
       /\ stack[i].loads \subseteq created
       /\ stack[i].at # "cancelAll" => \E l \in created : stack[i].loads = {l}
       /\ stack[i].at \in Bottom => i = 1
       /\ stack[i].at = "notify" =>
             Len(stack) = 1 /\ stack[i].loads \cap reachedTerminalState = {}

\* A request that is ending and not deleted has one call of its end().
Ends ==
    /\ \A i \in 1..Len(stack), l \in Load :
          On(i, Ending, l) => /\ l \in finishing \cap request
                              /\ \A k \in 1..Len(stack) : On(k, Ending, l) => k = i
    /\ \A l \in finishing \cap request : \E i \in 1..Len(stack) : On(i, Ending, l)

\* A call of a loader that ends finds the request ended, and sees a release.
Ended ==
    \A i \in 1..Len(stack), l \in Load :
       On(i, {"cancel", "finish", "fail"}, l) =>
          l \in finishing /\ (l \in reachedTerminalState => l \in cancelled)

\* While a load is being released nothing inside that call concerns it.
Releases ==
    \A i \in 1..Len(stack), l \in Load :
       On(i, Releasing, l) =>
          /\ l \in finishing
          /\ l \notin reachedTerminalState \cup subresourceLoaders
          /\ l \in cancelled <=> stack[i].at = "cancel.removed"
          /\ \A k \in (i + 1)..Len(stack) : l \notin stack[k].loads

\* A load that is off its document's list or cancelled is released, or will be.
Removed ==
    /\ \A l \in created \ (reachedTerminalState \cup subresourceLoaders) :
          \E i \in 1..Len(stack) : On(i, Releasing, l)
    /\ \A l \in cancelled \ reachedTerminalState :
          \E i \in 1..Len(stack) : On(i, {"cancel.removed"}, l)

\* Only a load that has finished keeps its client over the end of the request.
Finishes ==
    \A l \in client :
       /\ l \in finishing \cap request =>
             Len(stack) >= 2 /\ On(1, {"finish"}, l) /\ On(2, Ending, l)
       /\ l \notin request =>
             \/ l \in reachedTerminalState
             \/ Len(stack) = 1 /\ On(1, {"finish"}, l)
             \/ Len(stack) >= 1 /\ On(1, {"finish.removed"}, l)

Frames == Placed /\ Ends /\ Ended /\ Releases /\ Removed /\ Finishes

IInv == TypeOK /\ Lives /\ Slots /\ Count /\ Frames

-----------------------------------------------------------------------------
(* The stack.                                                                *)

\* One call more on the stack.
LEMMA PushFacts ==
    ASSUME NEW s \in Seq(Frame), NEW f \in Frame
    PROVE  /\ Append(s, f) \in Seq(Frame)
           /\ Len(Append(s, f)) = Len(s) + 1
           /\ Append(s, f)[Len(s) + 1] = f
           /\ \A i \in 1..Len(s) : Append(s, f)[i] = s[i]
OBVIOUS

\* Two calls more.
LEMMA PushTwoFacts ==
    ASSUME NEW s \in Seq(Frame), NEW f \in Frame, NEW g \in Frame
    PROVE  /\ s \o <<f, g>> \in Seq(Frame)
           /\ Len(s \o <<f, g>>) = Len(s) + 2
           /\ (s \o <<f, g>>)[Len(s) + 1] = f
           /\ (s \o <<f, g>>)[Len(s) + 2] = g
           /\ \A i \in 1..Len(s) : (s \o <<f, g>>)[i] = s[i]
<1>1. s \o <<f, g>> = Append(Append(s, f), g)
  OBVIOUS
<1>2. Append(s, f) \in Seq(Frame)
  OBVIOUS
<1> QED  BY <1>1, <1>2, PushFacts

\* The innermost call returns.
LEMMA PopFacts ==
    ASSUME NEW s \in Seq(Frame), s # <<>>
    PROVE  /\ Front(s) \in Seq(Frame)
           /\ Len(s) \in Nat \ {0}
           /\ Len(Front(s)) = Len(s) - 1
           /\ \A i \in 1..(Len(s) - 1) : Front(s)[i] = s[i]
           /\ Last(s) = s[Len(s)] /\ s[Len(s)] \in Frame
<1>1. Len(s) \in Nat \ {0} /\ s[Len(s)] \in Frame /\ Last(s) = s[Len(s)]
  BY DEF Last
<1>2. PICK n \in Nat : n = Len(s) - 1
  BY <1>1
<1>3. Front(s) = SubSeq(s, 1, n)
  BY <1>2 DEF Front
<1>4. SubSeq(s, 1, n) \in Seq(Frame) /\ Len(SubSeq(s, 1, n)) = n
  BY <1>1, <1>2
<1>5. \A i \in 1..n : SubSeq(s, 1, n)[i] = s[i]
  BY <1>1, <1>2
<1> QED  BY <1>1, <1>2, <1>3, <1>4, <1>5

\* The innermost call goes on at another place.
LEMMA ReplaceFacts ==
    ASSUME NEW s \in Seq(Frame), s # <<>>, NEW f \in Frame
    PROVE  /\ Append(Front(s), f) \in Seq(Frame)
           /\ Len(Append(Front(s), f)) = Len(s)
           /\ Append(Front(s), f)[Len(s)] = f
           /\ \A i \in 1..(Len(s) - 1) : Append(Front(s), f)[i] = s[i]
<1>1. /\ Front(s) \in Seq(Frame) /\ Len(s) \in Nat /\ Len(Front(s)) = Len(s) - 1
      /\ \A i \in 1..(Len(s) - 1) : Front(s)[i] = s[i]
  BY PopFacts
<1>2. /\ Append(Front(s), f) \in Seq(Frame)
      /\ Len(Append(Front(s), f)) = Len(Front(s)) + 1
      /\ Append(Front(s), f)[Len(Front(s)) + 1] = f
      /\ \A i \in 1..Len(Front(s)) : Append(Front(s), f)[i] = Front(s)[i]
  BY <1>1, PushFacts
<1> QED  BY <1>1, <1>2

\* A frame of one load.
LEMMA AtFacts ==
    ASSUME NEW p \in Place, NEW l \in Load
    PROVE  At(p, l) \in Frame /\ At(p, l).at = p /\ At(p, l).loads = {l}
BY DEF At, Frame

\* The call at the top of the stack.
LEMMA TopFacts ==
    ASSUME TypeOK, NEW p \in Place, NEW l \in Load, Top(p, l)
    PROVE  /\ stack # <<>> /\ stack \in Seq(Frame) /\ Len(stack) \in Nat \ {0}
           /\ stack[Len(stack)].at = p /\ stack[Len(stack)].loads = {l}
BY PopFacts, AtFacts DEF Top, TypeOK

-----------------------------------------------------------------------------
(* Steps that change the stack, and nothing that its calls rely on.          *)

flags == <<created, finishing, cancelled, reachedTerminalState, subresourceLoaders,
           request, client>>

\* Nothing runs above a notifier.
LEMMA RunningFacts ==
    ASSUME TypeOK, Placed, Running
    PROVE  \A i \in 1..Len(stack) : stack[i].at # "notify"
<1>1. stack = <<>> \/ stack[Len(stack)].at \in Open
  BY DEF Running, Last
<1>2. Len(stack) \in Nat /\ (stack = <<>> => Len(stack) = 0)
  BY DEF TypeOK
<1> QED  BY <1>1, <1>2 DEF Placed, Open

\* The stack stays; a load may be made.
LEMMA FramesStill ==
    ASSUME TypeOK, Frames, Running,
           UNCHANGED <<stack, finishing, cancelled, reachedTerminalState>>,
           created \subseteq created',
           \A x \in created : /\ x \in request' <=> x \in request
                              /\ x \in client' <=> x \in client
                              /\ x \in subresourceLoaders' <=> x \in subresourceLoaders,
           finishing \subseteq created, client \subseteq created,
           \A x \in created' \ created : x \in request' \cap subresourceLoaders',
           client' \subseteq created', request \subseteq created
    PROVE  Frames'
<1>1. \A i \in 1..Len(stack) : stack[i].at # "notify"
  BY RunningFacts DEF Frames
<1>2. Placed'
  BY <1>1 DEF Frames, Placed
<1>3. Ends'
  BY DEF Frames, Ends, On
<1>4. Ended'
  BY DEF Frames, Ended, On
<1>5. Releases'
  BY DEF Frames, Releases, On
<1>6. Removed'
  BY DEF Frames, Removed, On
<1>7. Finishes'
  BY DEF Frames, Finishes, On
<1> QED  BY <1>2, <1>3, <1>4, <1>5, <1>6, <1>7 DEF Frames

\* A call returns that ends nothing.
LEMMA FramesPop ==
    ASSUME TypeOK, Frames, stack # <<>>, stack' = Front(stack), UNCHANGED flags,
           stack[Len(stack)].at \notin Ending \cup Releasing \cup {"finish"}
    PROVE  Frames'
<1>1. /\ Len(stack) \in Nat \ {0} /\ Len(stack') = Len(stack) - 1
      /\ \A i \in 1..(Len(stack) - 1) : stack'[i] = stack[i]
  BY PopFacts DEF TypeOK
<1>2. UNCHANGED <<created, finishing, cancelled, reachedTerminalState, subresourceLoaders,
                  request, client>>
  BY DEF flags
<1>3. Placed'
  BY <1>1, <1>2 DEF Frames, Placed
<1>4. Ends'
  BY <1>1, <1>2 DEF Frames, Ends, On
<1>5. Ended'
  BY <1>1, <1>2 DEF Frames, Ended, On
<1>6. Releases'
  BY <1>1, <1>2 DEF Frames, Releases, On
<1>7. Removed'
  BY <1>1, <1>2 DEF Frames, Removed, On, Releasing
<1>8. Finishes'
  BY <1>1, <1>2 DEF Frames, Finishes, On, Releasing
<1> QED  BY <1>3, <1>4, <1>5, <1>6, <1>7, <1>8 DEF Frames

\* A call goes on, and neither begins nor ends a release.
LEMMA FramesReplace ==
    ASSUME TypeOK, Frames, stack # <<>>, NEW f \in Frame,
           stack' = Append(Front(stack), f), UNCHANGED flags,
           stack[Len(stack)].at \notin Releasing \cup {"finish"},
           stack[Len(stack)].at \in Ending <=> f.at \in Ending,
           stack[Len(stack)].at = "cancelAll" <=> f.at = "cancelAll",
           f.at # "cancelAll" => f.loads = stack[Len(stack)].loads,
           f.loads \subseteq stack[Len(stack)].loads,
           f.at \notin Releasing \cup {"cancel"} \cup (Bottom \ {"notify"}),
           f.at = "notify" => Len(stack) = 1 /\ f.loads \cap reachedTerminalState = {}
    PROVE  Frames'
<1>1. /\ Len(stack) \in Nat \ {0} /\ Len(stack') = Len(stack) /\ stack'[Len(stack)] = f
      /\ \A i \in 1..(Len(stack) - 1) : stack'[i] = stack[i]
  BY PopFacts, ReplaceFacts DEF TypeOK
<1>2. UNCHANGED <<created, finishing, cancelled, reachedTerminalState, subresourceLoaders,
                  request, client>>
  BY DEF flags
<1>3. Placed'
  BY <1>1, <1>2 DEF Frames, Placed
<1>4. Ends'
  <2>1. stack[Len(stack)].at \in Ending => f.loads = stack[Len(stack)].loads
    BY DEF Ending
  <2>2. \A i \in 1..Len(stack) : stack'[i].at \in Ending <=> stack[i].at \in Ending
    BY <1>1
  <2>3. \A i \in 1..Len(stack) : stack[i].at \in Ending => stack'[i].loads = stack[i].loads
    BY <1>1, <2>1
  <2>4. \A i \in 1..Len(stack'), l \in Load : On(i, Ending, l)' <=> On(i, Ending, l)
    BY <1>1, <2>2, <2>3 DEF On
  <2>5. finishing \subseteq Load
    BY DEF TypeOK
  <2> QED  BY <1>1, <1>2, <2>4, <2>5 DEF Frames, Ends
<1>5. Ended'
  BY <1>1, <1>2 DEF Frames, Ended, On, Bottom
<1>6. Releases'
  BY <1>1, <1>2 DEF Frames, Releases, On
<1>7. Removed'
  BY <1>1, <1>2 DEF Frames, Removed, On, Releasing
<1>8. Finishes'
  <2>1. /\ stack[Len(stack)].at \in Ending => f.loads = stack[Len(stack)].loads
        /\ stack[Len(stack)].at \notin {"finish", "finish.removed"}
    BY DEF Ending, Releasing
  <2>2. \A i \in 1..Len(stack) :
           /\ stack'[i].at \in Ending <=> stack[i].at \in Ending
           /\ stack[i].at \in {"finish", "finish.removed"} => stack'[i] = stack[i]
    BY <1>1, <2>1
  <2>3. \A i \in 1..Len(stack) : stack[i].at \in Ending => stack'[i].loads = stack[i].loads
    BY <1>1, <2>1
  <2>4. \A i \in 1..Len(stack), l \in Load :
           /\ On(i, Ending, l) => On(i, Ending, l)'
           /\ On(i, {"finish"}, l) => On(i, {"finish"}, l)'
           /\ On(i, {"finish.removed"}, l) => On(i, {"finish.removed"}, l)'
    BY <2>2, <2>3 DEF On
  <2>5. client \subseteq Load
    BY DEF TypeOK
  <2>6. SUFFICES ASSUME NEW l \in client
                 PROVE  /\ l \in finishing \cap request =>
                              Len(stack) >= 2 /\ On(1, {"finish"}, l)' /\ On(2, Ending, l)'
                        /\ l \notin request =>
                              \/ l \in reachedTerminalState
                              \/ Len(stack) = 1 /\ On(1, {"finish"}, l)'
                              \/ Len(stack) >= 1 /\ On(1, {"finish.removed"}, l)'
    BY <1>1, <1>2 DEF Finishes
  <2>7. 1 \in 1..Len(stack) /\ (Len(stack) >= 2 => 2 \in 1..Len(stack))
    BY <1>1
  <2> HIDE DEF On
  <2> QED  BY <2>4, <2>5, <2>7 DEF Frames, Finishes
<1> QED  BY <1>3, <1>4, <1>5, <1>6, <1>7, <1>8 DEF Frames

\* A call is made of loads on the document's list, or of data.
LEMMA FramesPush ==
    ASSUME TypeOK, Frames, Running, NEW f \in Frame,
           stack' = Append(stack, f), UNCHANGED flags,
           f.at \in {"cancelAll", "data"},
           f.at = "cancelAll" => f.loads \subseteq subresourceLoaders,
           f.at = "data" => stack = <<>> /\ \E l \in created : f.loads = {l},
           subresourceLoaders \subseteq created
    PROVE  Frames'
<1>1. /\ Len(stack) \in Nat /\ Len(stack') = Len(stack) + 1 /\ stack'[Len(stack) + 1] = f
      /\ \A i \in 1..Len(stack) : stack'[i] = stack[i]
  BY PushFacts DEF TypeOK
<1>2. UNCHANGED <<created, finishing, cancelled, reachedTerminalState, subresourceLoaders,
                  request, client>>
  BY DEF flags
<1>3. Placed'
  <2>1. \A i \in 1..Len(stack) : stack[i].at # "notify"
    BY RunningFacts DEF Frames
  <2> QED  BY <1>1, <1>2, <2>1 DEF Frames, Placed, Bottom
<1>4. Ends'
  BY <1>1, <1>2 DEF Frames, Ends, On, Ending
<1>5. Ended'
  BY <1>1, <1>2 DEF Frames, Ended, On
<1>6. Releases'
  <2>1. stack = <<>> => Len(stack) = 0
    OBVIOUS
  <2> QED  BY <1>1, <1>2, <2>1 DEF Frames, Releases, On, Releasing
<1>7. Removed'
  BY <1>1, <1>2 DEF Frames, Removed, On
<1>8. Finishes'
  <2>1. ~(Len(stack) = 1 /\ stack[1].at = "finish")
    BY DEF Running, Last, Open
  <2> QED  BY <1>1, <1>2, <2>1 DEF Frames, Finishes, On
<1> QED  BY <1>3, <1>4, <1>5, <1>6, <1>7, <1>8 DEF Frames

-----------------------------------------------------------------------------
(* cancel(): the calls that wait for it are those of before, but for what is *)
(* left to a cancelAll, and none of them is releasing the load.              *)

LEMMA FramesCancel ==
    ASSUME TypeOK, Lives, Frames, NEW l \in created, NEW calls \in Seq(Frame),
           Len(calls) = Len(stack),
           \A i \in 1..Len(stack) :
              /\ calls[i].at = stack[i].at
              /\ calls[i].loads \subseteq stack[i].loads
              /\ stack[i].at # "cancelAll" => calls[i].loads = stack[i].loads,
           stack = <<>> \/ stack[Len(stack)].at \in Open \cup {"cancelAll"},
           \A i \in 1..Len(stack) : ~On(i, Releasing, l),
           Cancel(l, calls)
    PROVE  Frames'
<1>0. PICK n \in Nat : n = Len(stack)
  BY DEF TypeOK
<1>1. /\ (stack = <<>> => n = 0)
      /\ created \subseteq Load /\ finishing \subseteq Load /\ client \subseteq Load
      /\ cancelled \subseteq Load
  BY <1>0 DEF TypeOK, Lives
<1>2. l \in Load
  BY <1>1
<1>3. /\ l \notin reachedTerminalState
      /\ UNCHANGED <<created, reachedTerminalState, cancelled, request, subresourceLoaders>>
  BY DEF Cancel, lists
<1>4. /\ At("cancel", l) \in Frame /\ At("end", l) \in Frame
      /\ At("cancel", l).at = "cancel" /\ At("cancel", l).loads = {l}
      /\ At("end", l).at = "end" /\ At("end", l).loads = {l}
  BY <1>2, AtFacts DEF Place, Open
<1>5. \A i \in 1..n : stack[i].at # "notify"
  BY <1>0, <1>1 DEF Frames, Placed, Open
<1>6. \/ /\ l \in client \ finishing /\ l \in request
         /\ finishing' = finishing \cup {l}
         /\ client' = client \ {l}
         /\ Len(stack') = n + 2
         /\ stack'[n + 1] = At("cancel", l)
         /\ stack'[n + 2] = At("end", l)
         /\ \A i \in 1..n : stack'[i] = calls[i]
      \/ /\ l \in finishing
         /\ UNCHANGED <<finishing, client>>
         /\ Len(stack') = n + 1
         /\ stack'[n + 1] = At("cancel", l)
         /\ \A i \in 1..n : stack'[i] = calls[i]
  <2>1. CASE l \notin calledWillCancel /\ TakesEnd(l)
    <3>1. /\ stack' = calls \o <<At("cancel", l), At("end", l)>>
          /\ finishing' = finishing \cup {l}
          /\ client' = client \ {l}
      BY <2>1 DEF Cancel
    <3>2. l \in client \ finishing /\ l \in request
      BY <2>1 DEF TakesEnd, Lives
    <3> DEFINE f == At("cancel", l)
               g == At("end", l)
    <3>3. /\ Len(calls \o <<f, g>>) = Len(calls) + 2
          /\ (calls \o <<f, g>>)[Len(calls) + 1] = f
          /\ (calls \o <<f, g>>)[Len(calls) + 2] = g
          /\ \A i \in 1..Len(calls) : (calls \o <<f, g>>)[i] = calls[i]
      BY <1>4, PushTwoFacts
    <3> QED  BY <1>0, <3>1, <3>2, <3>3
  <2>2. CASE ~(l \notin calledWillCancel /\ TakesEnd(l))
    <3>1. stack' = Append(calls, At("cancel", l)) /\ UNCHANGED <<finishing, client>>
      BY <2>2 DEF Cancel
    <3>2. l \in finishing
      BY <2>2 DEF TakesEnd, Lives
    <3> QED  BY <1>0, <1>4, <3>1, <3>2, PushFacts
  <2> QED  BY <2>1, <2>2
<1>7. /\ Len(stack') \in Nat /\ Len(stack') \in {n + 1, n + 2}
      /\ \A i \in 1..n : /\ stack'[i].at = stack[i].at
                         /\ stack'[i].loads \subseteq stack[i].loads
                         /\ stack[i].at # "cancelAll" => stack'[i].loads = stack[i].loads
      /\ \A i \in (n + 1)..Len(stack') :
            /\ stack'[i].loads = {l}
            /\ stack'[i].at = IF i = n + 1 THEN "cancel" ELSE "end"
  BY <1>0, <1>1, <1>4, <1>6
<1>8. \A i \in 1..Len(stack') : i \in 1..n \/ i \in (n + 1)..Len(stack')
  BY <1>1, <1>7
<1>9. /\ finishing \subseteq finishing' /\ finishing' \subseteq finishing \cup {l}
      /\ l \in finishing' /\ client' \subseteq client
      /\ \A x \in client' : x \in finishing' => x \in finishing
  BY <1>6
<1>10. Placed'
  BY <1>0, <1>1, <1>2, <1>3, <1>5, <1>7, <1>8 DEF Frames, Placed, Bottom
<1>11. Ended'
  BY <1>0, <1>1, <1>2, <1>3, <1>7, <1>8, <1>9 DEF Frames, Ended, On
<1>12. Releases'
  <2>1. SUFFICES ASSUME NEW i \in 1..Len(stack'), NEW x \in Load, On(i, Releasing, x)'
                 PROVE  /\ x \in finishing'
                        /\ x \notin reachedTerminalState \cup subresourceLoaders
                        /\ x \in cancelled <=> stack'[i].at = "cancel.removed"
                        /\ \A k \in (i + 1)..Len(stack') : x \notin stack'[k].loads
    BY <1>3 DEF Releases
  <2>2. i \in 1..n
    BY <1>1, <1>7, <1>8, <2>1 DEF On, Releasing
  <2>3. On(i, Releasing, x)
    BY <1>7, <2>1, <2>2 DEF On, Releasing
  <2>4. x # l
    BY <1>0, <2>2, <2>3
  <2>5. /\ x \in finishing
        /\ x \notin reachedTerminalState \cup subresourceLoaders
        /\ x \in cancelled <=> stack[i].at = "cancel.removed"
        /\ \A k \in (i + 1)..n : x \notin stack[k].loads
    BY <1>0, <2>2, <2>3 DEF Frames, Releases
  <2>6. \A k \in (i + 1)..Len(stack') : x \notin stack'[k].loads
    BY <1>1, <1>7, <1>8, <2>2, <2>4, <2>5
  <2> QED  BY <1>7, <1>9, <2>2, <2>5, <2>6
<1>13. Removed'
  <2>1. \A i \in 1..n : i \in 1..Len(stack')
    BY <1>7
  <2>2. \A x \in created \ (reachedTerminalState \cup subresourceLoaders) :
           \E i \in 1..n : On(i, Releasing, x)
    BY <1>0 DEF Frames, Removed
  <2>3. \A x \in cancelled \ reachedTerminalState :
           \E i \in 1..n : On(i, {"cancel.removed"}, x)
    BY <1>0 DEF Frames, Removed
  <2>4. \A x \in created \ (reachedTerminalState \cup subresourceLoaders) :
           \E i \in 1..Len(stack') : On(i, Releasing, x)'
    <3> SUFFICES ASSUME NEW x \in created \ (reachedTerminalState \cup subresourceLoaders)
                 PROVE  \E i \in 1..Len(stack') : On(i, Releasing, x)'
      OBVIOUS
    <3>1. PICK i \in 1..n : On(i, Releasing, x)
      BY <2>2
    <3>2. i \in 1..Len(stack') /\ x \in Load
      BY <1>1, <2>1
    <3>3. On(i, Releasing, x)'
      BY <1>7, <3>1, <3>2 DEF On, Releasing
    <3> QED  BY <3>2, <3>3
  <2>5. \A x \in cancelled \ reachedTerminalState :
           \E i \in 1..Len(stack') : On(i, {"cancel.removed"}, x)'
    <3> SUFFICES ASSUME NEW x \in cancelled \ reachedTerminalState
                 PROVE  \E i \in 1..Len(stack') : On(i, {"cancel.removed"}, x)'
      OBVIOUS
    <3>1. PICK i \in 1..n : On(i, {"cancel.removed"}, x)
      BY <2>3
    <3>2. i \in 1..Len(stack') /\ x \in Load
      BY <1>1, <2>1
    <3>3. On(i, {"cancel.removed"}, x)'
      BY <1>7, <3>1, <3>2 DEF On, Releasing
    <3> QED  BY <3>2, <3>3
  <2> QED  BY <1>3, <2>4, <2>5 DEF Removed
<1>14. Ends'
  <2>1. \A i \in 1..n, x \in Load : On(i, Ending, x)' <=> On(i, Ending, x)
    BY <1>7 DEF On, Ending
  <2>2. \A x \in finishing \cap request : \E i \in 1..n : On(i, Ending, x)
    BY <1>0 DEF Frames, Ends
  <2>3. \A i \in 1..n, x \in Load :
          On(i, Ending, x) => /\ x \in finishing \cap request
                              /\ \A k \in 1..n : On(k, Ending, x) => k = i
    BY <1>0 DEF Frames, Ends
  <2>4. ASSUME Len(stack') = n + 1, finishing' = finishing
        PROVE  Ends'
    <3>1. \A x \in Load : ~On(n + 1, Ending, x)'
      BY <1>1, <1>7, <2>4 DEF On, Ending
    <3>2. \A i \in 1..Len(stack') : i \in 1..n \/ i = n + 1
      BY <1>1, <2>4
    <3> QED  BY <1>1, <1>3, <2>1, <2>2, <2>3, <2>4, <3>1, <3>2 DEF Ends
  <2>5. ASSUME Len(stack') = n + 2, l \notin finishing, l \in request,
               finishing' = finishing \cup {l}
        PROVE  Ends'
    <3>1. \A x \in Load : ~On(n + 1, Ending, x)'
      BY <1>1, <1>7, <2>5 DEF On, Ending
    <3>2. \A x \in Load : On(n + 2, Ending, x)' <=> x = l
      BY <1>1, <1>2, <1>7, <2>5 DEF On, Ending
    <3>3. \A i \in 1..Len(stack') : i \in 1..n \/ i = n + 1 \/ i = n + 2
      BY <1>1, <2>5
    <3>4. n + 2 \in 1..Len(stack') /\ \A i \in 1..n : i \in 1..Len(stack')
      BY <1>1, <2>5
    <3>5. \A i \in 1..n : ~On(i, Ending, l)
      BY <1>2, <2>3, <2>5
    <3>6. \A i \in 1..Len(stack'), x \in Load :
             On(i, Ending, x)' => /\ x \in finishing' \cap request
                                  /\ \A k \in 1..Len(stack') : On(k, Ending, x)' => k = i
      BY <2>1, <2>3, <2>5, <3>1, <3>2, <3>3, <3>5
    <3>7. \A x \in finishing' \cap request : \E i \in 1..Len(stack') : On(i, Ending, x)'
      BY <1>1, <1>2, <2>1, <2>2, <2>5, <3>2, <3>4
    <3> QED  BY <1>3, <3>6, <3>7 DEF Ends
  <2> QED  BY <1>0, <1>6, <2>4, <2>5
<1>15. Finishes'
  <2>1. ~(n = 1 /\ stack[1].at = "finish")
    BY <1>0, <1>1 DEF Open
  <2>2. SUFFICES ASSUME NEW x \in client'
                 PROVE  /\ x \in finishing' \cap request =>
                           Len(stack') >= 2 /\ On(1, {"finish"}, x)' /\ On(2, Ending, x)'
                        /\ x \notin request =>
                             \/ x \in reachedTerminalState
                             \/ Len(stack') >= 1 /\ On(1, {"finish.removed"}, x)'
    BY <1>3 DEF Finishes
  <2>3. x \in client /\ x \in Load
    BY <1>1, <1>9
  <2>4. /\ x \in finishing \cap request =>
             n >= 2 /\ On(1, {"finish"}, x) /\ On(2, Ending, x)
        /\ x \notin request =>
              \/ x \in reachedTerminalState
              \/ n = 1 /\ On(1, {"finish"}, x)
              \/ n >= 1 /\ On(1, {"finish.removed"}, x)
    BY <1>0, <2>3 DEF Frames, Finishes
  <2>5. n >= 1 => 1 \in 1..n /\ stack'[1].at = stack[1].at
                  /\ (stack[1].at # "cancelAll" => stack'[1].loads = stack[1].loads)
    BY <1>1, <1>7
  <2>6. n >= 2 => 2 \in 1..n /\ stack'[2].at = stack[2].at
                  /\ (stack[2].at # "cancelAll" => stack'[2].loads = stack[2].loads)
    BY <1>1, <1>7
  <2>7. /\ n >= 2 => Len(stack') >= 2
        /\ n >= 1 => Len(stack') >= 1
    BY <1>1, <1>7
  <2>8. x \in finishing' \cap request =>
             Len(stack') >= 2 /\ On(1, {"finish"}, x)' /\ On(2, Ending, x)'
    BY <1>1, <1>9, <2>2, <2>3, <2>4, <2>5, <2>6, <2>7 DEF On, Ending
  <2>9. x \notin request =>
             \/ x \in reachedTerminalState
             \/ Len(stack') >= 1 /\ On(1, {"finish.removed"}, x)'
    BY <1>1, <2>1, <2>3, <2>4, <2>5, <2>7 DEF On
  <2> QED  BY <2>8, <2>9
<1> QED  BY <1>10, <1>11, <1>12, <1>13, <1>14, <1>15 DEF Frames

\* The handle's events find no call in progress, and the load on the lists.
LEMMA AnswersFacts ==
    ASSUME TypeOK, Lives, Slots, Frames, NEW l \in Load, Answers(l)
    PROVE  /\ stack = <<>> /\ l \in created \ reachedTerminalState
           /\ l \in subresourceLoaders /\ l \notin cancelled
           /\ l \in client => l \in request \ finishing
           /\ l \notin client => l \in finishing
           /\ finishing \cap request = {}
           /\ client \ request \subseteq reachedTerminalState
<1>1. stack = <<>> /\ Len(stack) = 0 /\ l \in created \ reachedTerminalState
  BY DEF Answers, Slots
<1>2. \A i \in 1..Len(stack) : FALSE
  BY <1>1
<1>3. finishing \cap request = {} /\ client \ request \subseteq reachedTerminalState
  BY <1>1, <1>2 DEF Frames, Ends, Finishes
<1>4. l \in subresourceLoaders /\ l \notin cancelled
  BY <1>1, <1>2 DEF Frames, Removed
<1> QED  BY <1>1, <1>3, <1>4 DEF Lives

\* The handle of a load answers, and the client may end its request.
LEMMA FramesAnswer ==
    ASSUME TypeOK, Lives, Slots, Frames, NEW l \in Load, Answers(l),
           NEW p \in {"response", "finish", "fail"},
           UNCHANGED <<created, cancelled, reachedTerminalState, subresourceLoaders, request>>,
           \/ /\ stack' = <<At(p, l)>>
              /\ UNCHANGED <<finishing, client>>
              /\ p # "response" => l \in finishing
           \/ /\ stack' = <<At(p, l), At("end", l)>>
              /\ l \in client
              /\ finishing' = finishing \cup {l}
              /\ client' = IF p = "finish" THEN client ELSE client \ {l}
    PROVE  Frames'
<1>1. /\ stack = <<>> /\ l \in created \ reachedTerminalState
      /\ l \in subresourceLoaders /\ l \notin cancelled
      /\ l \in client => l \in request \ finishing
      /\ finishing \cap request = {}
      /\ client \ request \subseteq reachedTerminalState
  BY AnswersFacts
<1>2. /\ At(p, l).at = p /\ At(p, l).loads = {l}
      /\ At("end", l).at = "end" /\ At("end", l).loads = {l}
  BY AtFacts DEF Place, Open
<1>3. Len(stack) = 0 /\ \A i \in 1..Len(stack) : FALSE
  BY <1>1
<1>4. /\ created \ reachedTerminalState \subseteq subresourceLoaders
      /\ cancelled \subseteq reachedTerminalState
      /\ created \subseteq Load /\ client \subseteq Load /\ finishing \subseteq Load
      /\ client \subseteq created /\ cancelled \subseteq created
  BY <1>3 DEF Frames, Removed, TypeOK, Lives
<1>5. CASE /\ stack' = <<At(p, l)>>
           /\ UNCHANGED <<finishing, client>>
           /\ p # "response" => l \in finishing
  <2>1. Len(stack') = 1 /\ stack'[1].at = p /\ stack'[1].loads = {l}
    BY <1>2, <1>5
  <2>2. \A i \in 1..Len(stack') : i = 1
    BY <2>1
  <2>3. Placed'
    BY <1>1, <2>1, <2>2 DEF Placed, Bottom
  <2>4. Ends'
    BY <1>1, <1>5, <2>1, <2>2 DEF Ends, On, Ending
  <2>5. Ended'
    BY <1>1, <1>5, <2>1, <2>2 DEF Ended, On
  <2>6. Releases'
    BY <2>1, <2>2 DEF Releases, On, Releasing
  <2>7. Removed'
    BY <1>4 DEF Removed
  <2>8. Finishes'
    BY <1>1, <1>5 DEF Finishes
  <2> QED  BY <2>3, <2>4, <2>5, <2>6, <2>7, <2>8 DEF Frames
<1>6. CASE /\ stack' = <<At(p, l), At("end", l)>>
           /\ l \in client
           /\ finishing' = finishing \cup {l}
           /\ client' = IF p = "finish" THEN client ELSE client \ {l}
  <2>1. /\ Len(stack') = 2 /\ stack'[1].at = p /\ stack'[1].loads = {l}
        /\ stack'[2].at = "end" /\ stack'[2].loads = {l}
    BY <1>2, <1>6
  <2>2. \A i \in 1..Len(stack') : i = 1 \/ i = 2
    BY <2>1
  <2>3. Placed'
    BY <1>1, <2>1, <2>2 DEF Placed, Bottom
  <2>4. Ends'
    BY <1>1, <1>4, <1>6, <2>1, <2>2 DEF Ends, On, Ending
  <2>5. Ended'
    BY <1>1, <1>6, <2>1, <2>2 DEF Ended, On
  <2>6. Releases'
    BY <2>1, <2>2 DEF Releases, On, Releasing
  <2>7. Removed'
    BY <1>4 DEF Removed
  <2>8. Finishes'
    <3>1. \A x \in client' : /\ x \in client
                             /\ x \in finishing' \cap request => x = l /\ p = "finish"
      BY <1>1, <1>6
    <3> QED  BY <1>1, <2>1, <3>1 DEF Finishes, On, Ending
  <2> QED  BY <2>3, <2>4, <2>5, <2>6, <2>7, <2>8 DEF Frames
<1> QED  BY <1>5, <1>6

-----------------------------------------------------------------------------
(* Where calls go on.                                                       *)

\* stopLoading() deletes the request that its end() is about.
LEMMA FramesStopLoading ==
    ASSUME TypeOK, Lives, Frames, NEW l \in Load, StopLoading(l)
    PROVE  Frames'
<1> DEFINE at(i) == stack[i].at
<1>0. PICK n \in Nat \ {0} : n = Len(stack) /\ stack[n].at = "stop" /\ stack[n].loads = {l}
  BY TopFacts DEF StopLoading, Place, Open
<1>1. /\ UNCHANGED <<created, finishing, cancelled, reachedTerminalState, subresourceLoaders,
                     client>>
      /\ request' = request \ {l}
      /\ client \subseteq Load /\ finishing \subseteq Load
  BY DEF StopLoading, loader, lists, TypeOK
<1>2. On(n, Ending, l)
  BY <1>0 DEF On, Ending
<1>3. n \in 1..Len(stack) /\ l \in finishing \cap request
  BY <1>0, <1>2 DEF Frames, Ends
<1>4. /\ Len(stack') \in {n - 1, n}
      /\ \A i \in 1..(n - 1) : stack'[i] = stack[i]
      /\ Len(stack') = n =>
            l \in loading /\ stack'[n].at = "notified" /\ stack'[n].loads = {l}
  <2>1. At("notified", l) \in Frame /\ At("notified", l).at = "notified"
        /\ At("notified", l).loads = {l}
    BY AtFacts DEF Place, Open
  <2>2. stack \in Seq(Frame) /\ stack # <<>>
    BY DEF StopLoading, Top, TypeOK
  <2>3. /\ Len(Front(stack)) = n - 1
        /\ \A i \in 1..(n - 1) : Front(stack)[i] = stack[i]
    BY <1>0, <2>2, PopFacts
  <2>4. /\ Len(Append(Front(stack), At("notified", l))) = n
        /\ Append(Front(stack), At("notified", l))[n] = At("notified", l)
        /\ \A i \in 1..(n - 1) : Append(Front(stack), At("notified", l))[i] = stack[i]
    BY <1>0, <2>1, <2>2, ReplaceFacts
  <2>5. CASE l \in loading
    BY <2>1, <2>4, <2>5 DEF StopLoading, GoOnAt
  <2>6. CASE l \notin loading
    BY <1>0, <2>3, <2>6 DEF StopLoading, Return
  <2> QED  BY <2>5, <2>6
<1>5. \A i \in 1..Len(stack') : i \in 1..n /\ (i \in 1..(n - 1) \/ i = n)
  BY <1>0, <1>4
<1>6. Placed'
  <2>1. l \in created /\ \A i \in 1..(n - 1) : stack[i].at # "notify"
    BY <1>0, <1>3 DEF Frames, Placed
  <2>2. \A i \in 1..(n - 1) :
           /\ stack[i].loads \subseteq created
           /\ stack[i].at # "cancelAll" => \E x \in created : stack[i].loads = {x}
           /\ stack[i].at \in Bottom => i = 1
    BY <1>0 DEF Frames, Placed
  <2> QED  BY <1>0, <1>1, <1>4, <1>5, <2>1, <2>2 DEF Placed, Bottom
<1>7. Ends'
  <2>1. ASSUME NEW i \in 1..Len(stack'), NEW x \in Load, On(i, Ending, x)'
        PROVE  /\ i \in 1..(n - 1) /\ On(i, Ending, x)
               /\ x \in finishing \cap request /\ x # l
               /\ \A k \in 1..n : On(k, Ending, x) => k = i
    <3>1. i \in 1..(n - 1)
      BY <1>4, <1>5, <2>1 DEF On, Ending
    <3>2. On(i, Ending, x)
      BY <1>4, <2>1, <3>1 DEF On, Ending
    <3>3. x \in finishing \cap request /\ \A k \in 1..n : On(k, Ending, x) => k = i
      BY <1>0, <3>1, <3>2 DEF Frames, Ends
    <3> QED  BY <1>0, <1>2, <1>3, <3>1, <3>2, <3>3
  <2>2. \A i \in 1..Len(stack'), x \in Load :
           On(i, Ending, x)' => /\ x \in finishing' \cap request'
                                /\ \A k \in 1..Len(stack') : On(k, Ending, x)' => k = i
    BY <1>1, <1>5, <2>1
  <2>3. ASSUME NEW x \in finishing \cap request, x # l
        PROVE  \E i \in 1..Len(stack') : On(i, Ending, x)'
    <3>1. PICK i \in 1..n : On(i, Ending, x)
      BY <1>0 DEF Frames, Ends
    <3>2. i \in 1..(n - 1) /\ i \in 1..Len(stack')
      BY <1>0, <1>4, <2>3, <3>1 DEF On
    <3>3. On(i, Ending, x)'
      BY <1>4, <3>1, <3>2 DEF On, Ending
    <3> QED  BY <3>2, <3>3
  <2> QED  BY <1>1, <2>2, <2>3 DEF Ends
<1>8. Ended'
  BY <1>0, <1>1, <1>4, <1>5 DEF Frames, Ended, On
<1>9. Releases'
  BY <1>0, <1>1, <1>4, <1>5 DEF Frames, Releases, On, Releasing
<1>10. Removed'
  <2>1. \A i \in 1..n : stack[i].at \in Releasing =>
           stack'[i] = stack[i] /\ i \in 1..Len(stack')
    BY <1>0, <1>4 DEF Releasing
  <2> QED  BY <1>0, <1>1, <2>1 DEF Frames, Removed, On, Releasing
<1>11. Finishes'
  <2>1. SUFFICES ASSUME NEW x \in client
                 PROVE  /\ x \in finishing \cap request' =>
                             Len(stack') >= 2 /\ On(1, {"finish"}, x)' /\ On(2, Ending, x)'
                        /\ x \notin request' =>
                             \/ x \in reachedTerminalState
                             \/ Len(stack') = 1 /\ On(1, {"finish"}, x)'
                             \/ Len(stack') >= 1 /\ On(1, {"finish.removed"}, x)'
    BY <1>1 DEF Finishes
  <2>2. /\ x \in Load
        /\ x \in finishing \cap request =>
             n >= 2 /\ On(1, {"finish"}, x) /\ On(2, Ending, x)
        /\ x \notin request =>
             \/ x \in reachedTerminalState
             \/ n = 1 /\ On(1, {"finish"}, x)
             \/ n >= 1 /\ On(1, {"finish.removed"}, x)
    BY <1>0, <1>1 DEF Frames, Finishes
  <2>3. CASE x # l
    BY <1>0, <1>1, <1>4, <2>2, <2>3 DEF On, Ending
  <2>4. CASE x = l
    <3>1. n >= 2 /\ On(1, {"finish"}, l) /\ On(2, Ending, l)
      BY <1>3, <2>2, <2>4
    <3>2. n = 2
      BY <1>0, <1>2, <1>3, <3>1 DEF Frames, Ends
    <3>3. l \notin loading
      BY <1>3, <2>4 DEF Lives
    <3>4. Len(stack') = 1 /\ stack'[1] = stack[1]
      BY <1>4, <3>2, <3>3
    <3> QED  BY <1>1, <2>4, <3>1, <3>4 DEF On
  <2> QED  BY <2>3, <2>4
<1> QED  BY <1>6, <1>7, <1>8, <1>9, <1>10, <1>11 DEF Frames

\* One call, at the bottom, that ends the load.
LEMMA BottomFacts ==
    ASSUME TypeOK, Frames, NEW l \in Load,
           NEW p \in {"finish", "fail", "finish.removed", "fail.removed"}, Top(p, l)
    PROVE  /\ stack \in Seq(Frame) /\ Len(stack) = 1
           /\ stack[1].at = p /\ stack[1].loads = {l} /\ l \in created
           /\ Front(stack) = <<>> /\ Len(Front(stack)) = 0
           /\ finishing \cap request = {}
           /\ \A x \in created \ (reachedTerminalState \cup subresourceLoaders) :
                 x = l /\ p \in Releasing
           /\ cancelled \subseteq reachedTerminalState
           /\ \A x \in client \ request :
                 x \in reachedTerminalState \/ (x = l /\ p \in {"finish", "finish.removed"})
           /\ l \in finishing
           /\ p \in Releasing => /\ l \notin cancelled
                                 /\ l \notin reachedTerminalState \cup subresourceLoaders
           /\ p \notin Releasing => (l \in reachedTerminalState => l \in cancelled)
<1>1. /\ stack # <<>> /\ stack \in Seq(Frame) /\ Len(stack) \in Nat \ {0}
      /\ stack[Len(stack)].at = p /\ stack[Len(stack)].loads = {l}
  BY TopFacts DEF Place, Open
<1>2. Len(stack) = 1
  BY <1>1 DEF Frames, Placed, Bottom
<1>3. stack[1].at = p /\ stack[1].loads = {l} /\ l \in created
  BY <1>1, <1>2 DEF Frames, Placed
<1>4. \A i \in 1..Len(stack) : i = 1
  BY <1>2
<1>5. 1 \in 1..Len(stack)
  BY <1>2
<1>6. Len(Front(stack)) = 0 /\ Front(stack) \in Seq(Frame)
  BY <1>1, <1>2, PopFacts
<1>7. Front(stack) = <<>>
  BY <1>6
<1>8. /\ created \subseteq Load /\ finishing \subseteq Load /\ client \subseteq Load
      /\ cancelled \subseteq Load
  BY DEF TypeOK
<1>9. finishing \cap request = {}
  BY <1>3, <1>4, <1>8 DEF Frames, Ends, On, Ending
<1>10. \A x \in created \ (reachedTerminalState \cup subresourceLoaders) :
          x = l /\ p \in Releasing
  BY <1>3, <1>4, <1>8 DEF Frames, Removed, On, Releasing
<1>11. cancelled \subseteq reachedTerminalState
  BY <1>3, <1>4, <1>8 DEF Frames, Removed, On
<1>12. \A x \in client \ request :
          x \in reachedTerminalState \/ (x = l /\ p \in {"finish", "finish.removed"})
  BY <1>2, <1>3, <1>8 DEF Frames, Finishes, On
<1>13. /\ l \in finishing
       /\ p \in Releasing => /\ l \notin cancelled
                             /\ l \notin reachedTerminalState \cup subresourceLoaders
       /\ p \notin Releasing => (l \in reachedTerminalState => l \in cancelled)
  BY <1>3, <1>5 DEF Frames, Ended, Releases, On, Releasing
<1> QED  BY <1>1, <1>2, <1>3, <1>6, <1>7, <1>9, <1>10, <1>11, <1>12, <1>13

\* The last call returns.
LEMMA FramesEmpty ==
    ASSUME stack' = <<>>, (finishing \cap request)' = {},
           created' \subseteq (reachedTerminalState \cup subresourceLoaders)',
           cancelled' \subseteq reachedTerminalState',
           (client \ request)' \subseteq reachedTerminalState'
    PROVE  Frames'
<1>1. \A i \in 1..Len(stack') : FALSE
  OBVIOUS
<1>2. Placed' /\ Ended' /\ Releases'
  BY <1>1 DEF Placed, Ended, Releases
<1>3. Ends' /\ Removed' /\ Finishes'
  BY <1>1 DEF Ends, Removed, Finishes
<1> QED  BY <1>2, <1>3 DEF Frames

\* A load that has ended leaves its document's list, or was cancelled meanwhile.
LEMMA FramesRemoveEnded ==
    ASSUME TypeOK, Lives, Frames, NEW l \in Load, RemoveEnded(l)
    PROVE  Frames'
<1>1. PICK p \in {"finish", "fail"} :
         /\ Top(p, l)
         /\ IF l \in cancelled
            THEN Return /\ UNCHANGED subresourceLoaders
            ELSE /\ RemoveLoader(l)
                 /\ GoOnAt(IF p = "finish" THEN "finish.removed" ELSE "fail.removed", l)
  BY DEF RemoveEnded
<1>2. UNCHANGED <<created, finishing, cancelled, reachedTerminalState, request, client>>
  BY DEF RemoveEnded, loader, cache
<1>3. /\ stack \in Seq(Frame) /\ Len(stack) = 1 /\ l \in created
      /\ Front(stack) = <<>> /\ finishing \cap request = {}
      /\ \A x \in created \ (reachedTerminalState \cup subresourceLoaders) :
            x = l /\ p \in Releasing
      /\ cancelled \subseteq reachedTerminalState
      /\ \A x \in client \ request :
            x \in reachedTerminalState \/ (x = l /\ p \in {"finish", "finish.removed"})
      /\ l \in finishing
      /\ l \in reachedTerminalState => l \in cancelled
  BY <1>1, BottomFacts DEF Releasing
<1>4. created \subseteq reachedTerminalState \cup subresourceLoaders
  BY <1>1, <1>3 DEF Releasing
<1>5. CASE l \in cancelled
  <2>1. stack' = <<>> /\ subresourceLoaders' = subresourceLoaders
    BY <1>1, <1>3, <1>5 DEF Return
  <2>2. client \ request \subseteq reachedTerminalState
    BY <1>3, <1>5
  <2> QED  BY <1>2, <1>3, <1>4, <2>1, <2>2, FramesEmpty
<1>6. CASE l \notin cancelled
  <2>1. PICK q \in {"finish.removed", "fail.removed"} :
           q = IF p = "finish" THEN "finish.removed" ELSE "fail.removed"
    OBVIOUS
  <2>2. At(q, l).at = q /\ At(q, l).loads = {l}
    BY AtFacts DEF Place, Open
  <2>3. stack' = <<At(q, l)>> /\ subresourceLoaders' = subresourceLoaders \ {l}
    BY <1>1, <1>3, <1>6, <2>1 DEF GoOnAt, RemoveLoader
  <2>4. /\ Len(stack') = 1 /\ stack'[1].at = q /\ stack'[1].loads = {l}
        /\ \A i \in 1..Len(stack') : i = 1
    BY <2>2, <2>3
  <2>5. Placed'
    BY <1>2, <1>3, <2>4 DEF Placed, Bottom
  <2>6. Ends' /\ Ended'
    BY <1>2, <1>3, <2>4 DEF Ends, Ended, On, Ending
  <2>7. Releases'
    BY <1>2, <1>3, <1>6, <2>3, <2>4 DEF Releases, On, Releasing
  <2>8. Removed'
    BY <1>2, <1>3, <1>4, <2>3, <2>4 DEF Removed, On, Releasing
  <2>9. Finishes'
    BY <1>1, <1>2, <1>3, <2>1, <2>4 DEF Finishes, On
  <2> QED  BY <2>5, <2>6, <2>7, <2>8, <2>9 DEF Frames
<1> QED  BY <1>5, <1>6

\* A load that has ended is released.
LEMMA FramesReleaseEnded ==
    ASSUME TypeOK, Frames, NEW l \in Load, ReleaseEnded(l)
    PROVE  Frames'
<1>1. PICK p \in {"finish.removed", "fail.removed"} : Top(p, l)
  BY DEF ReleaseEnded
<1>2. UNCHANGED <<created, finishing, cancelled, subresourceLoaders, request, client>>
  BY DEF ReleaseEnded, cache
<1>3. /\ Front(stack) = <<>> /\ finishing \cap request = {}
      /\ \A x \in created \ (reachedTerminalState \cup subresourceLoaders) :
            x = l /\ p \in Releasing
      /\ cancelled \subseteq reachedTerminalState
      /\ \A x \in client \ request : x \in reachedTerminalState \/ x = l
      /\ l \notin cancelled
  BY <1>1, BottomFacts DEF Releasing
<1>4. stack' = <<>> /\ reachedTerminalState' = reachedTerminalState \cup {l}
  BY <1>3 DEF ReleaseEnded, Return, Release
<1>5. /\ created \subseteq reachedTerminalState' \cup subresourceLoaders
      /\ cancelled \subseteq reachedTerminalState'
      /\ client \ request \subseteq reachedTerminalState'
  BY <1>3, <1>4
<1> QED  BY <1>2, <1>3, <1>4, <1>5, FramesEmpty

\* cancel() goes on, unless the load was released inside it.
LEMMA FramesCancelHandle ==
    ASSUME TypeOK, Lives, Frames, NEW l \in Load, CancelHandle(l)
    PROVE  Frames'
<1>0. PICK n \in Nat \ {0} : n = Len(stack) /\ stack[n].at = "cancel" /\ stack[n].loads = {l}
  BY TopFacts DEF CancelHandle, Place
<1>1. /\ UNCHANGED <<created, finishing, reachedTerminalState, request, client>>
      /\ cancelled' = cancelled \cup {l}
      /\ stack \in Seq(Frame) /\ stack # <<>>
      /\ created \subseteq Load /\ finishing \subseteq Load /\ client \subseteq Load
      /\ cancelled \subseteq Load
  BY DEF CancelHandle, cache, Top, TypeOK
<1>2. n \in 1..Len(stack) /\ On(n, {"cancel", "finish", "fail"}, l)
  BY <1>0 DEF On
<1>3. l \in finishing /\ (l \in reachedTerminalState => l \in cancelled)
  BY <1>2 DEF Frames, Ended
<1>4. CASE l \in reachedTerminalState
  <2>1. UNCHANGED flags /\ stack' = Front(stack)
    BY <1>1, <1>3, <1>4 DEF CancelHandle, Return, flags
  <2> QED  BY <1>0, <1>1, <2>1, FramesPop DEF Ending, Releasing
<1>5. CASE l \notin reachedTerminalState
  <2>1. /\ At("cancel.removed", l) \in Frame
        /\ At("cancel.removed", l).at = "cancel.removed"
        /\ At("cancel.removed", l).loads = {l}
    BY AtFacts DEF Place, Open
  <2>2. /\ stack' = Append(Front(stack), At("cancel.removed", l))
        /\ subresourceLoaders' = subresourceLoaders \ {l}
    BY <1>5 DEF CancelHandle, RemoveLoader, GoOnAt
  <2>3. /\ Len(stack') = n /\ stack'[n].at = "cancel.removed" /\ stack'[n].loads = {l}
        /\ \A i \in 1..(n - 1) : stack'[i] = stack[i]
    BY <1>0, <1>1, <2>1, <2>2, ReplaceFacts
  <2>4. /\ \A i \in 1..n : i \in 1..(n - 1) \/ i = n
        /\ n \in 1..n
    BY <1>0
  <2>5. Placed'
    <3>1. l \in created /\ \A i \in 1..(n - 1) : stack[i].at # "notify"
      BY <1>0, <1>2 DEF Frames, Placed
    <3>2. \A i \in 1..(n - 1) :
             /\ stack[i].loads \subseteq created
             /\ stack[i].at # "cancelAll" => \E x \in created : stack[i].loads = {x}
             /\ stack[i].at \in Bottom => i = 1
      BY <1>0 DEF Frames, Placed
    <3> QED  BY <1>0, <1>1, <2>3, <2>4, <3>1, <3>2 DEF Placed, Bottom
  <2>6. Ends'
    <3>1. \A i \in 1..n, x \in Load : On(i, Ending, x)' <=> On(i, Ending, x)
      BY <1>0, <2>3, <2>4 DEF On, Ending
    <3> QED  BY <1>0, <1>1, <2>3, <3>1 DEF Frames, Ends
  <2>7. Ended'
    BY <1>0, <1>1, <2>3, <2>4 DEF Frames, Ended, On
  <2>8. Releases'
    <3>1. SUFFICES ASSUME NEW i \in 1..n, NEW x \in Load, On(i, Releasing, x)'
                   PROVE  /\ x \in finishing
                          /\ x \notin reachedTerminalState \cup subresourceLoaders'
                          /\ x \in cancelled' <=> stack'[i].at = "cancel.removed"
                          /\ \A k \in (i + 1)..n : x \notin stack'[k].loads
      BY <1>0, <1>1, <2>3 DEF Releases
    <3>2. CASE i = n
      BY <1>0, <1>1, <1>3, <1>5, <2>2, <2>3, <3>1, <3>2 DEF On
    <3>3. CASE i \in 1..(n - 1)
      <4>1. On(i, Releasing, x) /\ stack'[i] = stack[i]
        BY <2>3, <3>1, <3>3 DEF On, Releasing
      <4>2. /\ x \in finishing
            /\ x \notin reachedTerminalState \cup subresourceLoaders
            /\ x \in cancelled <=> stack[i].at = "cancel.removed"
            /\ \A k \in (i + 1)..n : x \notin stack[k].loads
        BY <1>0, <4>1 DEF Frames, Releases
      <4>3. x # l
        BY <1>0, <3>3, <4>2
      <4>4. \A k \in (i + 1)..n : x \notin stack'[k].loads
        <5> SUFFICES ASSUME NEW k \in (i + 1)..n
                     PROVE  x \notin stack'[k].loads
          OBVIOUS
        <5>1. k = n \/ k \in 1..(n - 1)
          BY <1>0, <3>3
        <5> QED  BY <2>3, <4>2, <4>3, <5>1
      <4> QED  BY <1>1, <2>2, <4>1, <4>2, <4>3, <4>4
    <3> QED  BY <2>4, <3>2, <3>3
  <2>9. Removed'
    <3>1. \A i \in 1..n : stack[i].at \in Releasing => stack'[i] = stack[i]
      BY <1>0, <2>3, <2>4 DEF Releasing
    <3>2. \A x \in created \ (reachedTerminalState \cup subresourceLoaders') :
             \E i \in 1..n : On(i, Releasing, x)'
      <4> SUFFICES ASSUME NEW x \in created \ (reachedTerminalState \cup subresourceLoaders')
                   PROVE  \E i \in 1..n : On(i, Releasing, x)'
        OBVIOUS
      <4>1. CASE x = l
        BY <2>3, <2>4, <4>1 DEF On, Releasing
      <4>2. CASE x # l
        <5>1. PICK i \in 1..n : On(i, Releasing, x)
          BY <1>0, <2>2, <4>2 DEF Frames, Removed
        <5> QED  BY <3>1, <5>1 DEF On, Releasing
      <4> QED  BY <4>1, <4>2
    <3>3. \A x \in (cancelled \cup {l}) \ reachedTerminalState :
             \E i \in 1..n : On(i, {"cancel.removed"}, x)'
      <4> SUFFICES ASSUME NEW x \in (cancelled \cup {l}) \ reachedTerminalState
                   PROVE  \E i \in 1..n : On(i, {"cancel.removed"}, x)'
        OBVIOUS
      <4>1. CASE x = l
        BY <2>3, <2>4, <4>1 DEF On
      <4>2. CASE x # l
        <5>1. PICK i \in 1..n : On(i, {"cancel.removed"}, x)
          BY <1>0, <4>2 DEF Frames, Removed
        <5> QED  BY <3>1, <5>1 DEF On, Releasing
      <4> QED  BY <4>1, <4>2
    <3> QED  BY <1>1, <2>3, <3>2, <3>3 DEF Removed
  <2>10. Finishes'
    BY <1>0, <1>1, <2>3, <2>4 DEF Frames, Finishes, On, Ending
  <2> QED  BY <2>5, <2>6, <2>7, <2>8, <2>9, <2>10 DEF Frames
<1> QED  BY <1>4, <1>5

\* A cancelled load is released.
LEMMA FramesReleaseCancelled ==
    ASSUME TypeOK, Frames, NEW l \in Load, ReleaseCancelled(l)
    PROVE  Frames'
<1>0. PICK n \in Nat \ {0} :
         n = Len(stack) /\ stack[n].at = "cancel.removed" /\ stack[n].loads = {l}
  BY TopFacts DEF ReleaseCancelled, Place, Open
<1>1. /\ UNCHANGED <<created, finishing, cancelled, subresourceLoaders, request, client>>
      /\ reachedTerminalState' = reachedTerminalState \cup {l}
      /\ stack \in Seq(Frame) /\ stack # <<>> /\ stack' = Front(stack)
      /\ created \subseteq Load /\ finishing \subseteq Load /\ client \subseteq Load
      /\ cancelled \subseteq Load
  BY DEF ReleaseCancelled, Release, Return, cache, Top, TypeOK
<1>2. n \in 1..Len(stack) /\ On(n, Releasing, l)
  BY <1>0 DEF On, Releasing
<1>3. l \in finishing /\ l \in cancelled
  BY <1>0, <1>2 DEF Frames, Releases
<1>4. Len(stack') = n - 1 /\ \A i \in 1..(n - 1) : stack'[i] = stack[i]
  BY <1>0, <1>1, PopFacts
<1>5. \A i \in 1..n : i \in 1..(n - 1) \/ i = n
  BY <1>0
<1>6. Placed'
  BY <1>0, <1>1, <1>4, <1>5 DEF Frames, Placed, Bottom
<1>7. Ends'
  BY <1>0, <1>1, <1>4, <1>5 DEF Frames, Ends, On, Ending
<1>8. Ended'
  BY <1>0, <1>1, <1>3, <1>4, <1>5 DEF Frames, Ended, On
<1>9. Releases'
  BY <1>0, <1>1, <1>4, <1>5 DEF Frames, Releases, On, Releasing
<1>10. Removed'
  <2>1. \A x \in created \ (reachedTerminalState' \cup subresourceLoaders) :
           \E i \in 1..(n - 1) : On(i, Releasing, x)
    BY <1>0, <1>1, <1>5 DEF Frames, Removed, On
  <2>2. \A x \in cancelled \ reachedTerminalState' :
           \E i \in 1..(n - 1) : On(i, {"cancel.removed"}, x)
    BY <1>0, <1>1, <1>5 DEF Frames, Removed, On
  <2> QED  BY <1>1, <1>4, <2>1, <2>2 DEF Removed, On, Releasing
<1>11. Finishes'
  BY <1>0, <1>1, <1>4, <1>5 DEF Frames, Finishes, On, Ending
<1> QED  BY <1>6, <1>7, <1>8, <1>9, <1>10, <1>11 DEF Frames

-----------------------------------------------------------------------------
(* The loads, step by step.                                                 *)

Loads == TypeOK /\ Lives /\ Slots /\ Count

outstanding == request \ (finishing \cup multipart)

\* The count follows the set it counts.
LEMMA CountStays ==
    ASSUME Count, requestCount' = requestCount, request' \subseteq request,
           outstanding' = outstanding
    PROVE  Count'
<1>1. IsFiniteSet(request')
  BY FS_Subset DEF Count
<1> QED  BY <1>1 DEF Count, CountIsOutstanding, outstanding

\* A request more is counted.
LEMMA CountUp ==
    ASSUME Count, requestCount \in Nat, requestCount' = requestCount + 1, NEW l \in Load,
           request' = request \cup {l}, l \notin outstanding,
           outstanding' = outstanding \cup {l}
    PROVE  Count' /\ requestCount' \in Nat
<1>1. IsFiniteSet(request')
  BY FS_AddElement DEF Count
<1>2. IsFiniteSet(outstanding)
  BY FS_Subset DEF Count, outstanding
<1>3. Cardinality(outstanding \cup {l}) = Cardinality(outstanding) + 1
  BY <1>2, FS_AddElement
<1>4. Cardinality(outstanding') = requestCount'
  BY <1>3 DEF Count, CountIsOutstanding, outstanding
<1> QED  BY <1>1, <1>4 DEF Count, CountIsOutstanding, outstanding

\* A request that ends is counted down once, a multipart one not again.
LEMMA CountDown ==
    ASSUME Count, requestCount \in Nat, NEW l \in Load, Uncount(l), request' = request,
           l \notin multipart <=> l \in outstanding,
           outstanding' = outstanding \ {l}
    PROVE  Count' /\ requestCount' \in Nat
<1>1. CASE l \in multipart
  <2>1. requestCount' = requestCount /\ outstanding' = outstanding
    BY <1>1 DEF Uncount
  <2> QED  BY <2>1, CountStays
<1>2. CASE l \notin multipart
  <2>1. IsFiniteSet(outstanding) /\ l \in outstanding
    BY <1>2, FS_Subset DEF Count, outstanding
  <2>2. /\ Cardinality(outstanding \ {l}) = Cardinality(outstanding) - 1
        /\ Cardinality(outstanding \ {l}) \in Nat
    BY <2>1, FS_RemoveElement, FS_CardinalityType
  <2>3. requestCount' = requestCount - 1
    BY <1>2 DEF Uncount
  <2>4. requestCount = Cardinality(outstanding)
    BY DEF Count, CountIsOutstanding, outstanding
  <2>5. requestCount' = Cardinality(outstanding') /\ requestCount' \in Nat
    BY <2>2, <2>3, <2>4
  <2> QED  BY <2>5 DEF Count, CountIsOutstanding, outstanding
<1> QED  BY <1>1, <1>2

\* Steps that move only on the stack.
LEMMA LoadsStay ==
    ASSUME Loads, UNCHANGED <<loader, net, lists, cache, defers>>, stack' \in Seq(Frame)
    PROVE  Loads'
<1> USE DEF loader, net, lists, cache
<1>1. TypeOK'
  BY DEF Loads, TypeOK
<1>2. Lives' /\ Slots'
  BY DEF Loads, Lives, Slots
<1>3. Count'
  BY DEF Loads, Count, CountIsOutstanding
<1> QED  BY <1>1, <1>2, <1>3 DEF Loads

\* A load is made.
LEMMA LoadsCachedResourceLoad ==
    ASSUME Loads, NEW l \in Load, CachedResourceLoad(l)
    PROVE  Loads'
<1> USE DEF Loads
<1>1. l \notin created \cup request \cup finishing \cup multipart \cup reachedTerminalState
  BY DEF CachedResourceLoad, Lives, Slots, TypeOK
<1>2. Count' /\ requestCount' \in Nat
  <2>1. /\ l \notin outstanding /\ outstanding' = outstanding \cup {l}
        /\ request' = request \cup {l} /\ requestCount' = requestCount + 1
        /\ requestCount \in Nat
    BY <1>1 DEF CachedResourceLoad, outstanding, TypeOK
  <2> QED  BY <2>1, CountUp
<1>3. TypeOK'
  BY <1>2 DEF CachedResourceLoad, net, TypeOK
<1>4. Lives'
  BY <1>1 DEF CachedResourceLoad, net, Lives
<1>5. Slots'
  BY <1>1 DEF CachedResourceLoad, net, Slots, TypeOK
<1> QED  BY <1>2, <1>3, <1>4, <1>5

\* A load is started, or deferred at once.
LEMMA LoadsStart ==
    ASSUME Loads, NEW l \in Load, Start(l)
    PROVE  Loads'
<1> USE DEF Loads
<1>1. l \in created \ reachedTerminalState
  BY DEF Start, Slots
<1>2. TypeOK'
  BY DEF Start, loader, cache, TypeOK
<1>3. Lives'
  BY <1>1 DEF Start, loader, cache, Lives
<1>4. Slots'
  BY <1>1 DEF Start, loader, cache, Slots, TypeOK
<1>5. Count'
  BY DEF Start, loader, cache, Count, CountIsOutstanding
<1> QED  BY <1>2, <1>3, <1>4, <1>5

\* The page defers its loads, or resumes them.
LEMMA LoadsSetDefersLoading ==
    ASSUME Loads, SetDefersLoading
    PROVE  Loads'
<1> USE DEF Loads
<1>1. PICK restarted \in SUBSET (deferred \cap subresourceLoaders) :
         /\ deferred' = deferred \ restarted
         /\ handle' = [l \in Load |-> IF l \in restarted THEN "live" ELSE handle[l]]
  BY DEF SetDefersLoading
<1>2. \A l \in restarted : l \in created \ reachedTerminalState
  BY <1>1 DEF Slots, Lives, TypeOK
<1>3. UNCHANGED <<loader, responded, lists, cache, stack>> /\ defers' = ~defers
  BY DEF SetDefersLoading
<1>4. TypeOK'
  BY <1>1, <1>3 DEF loader, lists, cache, TypeOK
<1>5. Lives'
  BY <1>1, <1>3 DEF loader, lists, cache, Lives
<1>6. Slots'
  BY <1>1, <1>2, <1>3 DEF loader, lists, cache, Slots
<1>7. Count'
  BY <1>3 DEF loader, lists, cache, Count, CountIsOutstanding
<1> QED  BY <1>4, <1>5, <1>6, <1>7

\* cancel() ends the request, unless it is ending already.
LEMMA LoadsCancel ==
    ASSUME Loads, NEW l \in created, NEW calls \in Seq(Frame), Cancel(l, calls)
    PROVE  Loads'
<1> USE DEF Loads
<1>1. /\ l \in Load /\ At("cancel", l) \in Frame /\ At("end", l) \in Frame
  BY AtFacts DEF TypeOK, Place, Open
<1>2. /\ UNCHANGED <<created, reachedTerminalState, cancelled, multipart, net, lists,
                     request, loading, errorOccurred, defers>>
      /\ calledWillCancel' = calledWillCancel \cup {l}
  BY DEF Cancel
<1>3. CASE l \notin calledWillCancel /\ TakesEnd(l)
  <2>1. /\ Uncount(l)
        /\ finishing' = finishing \cup {l}
        /\ client' = client \ {l}
        /\ validator' = validator \ {l}
        /\ stack' = calls \o <<At("cancel", l), At("end", l)>>
    BY <1>3 DEF Cancel
  <2>2. l \in client \ finishing /\ l \in request
    BY <1>3 DEF TakesEnd, Lives
  <2>3. Count' /\ requestCount' \in Nat
    <3>1. /\ l \notin multipart <=> l \in outstanding
          /\ outstanding' = outstanding \ {l}
          /\ request' = request /\ requestCount \in Nat
      BY <1>2, <2>1, <2>2 DEF outstanding, TypeOK
    <3> QED  BY <1>1, <2>1, <3>1, CountDown
  <2>4. stack' \in Seq(Frame)
    BY <1>1, <2>1, PushTwoFacts
  <2>5. TypeOK'
    BY <1>1, <1>2, <2>1, <2>3, <2>4 DEF net, lists, TypeOK
  <2>6. Lives'
    BY <1>2, <2>1, <2>2 DEF net, lists, Lives
  <2>7. Slots'
    BY <1>2, <2>1 DEF net, lists, Slots
  <2> QED  BY <2>3, <2>5, <2>6, <2>7
<1>4. CASE ~(l \notin calledWillCancel /\ TakesEnd(l))
  <2>1. /\ stack' = Append(calls, At("cancel", l))
        /\ UNCHANGED <<requestCount, finishing, client, validator>>
    BY <1>4 DEF Cancel
  <2>2. l \in finishing
    BY <1>4 DEF TakesEnd, Lives
  <2>3. stack' \in Seq(Frame)
    BY <1>1, <2>1, PushFacts
  <2>4. TypeOK'
    BY <1>1, <1>2, <2>1, <2>3 DEF net, lists, TypeOK
  <2>5. Lives'
    BY <1>2, <2>1, <2>2 DEF net, lists, Lives
  <2>6. Slots'
    BY <1>2, <2>1 DEF net, lists, Slots
  <2>7. Count'
    BY <1>2, <2>1 DEF Count, CountIsOutstanding
  <2> QED  BY <2>4, <2>5, <2>6, <2>7
<1> QED  BY <1>3, <1>4

\* A call on the empty stack.
LEMMA FirstCalls ==
    ASSUME NEW l \in Load, stack = <<>>, NEW p \in {"response", "finish", "fail", "data"}
    PROVE  /\ stack \o <<At(p, l)>> = <<At(p, l)>>
           /\ <<At(p, l)>> \in Seq(Frame)
           /\ stack \o <<At(p, l), At("end", l)>> = <<At(p, l), At("end", l)>>
           /\ <<At(p, l), At("end", l)>> \in Seq(Frame)
<1>1. At(p, l) \in Frame /\ At("end", l) \in Frame
  BY AtFacts DEF Place, Open
<1> QED  BY <1>1

\* The response, in its three ways; the frames with it.
LEMMA LoadsResponse ==
    ASSUME Loads, Frames, NEW l \in Load, Response(l)
    PROVE  Loads' /\ Frames'
<1> USE DEF Loads
<1>1. /\ Answers(l) /\ stack = <<>> /\ l \in created \ reachedTerminalState
      /\ l \in client => l \in request \ finishing
      /\ l \notin responded /\ l \notin multipart
  BY AnswersFacts DEF Response, Lives
<1>2. /\ UNCHANGED <<created, reachedTerminalState, calledWillCancel, cancelled, deferred,
                     lists, request, loading, errorOccurred, defers>>
      /\ responded' = responded \cup {l}
      /\ validator' = validator \ {l}
      /\ requestCount \in Nat
  BY DEF Response, TypeOK
<1>3. CASE /\ stack' = <<At("response", l)>>
           /\ UNCHANGED <<client, multipart, handle, finishing, requestCount>>
  <2>1. TypeOK'
    BY <1>2, <1>3, <1>1, FirstCalls DEF lists, TypeOK
  <2>2. Lives'
    BY <1>1, <1>2, <1>3 DEF lists, Lives
  <2>3. Slots'
    BY <1>2, <1>3 DEF lists, Slots
  <2>4. Count'
    BY <1>2, <1>3 DEF Count, CountIsOutstanding
  <2>5. Frames'
    BY <1>1, <1>2, <1>3, FramesAnswer DEF lists
  <2> QED  BY <2>1, <2>2, <2>3, <2>4, <2>5
<1>4. CASE /\ l \in client
           /\ client' = client \ {l}
           /\ Uncount(l)
           /\ finishing' = finishing \cup {l}
           /\ stack' = <<At("response", l), At("end", l)>>
           /\ UNCHANGED <<multipart, handle>>
  <2>1. Count' /\ requestCount' \in Nat
    <3>1. /\ l \notin multipart <=> l \in outstanding
          /\ outstanding' = outstanding \ {l}
          /\ request' = request
      BY <1>1, <1>2, <1>4 DEF outstanding
    <3> QED  BY <1>2, <1>4, <3>1, CountDown
  <2>2. TypeOK'
    BY <1>1, <1>2, <1>4, <2>1, FirstCalls DEF lists, TypeOK
  <2>3. Lives'
    BY <1>1, <1>2, <1>4 DEF lists, Lives
  <2>4. Slots'
    BY <1>2, <1>4 DEF lists, Slots
  <2>5. Frames'
    BY <1>1, <1>2, <1>4, FramesAnswer DEF lists
  <2> QED  BY <2>1, <2>2, <2>3, <2>4, <2>5
<1>5. CASE /\ l \in client
           /\ multipart' = multipart \cup {l}
           /\ Uncount(l)
           /\ handle' \in {handle, [handle EXCEPT ![l] = "cancelled"]}
           /\ stack' = <<At("response", l)>>
           /\ UNCHANGED <<client, finishing>>
  <2>1. Count' /\ requestCount' \in Nat
    <3>1. /\ l \notin multipart <=> l \in outstanding
          /\ outstanding' = outstanding \ {l}
          /\ request' = request
      BY <1>1, <1>2, <1>5 DEF outstanding
    <3> QED  BY <1>2, <1>5, <3>1, CountDown
  <2>2. TypeOK'
    BY <1>1, <1>2, <1>5, <2>1, FirstCalls DEF lists, TypeOK
  <2>3. Lives'
    BY <1>1, <1>2, <1>5 DEF lists, Lives
  <2>4. Slots'
    BY <1>1, <1>2, <1>5 DEF lists, Slots, TypeOK
  <2>5. Frames'
    BY <1>1, <1>2, <1>5, FramesAnswer DEF lists
  <2> QED  BY <2>1, <2>2, <2>3, <2>4, <2>5
<1> QED  BY <1>1, <1>3, <1>4, <1>5, FirstCalls DEF Response, Call

\* The data of an error.
LEMMA LoadsDataOfError ==
    ASSUME Loads, Frames, NEW l \in Load, DataOfError(l)
    PROVE  Loads' /\ Frames'
<1> USE DEF Loads
<1>1. Answers(l) /\ stack = <<>> /\ l \in created
  BY AnswersFacts DEF DataOfError
<1>2. /\ UNCHANGED <<loader, net, lists, request, finishing, validator, requestCount, defers>>
      /\ errorOccurred' = errorOccurred \cup {l}
      /\ loading' = loading \ {l}
      /\ stack' = Append(stack, At("data", l))
  BY <1>1 DEF DataOfError, Call
<1>3. At("data", l) \in Frame /\ At("data", l).at = "data" /\ At("data", l).loads = {l}
  BY AtFacts DEF Place, Open
<1>4. TypeOK'
  <2>1. stack' \in Seq(Frame)
    BY <1>2, <1>3, PushFacts DEF TypeOK
  <2> QED  BY <1>2, <2>1 DEF loader, net, lists, TypeOK
<1>5. Lives' /\ Slots'
  BY <1>2 DEF loader, net, lists, Lives, Slots
<1>6. Count'
  BY <1>2 DEF loader, Count, CountIsOutstanding
<1>7. Frames'
  BY <1>1, <1>2, <1>3, FramesPush DEF loader, lists, flags, Running, Lives
<1> QED  BY <1>4, <1>5, <1>6, <1>7

\* The load has finished.
LEMMA LoadsFinish ==
    ASSUME Loads, Frames, NEW l \in Load, Finish(l)
    PROVE  Loads' /\ Frames'
<1> USE DEF Loads
<1>1. /\ Answers(l) /\ stack = <<>> /\ l \in created \ reachedTerminalState
      /\ l \in client => l \in request \ finishing
      /\ l \notin client => l \in finishing
      /\ l \in responded
  BY AnswersFacts DEF Finish
<1>2. /\ UNCHANGED <<loader, net, lists, request, validator, errorOccurred, defers>>
      /\ requestCount \in Nat
  BY DEF Finish, TypeOK
<1>3. CASE TakesEnd(l)
  <2>1. /\ Uncount(l)
        /\ finishing' = finishing \cup {l}
        /\ loading' = loading \ {l}
        /\ stack' = <<At("finish", l), At("end", l)>>
    BY <1>1, <1>3, FirstCalls DEF Finish, Call
  <2>2. l \in client /\ l \in request \ finishing
    BY <1>1, <1>3 DEF TakesEnd
  <2>3. Count' /\ requestCount' \in Nat
    <3>1. /\ l \notin multipart <=> l \in outstanding
          /\ outstanding' = outstanding \ {l}
          /\ request' = request
      BY <1>2, <2>1, <2>2 DEF outstanding, loader
    <3> QED  BY <1>2, <2>1, <3>1, CountDown
  <2>4. TypeOK'
    BY <1>1, <1>2, <2>1, <2>3, FirstCalls DEF loader, net, lists, TypeOK
  <2>5. Lives'
    BY <1>1, <1>2, <2>1, <2>2 DEF loader, net, lists, Lives
  <2>6. Slots'
    BY <1>2, <2>1 DEF loader, net, lists, Slots
  <2>7. Frames'
    BY <1>1, <1>2, <2>1, <2>2, FramesAnswer DEF loader, lists
  <2> QED  BY <2>3, <2>4, <2>5, <2>6, <2>7
<1>4. CASE ~TakesEnd(l)
  <2>1. /\ UNCHANGED <<requestCount, finishing, loading>>
        /\ stack' = <<At("finish", l)>>
    BY <1>1, <1>4, FirstCalls DEF Finish, Call
  <2>2. l \in finishing
    BY <1>1, <1>4 DEF TakesEnd
  <2>3. UNCHANGED <<loader, net, lists, cache, defers>> /\ stack' \in Seq(Frame)
    BY <1>1, <1>2, <2>1, FirstCalls DEF cache
  <2>4. Loads'
    BY <2>3, LoadsStay
  <2>5. Frames'
    BY <1>1, <1>2, <2>1, <2>2, FramesAnswer DEF loader, lists
  <2> QED  BY <2>4, <2>5
<1> QED  BY <1>3, <1>4

\* The load has failed.
LEMMA LoadsFail ==
    ASSUME Loads, Frames, NEW l \in Load, Fail(l)
    PROVE  Loads' /\ Frames'
<1> USE DEF Loads
<1>1. /\ Answers(l) /\ stack = <<>> /\ l \in created \ reachedTerminalState
      /\ l \in client => l \in request \ finishing
      /\ l \notin client => l \in finishing
  BY AnswersFacts DEF Fail
<1>2. /\ UNCHANGED <<created, reachedTerminalState, calledWillCancel, cancelled, multipart, net,
                     lists, request, defers>>
      /\ requestCount \in Nat
  BY DEF Fail, TypeOK
<1>3. CASE TakesEnd(l)
  <2>1. /\ Uncount(l)
        /\ finishing' = finishing \cup {l}
        /\ client' = client \ {l}
        /\ validator' = validator \ {l}
        /\ errorOccurred' = errorOccurred \cup {l}
        /\ loading' = loading \ {l}
        /\ stack' = <<At("fail", l), At("end", l)>>
    BY <1>1, <1>3, FirstCalls DEF Fail, Call
  <2>2. l \in client /\ l \in request \ finishing
    BY <1>1, <1>3 DEF TakesEnd
  <2>3. Count' /\ requestCount' \in Nat
    <3>1. /\ l \notin multipart <=> l \in outstanding
          /\ outstanding' = outstanding \ {l}
          /\ request' = request
      BY <1>2, <2>1, <2>2 DEF outstanding
    <3> QED  BY <1>2, <2>1, <3>1, CountDown
  <2>4. TypeOK'
    BY <1>1, <1>2, <2>1, <2>3, FirstCalls DEF net, lists, TypeOK
  <2>5. Lives'
    BY <1>1, <1>2, <2>1, <2>2 DEF net, lists, Lives
  <2>6. Slots'
    BY <1>2, <2>1 DEF net, lists, Slots
  <2>7. Frames'
    BY <1>1, <1>2, <2>1, <2>2, FramesAnswer DEF lists
  <2> QED  BY <2>3, <2>4, <2>5, <2>6, <2>7
<1>4. CASE ~TakesEnd(l)
  <2>1. /\ UNCHANGED <<requestCount, finishing, client, validator, errorOccurred, loading>>
        /\ stack' = <<At("fail", l)>>
    BY <1>1, <1>4, FirstCalls DEF Fail, Call
  <2>2. l \in finishing
    BY <1>1, <1>4 DEF TakesEnd
  <2>3. UNCHANGED <<loader, net, lists, cache, defers>> /\ stack' \in Seq(Frame)
    BY <1>1, <1>2, <2>1, FirstCalls DEF cache, loader
  <2>4. Loads'
    BY <2>3, LoadsStay
  <2>5. Frames'
    BY <1>1, <1>2, <2>1, <2>2, FramesAnswer DEF lists
  <2> QED  BY <2>4, <2>5
<1> QED  BY <1>3, <1>4

-----------------------------------------------------------------------------
\* The request is deleted.
LEMMA LoadsStopLoading ==
    ASSUME Loads, Frames, NEW l \in Load, StopLoading(l)
    PROVE  Loads'
<1> USE DEF Loads
<1>1. /\ stack # <<>> /\ stack \in Seq(Frame)
      /\ Len(stack) \in Nat \ {0}
      /\ stack[Len(stack)].at = "stop" /\ stack[Len(stack)].loads = {l}
  BY TopFacts DEF StopLoading, Place, Open
<1>2. l \in finishing \cap request
  BY <1>1 DEF Frames, Ends, On, Ending
<1>3. /\ UNCHANGED <<loader, net, lists, finishing, validator, errorOccurred, requestCount,
                     defers>>
      /\ request' = request \ {l}
      /\ loading' = loading \ {l}
  BY DEF StopLoading
<1>4. stack' \in Seq(Frame)
  <2>1. At("notified", l) \in Frame
    BY AtFacts DEF Place, Open
  <2>2. Front(stack) \in Seq(Frame)
    BY <1>1, PopFacts
  <2>3. Append(Front(stack), At("notified", l)) \in Seq(Frame)
    BY <1>1, <2>1, ReplaceFacts
  <2> QED  BY <2>2, <2>3 DEF StopLoading, Return, GoOnAt
<1>5. TypeOK'
  BY <1>3, <1>4 DEF loader, net, lists, TypeOK
<1>6. Lives' /\ Slots'
  BY <1>2, <1>3 DEF loader, net, lists, Lives, Slots
<1>7. Count'
  <2>1. outstanding' = outstanding /\ request' \subseteq request
    BY <1>2, <1>3 DEF loader, outstanding
  <2> QED  BY <1>3, <2>1, CountStays
<1> QED  BY <1>5, <1>6, <1>7

\* The loader leaves its document's list.
LEMMA LoadsRemoveEnded ==
    ASSUME Loads, NEW l \in Load, RemoveEnded(l)
    PROVE  Loads'
<1> USE DEF Loads
<1>1. PICK p \in {"finish", "fail"} :
         /\ Top(p, l)
         /\ IF l \in cancelled
            THEN Return /\ UNCHANGED subresourceLoaders
            ELSE /\ RemoveLoader(l)
                 /\ GoOnAt(IF p = "finish" THEN "finish.removed" ELSE "fail.removed", l)
  BY DEF RemoveEnded
<1>2. stack # <<>> /\ stack \in Seq(Frame)
  BY <1>1 DEF Top, TypeOK
<1>3. stack' \in Seq(Frame)
  <2>1. PICK q \in {"finish.removed", "fail.removed"} :
           q = IF p = "finish" THEN "finish.removed" ELSE "fail.removed"
    OBVIOUS
  <2>2. At(q, l) \in Frame
    BY AtFacts DEF Place, Open
  <2>3. stack' = Front(stack) \/ stack' = Append(Front(stack), At(q, l))
    BY <1>1, <2>1 DEF Return, GoOnAt
  <2>4. Front(stack) \in Seq(Frame)
    BY <1>2, PopFacts
  <2>5. Append(Front(stack), At(q, l)) \in Seq(Frame)
    BY <1>2, <2>2, ReplaceFacts
  <2> QED  BY <2>3, <2>4, <2>5
<1>4. /\ UNCHANGED <<loader, deferred, responded, scheduled, cache, defers>>
      /\ handle' = [handle EXCEPT ![l] = "none"]
      /\ subresourceLoaders' \subseteq subresourceLoaders
  BY DEF RemoveEnded, RemoveLoader
<1>5. TypeOK'
  BY <1>3, <1>4 DEF loader, cache, TypeOK
<1>6. Lives' /\ Slots'
  BY <1>4 DEF loader, cache, Lives, Slots, TypeOK
<1>7. Count'
  BY <1>4 DEF loader, cache, Count, CountIsOutstanding
<1> QED  BY <1>5, <1>6, <1>7

\* releaseResources, of a load that has ended and is off its document's list.
LEMMA LoadsRelease ==
    ASSUME Loads, NEW l \in Load, l \in finishing \ subresourceLoaders, Release(l), Return,
           stack # <<>>,
           UNCHANGED <<created, calledWillCancel, cancelled, client, multipart, responded,
                       subresourceLoaders, cache, defers>>
    PROVE  Loads'
<1> USE DEF Loads
<1>1. stack' \in Seq(Frame)
  BY PopFacts DEF Return, TypeOK
<1>2. TypeOK'
  BY <1>1 DEF Release, cache, TypeOK
<1>3. Lives'
  BY DEF Release, cache, Lives
<1>4. Slots'
  BY DEF Release, cache, Lives, Slots, TypeOK
<1>5. Count'
  BY DEF cache, Count, CountIsOutstanding
<1> QED  BY <1>2, <1>3, <1>4, <1>5

\* releaseResources at the end of a load,
LEMMA LoadsReleaseEnded ==
    ASSUME Loads, Frames, NEW l \in Load, ReleaseEnded(l)
    PROVE  Loads'
<1> USE DEF Loads
<1>1. PICK p \in {"finish.removed", "fail.removed"} : Top(p, l)
  BY DEF ReleaseEnded
<1>2. l \in finishing \ subresourceLoaders /\ l \notin cancelled
  BY <1>1, BottomFacts DEF Releasing
<1>3. stack # <<>>
  BY <1>1 DEF Top
<1>4. Release(l) /\ Return
  BY <1>2 DEF ReleaseEnded
<1> QED  BY <1>2, <1>3, <1>4, LoadsRelease DEF ReleaseEnded

\* and at the end of cancel().
LEMMA LoadsReleaseCancelled ==
    ASSUME Loads, Frames, NEW l \in Load, ReleaseCancelled(l)
    PROVE  Loads'
<1>1. /\ stack # <<>> /\ Len(stack) \in Nat \ {0}
      /\ stack[Len(stack)].at = "cancel.removed" /\ stack[Len(stack)].loads = {l}
  BY TopFacts DEF Loads, ReleaseCancelled, Place, Open
<1>2. l \in finishing \ subresourceLoaders
  BY <1>1 DEF Frames, Releases, On, Releasing
<1> QED  BY <1>1, <1>2, LoadsRelease DEF ReleaseCancelled

\* The rest of cancel().
LEMMA LoadsCancelHandle ==
    ASSUME Loads, Frames, NEW l \in Load, CancelHandle(l)
    PROVE  Loads'
<1> USE DEF Loads
<1>1. /\ stack # <<>> /\ stack \in Seq(Frame) /\ Len(stack) \in Nat \ {0}
      /\ stack[Len(stack)].at = "cancel" /\ stack[Len(stack)].loads = {l}
  BY TopFacts DEF CancelHandle, Place
<1>2. l \in created
  BY <1>1 DEF Frames, Placed
<1>3. stack' \in Seq(Frame)
  <2>1. At("cancel.removed", l) \in Frame
    BY AtFacts DEF Place, Open
  <2>2. Front(stack) \in Seq(Frame)
    BY <1>1, PopFacts
  <2>3. Append(Front(stack), At("cancel.removed", l)) \in Seq(Frame)
    BY <1>1, <2>1, ReplaceFacts
  <2> QED  BY <2>2, <2>3 DEF CancelHandle, Return, GoOnAt
<1>4. /\ UNCHANGED <<created, reachedTerminalState, calledWillCancel, client, multipart,
                     deferred, responded, scheduled, cache, defers>>
      /\ cancelled' = cancelled \cup {l}
      /\ handle' \in {handle, [handle EXCEPT ![l] = "none"]}
      /\ subresourceLoaders' \subseteq subresourceLoaders
  BY DEF CancelHandle, RemoveLoader
<1>5. TypeOK'
  BY <1>3, <1>4 DEF cache, TypeOK
<1>6. Lives'
  BY <1>2, <1>4 DEF cache, Lives
<1>7. Slots'
  BY <1>4 DEF cache, Slots, TypeOK
<1>8. Count'
  BY <1>4 DEF cache, Count, CountIsOutstanding
<1> QED  BY <1>5, <1>6, <1>7, <1>8

-----------------------------------------------------------------------------
(* The other steps, on loads and calls together.                            *)

\* Scripts, the host and the scheduler.
LEMMA StepEnvironment ==
    ASSUME IInv, SetDefersLoading \/ StopLoadingSubresources
                 \/ \E l \in Load : CachedResourceLoad(l) \/ Start(l)
    PROVE  IInv'
<1> USE DEF Loads
<1>1. Loads /\ Frames
  BY DEF IInv
<1>2. /\ finishing \subseteq created /\ client \subseteq created /\ request \subseteq created
      /\ subresourceLoaders \subseteq created
  BY <1>1 DEF Lives
<1>3. CASE SetDefersLoading
  <2>1. Loads'
    BY <1>1, <1>3, LoadsSetDefersLoading
  <2>2. Frames'
    BY <1>1, <1>2, <1>3, FramesStill DEF SetDefersLoading, loader, lists, cache
  <2> QED  BY <2>1, <2>2 DEF IInv
<1>4. CASE \E l \in Load : CachedResourceLoad(l)
  <2>1. PICK l \in Load : CachedResourceLoad(l)
    BY <1>4
  <2>2. Loads'
    BY <1>1, <2>1, LoadsCachedResourceLoad
  <2>3. /\ Running /\ UNCHANGED <<stack, finishing, cancelled, reachedTerminalState>>
        /\ created' = created \cup {l} /\ l \notin created
        /\ client' = client \cup {l} /\ request' = request \cup {l}
        /\ subresourceLoaders' = subresourceLoaders \cup {l}
    BY <2>1 DEF CachedResourceLoad
  <2>4. Frames'
    BY <1>1, <1>2, <2>3, FramesStill
  <2> QED  BY <2>2, <2>4 DEF IInv
<1>5. CASE \E l \in Load : Start(l)
  <2>1. PICK l \in Load : Start(l)
    BY <1>5
  <2>2. Loads'
    BY <1>1, <2>1, LoadsStart
  <2>3. Frames'
    BY <1>1, <1>2, <2>1, FramesStill DEF Start, loader, cache
  <2> QED  BY <2>2, <2>3 DEF IInv
<1>6. CASE StopLoadingSubresources
  <2>1. PICK f \in Frame : f = [at |-> "cancelAll", loads |-> subresourceLoaders]
    BY <1>1 DEF Frame, Place, TypeOK
  <2>2. /\ stack' = Append(stack, f) /\ Running
        /\ UNCHANGED <<loader, net, lists, cache, defers>>
    BY <1>6, <2>1 DEF StopLoadingSubresources, Call
  <2>3. stack' \in Seq(Frame)
    BY <1>1, <2>2, PushFacts DEF TypeOK
  <2>4. Loads'
    BY <1>1, <2>2, <2>3, LoadsStay
  <2>5. UNCHANGED flags
    BY <2>2 DEF flags, loader, lists, cache
  <2>6. f.at = "cancelAll" /\ f.loads = subresourceLoaders
    BY <2>1
  <2>7. Frames'
    BY <1>1, <1>2, <2>2, <2>5, <2>6, FramesPush
  <2> QED  BY <2>4, <2>7 DEF IInv
<1> QED  BY <1>3, <1>4, <1>5, <1>6

\* A client, or a script, cancels a load.
LEMMA StepCancel ==
    ASSUME IInv, NEW l \in Load, RefuseRedirect(l) \/ CancelRequest(l)
    PROVE  IInv'
<1>1. Loads /\ Frames
  BY DEF IInv, Loads
<1>2. /\ l \in created /\ Cancel(l, stack)
      /\ stack = <<>> \/ stack[Len(stack)].at \in Open \cup {"cancelAll"}
      /\ \A i \in 1..Len(stack) : ~On(i, Releasing, l)
  <2>1. CASE RefuseRedirect(l)
    <3>1. stack = <<>> /\ l \in created /\ Cancel(l, stack)
      BY <1>1, <2>1, AnswersFacts DEF RefuseRedirect, Loads
    <3> QED  BY <3>1
  <2>2. CASE CancelRequest(l)
    <3>1. l \in request \ finishing /\ Cancel(l, stack) /\ Running
      BY <2>2 DEF CancelRequest
    <3>2. l \in created
      BY <1>1, <3>1 DEF Loads, Lives
    <3>3. \A i \in 1..Len(stack) : ~On(i, Releasing, l)
      BY <1>1, <3>1 DEF Frames, Releases
    <3> QED  BY <3>1, <3>2, <3>3 DEF Running, Last
  <2> QED  BY <2>1, <2>2
<1>3. stack \in Seq(Frame)
  BY <1>1 DEF Loads, TypeOK
<1>4. Loads'
  BY <1>1, <1>2, <1>3, LoadsCancel
<1>5. Frames'
  BY <1>1, <1>2, <1>3, FramesCancel DEF Loads
<1> QED  BY <1>4, <1>5 DEF IInv, Loads

\* cancelAll goes on to the next load of its copy.
LEMMA StepCancelNext ==
    ASSUME IInv, CancelNext
    PROVE  IInv'
<1>1. Loads /\ Frames
  BY DEF IInv, Loads
<1>2. /\ stack # <<>> /\ stack \in Seq(Frame) /\ Last(stack) = stack[Len(stack)]
      /\ stack[Len(stack)].at = "cancelAll" /\ Len(stack) \in Nat \ {0}
      /\ stack[Len(stack)] \in Frame
  BY <1>1, PopFacts DEF CancelNext, Loads, TypeOK
<1>3. PICK rest \in SUBSET Load : rest = stack[Len(stack)].loads
  BY <1>2 DEF Frame
<1>4. \A l \in rest : /\ [at |-> "cancelAll", loads |-> rest \ {l}] \in Frame
                      /\ [at |-> "cancelAll", loads |-> rest \ {l}].at = "cancelAll"
                      /\ [at |-> "cancelAll", loads |-> rest \ {l}].loads = rest \ {l}
  BY DEF Frame, Place
<1>5. \/ /\ stack' = Front(stack)
         /\ UNCHANGED <<loader, net, lists, cache, defers>>
      \/ \E l \in rest :
           /\ stack' = Append(Front(stack), [at |-> "cancelAll", loads |-> rest \ {l}])
           /\ UNCHANGED <<loader, net, lists, cache, defers>>
      \/ \E l \in rest :
           Cancel(l, Append(Front(stack), [at |-> "cancelAll", loads |-> rest \ {l}]))
  BY <1>2, <1>3 DEF CancelNext, Return
<1>6. CASE /\ stack' = Front(stack)
           /\ UNCHANGED <<loader, net, lists, cache, defers>>
  <2>1. stack' \in Seq(Frame) /\ UNCHANGED flags
    BY <1>2, <1>6, PopFacts DEF flags, loader, lists, cache
  <2>2. Loads'
    BY <1>1, <1>6, <2>1, LoadsStay
  <2>3. Frames'
    BY <1>1, <1>2, <1>6, <2>1, FramesPop DEF Loads, Ending, Releasing
  <2> QED  BY <2>2, <2>3 DEF IInv, Loads
<1>7. ASSUME NEW l \in rest,
             stack' = Append(Front(stack), [at |-> "cancelAll", loads |-> rest \ {l}]),
             UNCHANGED <<loader, net, lists, cache, defers>>
      PROVE  IInv'
  <2>1. PICK f \in Frame : /\ f = [at |-> "cancelAll", loads |-> rest \ {l}]
                           /\ f.at = "cancelAll" /\ f.loads = rest \ {l}
    BY <1>4
  <2>2. stack' = Append(Front(stack), f) /\ f.loads \subseteq stack[Len(stack)].loads
    BY <1>3, <1>7, <2>1
  <2>3. stack' \in Seq(Frame) /\ UNCHANGED flags
    BY <1>2, <1>7, <2>2, ReplaceFacts DEF flags, loader, lists, cache
  <2>4. Loads'
    BY <1>1, <1>7, <2>3, LoadsStay
  <2>5. Frames'
    BY <1>1, <1>2, <2>1, <2>2, <2>3, FramesReplace DEF Loads, Ending, Releasing, Bottom
  <2> QED  BY <2>4, <2>5 DEF IInv, Loads
<1>8. ASSUME NEW l \in rest,
             Cancel(l, Append(Front(stack), [at |-> "cancelAll", loads |-> rest \ {l}]))
      PROVE  IInv'
  <2>1. PICK f \in Frame : /\ f = [at |-> "cancelAll", loads |-> rest \ {l}]
                           /\ f.at = "cancelAll" /\ f.loads = rest \ {l}
    BY <1>4
  <2>2. PICK calls \in Seq(Frame) :
           /\ calls = Append(Front(stack), f)
           /\ Len(calls) = Len(stack) /\ calls[Len(stack)] = f
           /\ \A i \in 1..(Len(stack) - 1) : calls[i] = stack[i]
    BY <1>2, ReplaceFacts
  <2>3. Cancel(l, calls)
    BY <1>8, <2>1, <2>2
  <2>4. \A i \in 1..Len(stack) : /\ calls[i].at = stack[i].at
                                 /\ calls[i].loads \subseteq stack[i].loads
                                 /\ stack[i].at # "cancelAll" => calls[i].loads = stack[i].loads
    <3>1. \A i \in 1..Len(stack) : i \in 1..(Len(stack) - 1) \/ i = Len(stack)
      BY <1>2
    <3> QED  BY <1>2, <1>3, <2>1, <2>2, <3>1
  <2>5. l \in created
    <3>1. Len(stack) \in 1..Len(stack)
      BY <1>2
    <3> QED  BY <1>1, <1>3, <3>1 DEF Frames, Placed
  <2>6. \A i \in 1..Len(stack) : ~On(i, Releasing, l)
    <3> SUFFICES ASSUME NEW i \in 1..Len(stack), On(i, Releasing, l)
                 PROVE  FALSE
      OBVIOUS
    <3>1. i # Len(stack)
      BY <1>2 DEF On, Releasing
    <3>2. Len(stack) \in (i + 1)..Len(stack)
      BY <1>2, <3>1
    <3> QED  BY <1>1, <1>3, <3>2 DEF Frames, Releases
  <2>7. Loads'
    BY <1>1, <2>3, <2>5, LoadsCancel
  <2>8. Frames'
    BY <1>1, <1>2, <2>2, <2>3, <2>4, <2>5, <2>6, FramesCancel DEF Loads
  <2> QED  BY <2>7, <2>8 DEF IInv, Loads
<1> QED  BY <1>5, <1>6, <1>7, <1>8

\* A call goes on that touches no load.
LEMMA StepLight ==
    ASSUME IInv, NEW l \in Load, ResponseNotify(l) \/ LoadDone(l) \/ Done(l)
    PROVE  IInv'
<1>1. Loads /\ Frames
  BY DEF IInv, Loads
<1>2. UNCHANGED <<loader, net, lists, cache, defers>>
  BY DEF ResponseNotify, LoadDone, Done
<1>3. UNCHANGED flags
  BY <1>2 DEF flags, loader, lists, cache
<1>4. PICK p \in {"response", "end", "data", "notify", "notified"} :
         /\ Top(p, l)
         /\ \/ p # "end" /\ stack' = Front(stack)
            \/ /\ p = "response" /\ l \notin reachedTerminalState
               /\ stack' = Append(Front(stack), At("notify", l))
            \/ p = "end" /\ stack' = Append(Front(stack), At("stop", l))
  BY DEF ResponseNotify, LoadDone, Done, Return, GoOnAt
<1>5. /\ stack # <<>> /\ stack \in Seq(Frame) /\ Len(stack) \in Nat \ {0}
      /\ stack[Len(stack)].at = p /\ stack[Len(stack)].loads = {l}
  BY <1>1, <1>4, TopFacts DEF Loads, Place, Open
<1>6. CASE p # "end" /\ stack' = Front(stack)
  <2>1. stack' \in Seq(Frame)
    BY <1>5, <1>6, PopFacts
  <2>2. Loads'
    BY <1>1, <1>2, <2>1, LoadsStay
  <2>3. Frames'
    BY <1>1, <1>3, <1>5, <1>6, FramesPop DEF Loads, Ending, Releasing
  <2> QED  BY <2>2, <2>3 DEF IInv, Loads
<1>7. ASSUME NEW q \in {"notify", "stop"},
             stack' = Append(Front(stack), At(q, l)),
             p = IF q = "notify" THEN "response" ELSE "end",
             q = "notify" => l \notin reachedTerminalState
      PROVE  IInv'
  <2>1. PICK f \in Frame : f = At(q, l) /\ f.at = q /\ f.loads = {l}
    BY AtFacts DEF Place, Open
  <2>2. stack' = Append(Front(stack), f) /\ stack' \in Seq(Frame)
    BY <1>5, <1>7, <2>1, ReplaceFacts
  <2>3. Loads'
    BY <1>1, <1>2, <2>2, LoadsStay
  <2>4. q = "notify" => Len(stack) = 1 /\ f.loads \cap reachedTerminalState = {}
    <3>1. stack[Len(stack)].at = "response" => Len(stack) = 1
      <4>1. PICK n \in 1..Len(stack) : n = Len(stack)
        BY <1>5
      <4>2. stack[n].at \in Bottom => n = 1
        BY <1>1 DEF Frames, Placed
      <4> QED  BY <4>1, <4>2 DEF Bottom
    <3> QED  BY <1>5, <1>7, <2>1, <3>1
  <2>5. Frames'
    BY <1>1, <1>3, <1>5, <1>7, <2>1, <2>2, <2>4, FramesReplace
       DEF Loads, Ending, Releasing, Bottom
  <2> QED  BY <2>3, <2>5 DEF IInv, Loads
<1> QED  BY <1>4, <1>6, <1>7

-----------------------------------------------------------------------------
\* The invariant holds at first,
LEMMA Initially == Init => IInv
<1> SUFFICES ASSUME Init
             PROVE  IInv
  OBVIOUS
<1>1. TypeOK
  BY DEF Init, TypeOK
<1>2. Lives /\ Slots
  BY DEF Init, Lives, Slots
<1>3. Count
  <2>1. request \ (finishing \cup multipart) = {} /\ request = {} /\ requestCount = 0
    BY DEF Init
  <2> QED  BY <2>1, FS_EmptySet DEF Count, CountIsOutstanding
<1>4. Frames
  <2>1. \A i \in 1..Len(stack) : FALSE
    BY DEF Init
  <2>2. Placed /\ Ended /\ Releases
    BY <2>1 DEF Placed, Ended, Releases
  <2>3. Ends /\ Removed /\ Finishes
    BY <2>1 DEF Init, Ends, Removed, Finishes
  <2> QED  BY <2>2, <2>3 DEF Frames
<1> QED  BY <1>1, <1>2, <1>3, <1>4 DEF IInv

\* when nothing happens,
LEMMA Stuttering == IInv /\ UNCHANGED vars => IInv'
<1> SUFFICES ASSUME IInv, UNCHANGED vars
             PROVE  IInv'
  OBVIOUS
<1>1. Loads /\ Frames
  BY DEF IInv, Loads
<1>2. UNCHANGED <<loader, net, lists, cache, defers>> /\ stack' = stack
  BY DEF vars
<1>3. Loads'
  BY <1>1, <1>2, LoadsStay DEF Loads, TypeOK
<1>4. UNCHANGED flags
  BY <1>2 DEF flags, loader, lists, cache
<1>5. Placed' /\ Ends' /\ Ended'
  BY <1>1, <1>2, <1>4 DEF Frames, Placed, Ends, Ended, On, flags
<1>6. Releases' /\ Removed' /\ Finishes'
  BY <1>1, <1>2, <1>4 DEF Frames, Releases, Removed, Finishes, On, flags
<1> QED  BY <1>3, <1>5, <1>6 DEF IInv, Loads, Frames

\* and after every step.
LEMMA Preserved == IInv /\ [Next]_vars => IInv'
<1> SUFFICES ASSUME IInv, [Next]_vars
             PROVE  IInv'
  OBVIOUS
<1>1. Loads /\ Frames
  BY DEF IInv, Loads
<1>2. CASE SetDefersLoading \/ StopLoadingSubresources
           \/ \E l \in Load : CachedResourceLoad(l) \/ Start(l)
  BY <1>2, StepEnvironment
<1>3. CASE \E l \in Load : RefuseRedirect(l) \/ CancelRequest(l)
  BY <1>3, StepCancel
<1>4. CASE \E l \in Load : Response(l) \/ DataOfError(l) \/ Finish(l) \/ Fail(l)
  <2>1. Loads' /\ Frames'
    BY <1>1, <1>4, LoadsResponse, LoadsDataOfError, LoadsFinish, LoadsFail
  <2> QED  BY <2>1 DEF IInv, Loads
<1>5. CASE \E l \in Load : ResponseNotify(l) \/ LoadDone(l) \/ Done(l)
  BY <1>5, StepLight
<1>6. CASE \E l \in Load : StopLoading(l) \/ RemoveEnded(l) \/ ReleaseEnded(l)
                           \/ CancelHandle(l) \/ ReleaseCancelled(l)
  <2>1. Loads'
    BY <1>1, <1>6, LoadsStopLoading, LoadsRemoveEnded, LoadsReleaseEnded, LoadsCancelHandle,
       LoadsReleaseCancelled
  <2>2. Frames'
    BY <1>1, <1>6, FramesStopLoading, FramesRemoveEnded, FramesReleaseEnded,
       FramesCancelHandle, FramesReleaseCancelled DEF Loads
  <2> QED  BY <2>1, <2>2 DEF IInv, Loads
<1>7. CASE CancelNext
  BY <1>7, StepCancelNext
<1>8. CASE UNCHANGED vars
  BY <1>8, Stuttering
<1> QED  BY <1>2, <1>3, <1>4, <1>5, <1>6, <1>7, <1>8 DEF Next, Environment, Event, GoesOn

\* So it always holds, with any number of loads and any depth of calls.
LEMMA Invariant == Spec => []IInv
BY Initially, Preserved, PTL DEF Spec

-----------------------------------------------------------------------------
(* What the invariant says of the numbers of calls.                         *)

\* Calls counts frames of one load; cancelAll is not among them.
LEMMA CallOf ==
    ASSUME TypeOK, Placed, NEW i \in 1..Len(stack), NEW l \in Load, NEW places,
           "cancelAll" \notin places
    PROVE  On(i, places, l) <=> stack[i].at \in places /\ stack[i].loads = {l}
BY DEF On, Placed

\* No call is at these places,
LEMMA NoCall ==
    ASSUME NEW l \in Load, NEW places,
           \A i \in 1..Len(stack) : ~(stack[i].at \in places /\ stack[i].loads = {l})
    PROVE  Calls(places, l) = 0
<1>1. {i \in 1..Len(stack) : stack[i].at \in places /\ stack[i].loads = {l}} = {}
  OBVIOUS
<1> QED  BY <1>1, FS_EmptySet DEF Calls

\* or exactly one.
LEMMA OneCall ==
    ASSUME NEW l \in Load, NEW places, NEW k \in 1..Len(stack),
           stack[k].at \in places, stack[k].loads = {l},
           \A i \in 1..Len(stack) : stack[i].at \in places /\ stack[i].loads = {l} => i = k
    PROVE  Calls(places, l) = 1
<1>1. {i \in 1..Len(stack) : stack[i].at \in places /\ stack[i].loads = {l}} = {k}
  OBVIOUS
<1> QED  BY <1>1, FS_Singleton DEF Calls

\* Ends and Finishes, in terms of Calls.
LEMMA Requests == IInv => RequestOutlivesCalls
<1> SUFFICES ASSUME IInv, NEW l \in Load
             PROVE  /\ Calls({"end", "stop"}, l) = IF l \in finishing \cap request THEN 1 ELSE 0
                    /\ l \in client \ request =>
                         \/ l \in reachedTerminalState
                         \/ /\ Calls({"finish", "finish.removed"}, l) = 1
                            /\ l \notin subresourceLoaders
                         \/ Top("finish", l)
  BY DEF RequestOutlivesCalls
<1>1. TypeOK /\ Placed /\ Ends /\ Releases /\ Finishes
  BY DEF IInv, Frames
<1>2. stack \in Seq(Frame) /\ Len(stack) \in Nat
  BY <1>1 DEF TypeOK
<1>3. \A i \in 1..Len(stack) :
         On(i, Ending, l) <=> stack[i].at \in {"end", "stop"} /\ stack[i].loads = {l}
  BY <1>1, CallOf DEF Ending
<1>4. CASE l \in finishing \cap request
  <2>1. PICK k \in 1..Len(stack) : On(k, Ending, l)
    BY <1>1, <1>4 DEF Ends
  <2>2. \A i \in 1..Len(stack) : On(i, Ending, l) => i = k
    BY <1>1, <2>1 DEF Ends
  <2>3. Calls({"end", "stop"}, l) = 1
    BY <1>3, <2>1, <2>2, OneCall
  <2> QED  BY <1>4, <2>3
<1>5. CASE l \notin finishing \cap request
  <2>1. \A i \in 1..Len(stack) : ~On(i, Ending, l)
    BY <1>1, <1>5 DEF Ends
  <2>2. Calls({"end", "stop"}, l) = 0
    BY <1>3, <2>1, NoCall
  <2>3. ASSUME l \in client \ request, l \notin reachedTerminalState
        PROVE  \/ Calls({"finish", "finish.removed"}, l) = 1 /\ l \notin subresourceLoaders
               \/ Top("finish", l)
    <3>1. \/ Len(stack) = 1 /\ On(1, {"finish"}, l)
          \/ Len(stack) >= 1 /\ On(1, {"finish.removed"}, l)
      BY <1>1, <2>3 DEF Finishes
    <3>2. 1 \in 1..Len(stack)
      BY <1>2, <3>1
    <3>3. CASE Len(stack) = 1 /\ On(1, {"finish"}, l)
      <4>1. stack[1].at = "finish" /\ stack[1].loads = {l}
        BY <1>1, <3>2, <3>3, CallOf
      <4>2. stack[1] \in Frame /\ stack # <<>> /\ Last(stack) = stack[1]
        BY <1>2, <3>3 DEF Last
      <4>3. stack[1] = At("finish", l)
        BY <4>1, <4>2 DEF Frame, At
      <4> QED  BY <4>2, <4>3 DEF Top
    <3>4. CASE On(1, {"finish.removed"}, l)
      <4>1. stack[1].at = "finish.removed" /\ stack[1].loads = {l}
        BY <1>1, <3>2, <3>4, CallOf
      <4>2. \A i \in 1..Len(stack) :
               stack[i].at \in {"finish", "finish.removed"} => i = 1
        BY <1>1 DEF Placed, Bottom
      <4>3. Calls({"finish", "finish.removed"}, l) = 1
        BY <3>2, <4>1, <4>2, OneCall
      <4>4. l \notin subresourceLoaders
        BY <1>1, <3>2, <4>1 DEF Releases, On, Releasing
      <4> QED  BY <4>3, <4>4
    <3> QED  BY <3>1, <3>3, <3>4
  <2> QED  BY <1>5, <2>2, <2>3
<1> QED  BY <1>4, <1>5

\* Releases and Ended, in terms of Calls.
LEMMA ReleaseCalls == IInv => ReleasedOnce
<1> SUFFICES ASSUME IInv, NEW l \in Load
             PROVE  /\ l \in reachedTerminalState => Calls({"notify"} \cup Releasing, l) = 0
                    /\ Calls(Releasing, l) <= 1
                    /\ Calls({"cancel"}, l) > 0 /\ l \in reachedTerminalState => l \in cancelled
  BY DEF ReleasedOnce
<1>1. TypeOK /\ Placed /\ Ended /\ Releases
  BY DEF IInv, Frames
<1>2. Len(stack) \in Nat
  BY <1>1 DEF TypeOK
<1>3. \A i \in 1..Len(stack) :
         stack[i].at \in Releasing /\ stack[i].loads = {l} => On(i, Releasing, l)
  BY DEF On
<1>4. ASSUME l \in reachedTerminalState
      PROVE  Calls({"notify"} \cup Releasing, l) = 0
  <2>1. \A i \in 1..Len(stack) : ~On(i, Releasing, l)
    BY <1>1, <1>4 DEF Releases
  <2>2. \A i \in 1..Len(stack) : ~(stack[i].at = "notify" /\ stack[i].loads = {l})
    BY <1>1, <1>4 DEF Placed
  <2>3. \A i \in 1..Len(stack) :
           ~(stack[i].at \in {"notify"} \cup Releasing /\ stack[i].loads = {l})
    BY <1>3, <2>1, <2>2
  <2> QED  BY <2>3, NoCall
<1>5. Calls(Releasing, l) <= 1
  <2>1. CASE \A i \in 1..Len(stack) : ~(stack[i].at \in Releasing /\ stack[i].loads = {l})
    <3>1. Calls(Releasing, l) = 0
      BY <2>1, NoCall
    <3> QED  BY <3>1
  <2>2. ASSUME NEW k \in 1..Len(stack), stack[k].at \in Releasing, stack[k].loads = {l}
        PROVE  Calls(Releasing, l) <= 1
    <3>1. ASSUME NEW i \in 1..Len(stack), stack[i].at \in Releasing, stack[i].loads = {l}
          PROVE  i = k
      <4>1. /\ \A j \in (i + 1)..Len(stack) : l \notin stack[j].loads
            /\ \A j \in (k + 1)..Len(stack) : l \notin stack[j].loads
        BY <1>1, <1>3, <2>2, <3>1 DEF Releases
      <4>2. ~(i < k)
        BY <1>2, <2>2, <4>1
      <4>3. ~(k < i)
        BY <1>2, <3>1, <4>1
      <4> QED  BY <1>2, <4>2, <4>3
    <3>2. Calls(Releasing, l) = 1
      BY <2>2, <3>1, OneCall
    <3> QED  BY <3>2
  <2> QED  BY <2>1, <2>2
<1>6. ASSUME Calls({"cancel"}, l) > 0, l \in reachedTerminalState
      PROVE  l \in cancelled
  <2>1. CASE \A i \in 1..Len(stack) : ~(stack[i].at \in {"cancel"} /\ stack[i].loads = {l})
    <3>1. Calls({"cancel"}, l) = 0
      BY <2>1, NoCall
    <3> QED  BY <1>6, <3>1
  <2>2. ASSUME NEW i \in 1..Len(stack), stack[i].at = "cancel", stack[i].loads = {l}
        PROVE  l \in cancelled
    BY <1>1, <1>6, <2>2 DEF Ended, On
  <2> QED  BY <2>1, <2>2
<1> QED  BY <1>4, <1>5, <1>6

\* Slots, Ends and Removed, when the stack is empty.
LEMMA BetweenEvents == IInv => AllOrNothing
<1> SUFFICES ASSUME IInv, stack = <<>>, NEW l \in created
             PROVE  IF l \in reachedTerminalState
                    THEN /\ l \notin request \cup loading \cup subresourceLoaders \cup deferred
                         /\ scheduled[l] = "no" /\ handle[l] = "none"
                    ELSE l \in subresourceLoaders /\ scheduled[l] # "no"
  BY DEF AllOrNothing
<1>1. l \in Load /\ \A i \in 1..Len(stack) : FALSE
  BY DEF IInv, TypeOK
<1>2. finishing \cap request = {} /\ loading \subseteq request
  BY <1>1 DEF IInv, Frames, Ends, Lives
<1>3. CASE l \in reachedTerminalState
  <2>1. l \in finishing /\ l \notin subresourceLoaders \cup deferred
    BY <1>1, <1>3 DEF IInv, Slots
  <2>2. scheduled[l] = "no" /\ handle[l] = "none"
    BY <1>1, <1>3 DEF IInv, Slots
  <2> QED  BY <1>2, <1>3, <2>1, <2>2
<1>4. CASE l \notin reachedTerminalState
  <2>1. l \in subresourceLoaders
    BY <1>1, <1>4 DEF IInv, Frames, Removed
  <2>2. scheduled[l] # "no"
    BY <1>1, <1>4 DEF IInv, Slots
  <2> QED  BY <1>4, <2>1, <2>2
<1> QED  BY <1>3, <1>4

-----------------------------------------------------------------------------
(* The theorems.                                                            *)

\* TypeOK, of the flags, the handles and the calls in progress.
THEOREM TypeCorrect == Spec => []TypeOK
<1>1. IInv => TypeOK
  BY DEF IInv
<1> QED  BY <1>1, Invariant, PTL

\* The request of a load lives as long as anything calls it: it is deleted by
\* the one call of its end(), and its loader calls it no more after that.
THEOREM RequestsOutliveCalls == Spec => []RequestOutlivesCalls
BY Requests, Invariant, PTL

\* releaseResources runs once for each load, and nothing that is given the
\* frame or the document loader runs after it.
THEOREM ReleasesOnce == Spec => []ReleasedOnce
BY ReleaseCalls, Invariant, PTL

\* m_requestCount is the number of the requests that have not ended, multipart
\* ones apart, whatever calls a cancellation interrupts.
THEOREM CountIsRight == Spec => []CountIsOutstanding
<1>1. IInv => CountIsOutstanding
  BY DEF IInv, Count
<1> QED  BY <1>1, Invariant, PTL

\* With no call in progress a load is on the lists of the scheduler and of its
\* document, or it is over and on none.
THEOREM LoadsAllOrNothing == Spec => []AllOrNothing
BY BetweenEvents, Invariant, PTL

=============================================================================
