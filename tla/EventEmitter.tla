---------------------------- MODULE EventEmitter ----------------------------
(***************************************************************************)
(* One emitter (class EventEmitter of event.ts), with handlers that use it *)
(* while it calls them: they add and remove handlers, themselves included, *)
(* emit again, or throw.  The session does all of this: leave() takes its  *)
(* handler off while it is called, failed calls emit errors.               *)
(*                                                                         *)
(* Everything is synchronous, so the emissions in progress form a stack    *)
(* and only the innermost one, or the handler it calls, can go on.  The    *)
(* loop of emit() over #always runs over the array itself, not a copy;     *)
(* removeAllListeners() leaves a loop in progress with the old array.      *)
(***************************************************************************)
EXTENDS Naturals, Sequences, FiniteSets, SequencesExt

CONSTANTS Handlers, NoHandler,
          MaxEmits,   \* emissions
          MaxUses     \* uses of on, once, off and removeAllListeners

ASSUME HandlersAssumption == NoHandler \notin Handlers
ASSUME BoundsAssumption == MaxEmits \in Nat /\ MaxUses \in Nat

VARIABLES
  always, once,   \* #always and #once
  had,            \* #had_subscriptions, as last told to #has_subscriptions
  stack,          \* the emissions in progress, the innermost first
  emits, uses,    \* how many so far
  asked, served,  \* how often once() took each handler, and emit() called it
  stale           \* since #had_subscriptions was last brought up to date,
                  \* off() was used or a handler has thrown

lists == <<always, once>>
counts == <<emits, uses, asked, served>>
vars == <<lists, had, stack, counts, stale>>

(* An emission: the handlers its first loop has yet to call; the array of  *)
(* its second loop, unless that is #always itself, and the place it has    *)
(* come to; the handler it is calling.  For the properties: the handlers   *)
(* that were registered when it began, those of them that were removed     *)
(* since, and how often each was called by the second loop.                *)
Emission == [first : Seq(Handlers), detached : BOOLEAN, array : Seq(Handlers),
             next : Nat, calling : Handlers \union {NoHandler},
             began : SUBSET Handlers, gone : SUBSET Handlers, called : [Handlers -> Nat]]

ArrayOf(e) == IF e.detached THEN e.array ELSE always

Init == /\ always = <<>> /\ once = <<>> /\ had = FALSE
        /\ stack = <<>>
        /\ emits = 0 /\ uses = 0
        /\ asked = [h \in Handlers |-> 0] /\ served = [h \in Handlers |-> 0]
        /\ stale = FALSE
-----------------------------------------------------------------------------
(* The code that runs is the application's or a handler's.                 *)
CanUse == stack # <<>> => Head(stack).calling # NoHandler

(* #update() tells the producer when subscriptions begin or end.           *)
Update == had' = (always' # <<>> \/ once' # <<>>) /\ stale' = FALSE

Use == CanUse /\ uses < MaxUses /\ uses' = uses + 1

(* Mutant: a handler that is registered already is registered again.       *)
OnAgain(h) ==
  /\ Use
  /\ always' = Append(always, h) /\ once' = once
  /\ Update
  /\ UNCHANGED <<stack, emits, asked, served>>

On(h) ==
  /\ Use
  /\ \/ h \notin ToSet(always) /\ always' = Append(always, h) /\ once' = once /\ Update
     \/ h \in ToSet(always) /\ UNCHANGED <<always, once, had, stale>>
  /\ UNCHANGED <<stack, emits, asked, served>>

(* Mutant: once() does not tell the producer.                              *)
OnceUntold(h) ==
  /\ Use
  /\ h \notin ToSet(once)
  /\ once' = Append(once, h)
  /\ asked' = [asked EXCEPT ![h] = @ + 1]
  /\ UNCHANGED <<always, had, stale, stack, emits, served>>

Once(h) ==
  /\ Use
  /\ \/ /\ h \notin ToSet(once)
        /\ once' = Append(once, h) /\ always' = always
        /\ asked' = [asked EXCEPT ![h] = @ + 1]
        /\ Update
     \/ h \in ToSet(once) /\ UNCHANGED <<always, once, had, stale, asked>>
  /\ UNCHANGED <<stack, emits, served>>

(* splice() at the place that indexOf() finds.                             *)
Spliced(s, h) ==
  IF h \in ToSet(s) THEN RemoveAt(s, CHOOSE i \in DOMAIN s : s[i] = h) ELSE s

(* off() takes the handler out of both arrays and does not call #update(). *)
Off(h) ==
  /\ Use
  /\ always' = Spliced(always, h)
  /\ once' = Spliced(once, h)
  /\ stack' = [i \in DOMAIN stack |->
                 [stack[i] EXCEPT !.gone = @ \union ({h} \intersect ToSet(always))]]
  /\ stale' = TRUE
  /\ UNCHANGED <<had, emits, asked, served>>

(* Both arrays are replaced; loops in progress keep the old one.           *)
RemoveAllListeners ==
  /\ Use
  /\ always' = <<>> /\ once' = <<>>
  /\ stack' = [i \in DOMAIN stack |->
                 [stack[i] EXCEPT !.array = ArrayOf(stack[i]), !.detached = TRUE]]
  /\ Update
  /\ UNCHANGED <<emits, asked, served>>
-----------------------------------------------------------------------------
NewEmission == [first |-> once, detached |-> FALSE, array |-> <<>>, next |-> 1,
                calling |-> NoHandler, began |-> ToSet(always), gone |-> {},
                called |-> [h \in Handlers |-> 0]]

(* Mutant: #once is not emptied before its handlers are called.            *)
EmitKeepingOnce ==
  /\ CanUse /\ emits < MaxEmits
  /\ emits' = emits + 1
  /\ stack' = <<NewEmission>> \o stack
  /\ UNCHANGED <<lists, had, uses, asked, served, stale>>

Emit ==
  /\ CanUse /\ emits < MaxEmits
  /\ emits' = emits + 1
  /\ stack' = <<NewEmission>> \o stack
  /\ once' = <<>>
  /\ UNCHANGED <<always, had, uses, asked, served, stale>>

(* The innermost emission, when no handler runs.                           *)
Looping == stack # <<>> /\ Head(stack).calling = NoHandler
Becomes(e) == stack' = <<e>> \o Tail(stack)

(* The first loop: the handlers of once(), which are already unregistered. *)
CallOnce ==
  /\ Looping
  /\ LET e == Head(stack) IN
       /\ e.first # <<>>
       /\ Becomes([e EXCEPT !.calling = Head(e.first), !.first = Tail(e.first)])
       /\ served' = [served EXCEPT ![Head(e.first)] = @ + 1]
  /\ UNCHANGED <<lists, had, emits, uses, asked, stale>>

(* The second loop: whatever stands at the next place of the array now.    *)
CallAlways ==
  /\ Looping
  /\ LET e == Head(stack) IN
       /\ e.first = <<>> /\ e.next <= Len(ArrayOf(e))
       /\ LET h == ArrayOf(e)[e.next]
          IN  Becomes([e EXCEPT !.calling = h, !.next = @ + 1, !.called[h] = @ + 1])
  /\ UNCHANGED <<lists, had, counts, stale>>

HandlerReturns ==
  /\ stack # <<>> /\ ~Looping
  /\ Becomes([Head(stack) EXCEPT !.calling = NoHandler])
  /\ UNCHANGED <<lists, had, counts, stale>>

(* The exception ends the emission; a handler that emitted may catch it.   *)
HandlerThrows ==
  /\ stack # <<>> /\ ~Looping
  /\ stack' = Tail(stack)
  /\ stale' = TRUE
  /\ UNCHANGED <<lists, had, counts>>

Complete(e) == e.calling = NoHandler /\ e.first = <<>> /\ e.next > Len(ArrayOf(e))

EmitReturns ==
  /\ stack # <<>> /\ Complete(Head(stack))
  /\ stack' = Tail(stack)
  /\ UNCHANGED lists
  /\ Update
  /\ UNCHANGED counts

Next == \/ \E h \in Handlers : On(h) \/ Once(h) \/ Off(h)
        \/ RemoveAllListeners
        \/ Emit \/ CallOnce \/ CallAlways \/ HandlerReturns \/ HandlerThrows \/ EmitReturns

Spec == Init /\ [][Next]_vars
-----------------------------------------------------------------------------
TypeOK ==
  /\ always \in Seq(Handlers) /\ IsInjective(always)
  /\ once \in Seq(Handlers) /\ IsInjective(once)
  /\ {had, stale} \subseteq BOOLEAN
  /\ stack \in Seq(Emission)
  /\ emits \in 0..MaxEmits /\ uses \in 0..MaxUses
  /\ {asked, served} \subseteq [Handlers -> Nat]

(* However handlers emit, register themselves again or throw, a handler is *)
(* called at most once for each time that once() took it.                  *)
OnceIsOnce == \A h \in Handlers : served[h] <= asked[h]

(* An emission during which no registered handler is taken off calls every *)
(* persistent handler exactly once, also one that was added meanwhile, and *)
(* also when all were removed meanwhile.                                   *)
UndisturbedIsExact ==
  \A e \in ToSet(stack) : e.gone = {} =>
    /\ \A h \in Handlers : e.called[h] <= 1
    /\ Complete(e) => \A h \in e.began : e.called[h] = 1

(* The producer knows whether there are subscriptions, unless the last     *)
(* thing that happened was an off() or an exception of a handler.          *)
Announced == stack = <<>> /\ ~stale => had = (always # <<>> \/ once # <<>>)

(* As the README has it, persistent handlers are called every time the     *)
(* event is received.                                                      *)
CalledEveryTime ==
  \A e \in ToSet(stack) : Complete(e) => \A h \in e.began \ e.gone : e.called[h] > 0
=============================================================================
