---------------------------- MODULE EventDelivery ----------------------------
(***************************************************************************)
(* The delivery of one event by the event bus, by the dispatchers of the   *)
(* plugins (EventDispatcher, EnhancedEventDispatcher) and by the one of    *)
(* the domain events, which hands the event to the bus when its handlers   *)
(* are through.                                                            *)
(*                                                                         *)
(* The bus calls whom it found at the beginning.  The dispatchers walk     *)
(* through the list itself: adding a listener changes it in place, and a   *)
(* sort by another thread lets it look empty meanwhile; removing one makes *)
(* a new list and leaves the walk with the old one.  Deliveries meet only  *)
(* in the lists: one is looked at (bound), and the changes come from its   *)
(* callbacks or from other threads.                                        *)
(***************************************************************************)
EXTENDS Integers, SequencesExt, Scenes

CONSTANTS
    Callbacks,
    Urgent,       \* those registered with the higher of two priorities
    MaxListeners  \* bound on the length of a list

ASSUME EventsAssumption == MaxListeners \in Nat

VARIABLES
    subscribers,  \* of the bus: of the event's name
    everyone,     \* of the bus: of all events
    listeners,    \* of a dispatcher, in the order of the list
    sorting,      \* the callback whose addition is being sorted in, or None
    delivery

eventVars == <<subscribers, everyone, listeners, sorting, delivery>>

-----------------------------------------------------------------------------
NoDelivery == [pc |-> "none"]

EventsInit ==
    /\ subscribers = <<>> /\ everyone = <<>> /\ listeners = <<>>
    /\ sorting = None /\ delivery = NoDelivery

OnBus == scene \in {"bus", "domain"} /\ UNCHANGED <<scene, listeners, sorting>>
OnListeners == On("listeners") /\ UNCHANGED <<subscribers, everyone>>
OnDomain == On("domain") /\ UNCHANGED <<subscribers, everyone, sorting>>

OnDelivery ==
    /\ scene \in {"bus", "listeners", "domain"}
    /\ UNCHANGED <<scene, subscribers, everyone, listeners, sorting>>

Walking == delivery.pc = "calling" /\ delivery.live

-----------------------------------------------------------------------------
(***************************************************************************)
(* Registration.  A plugin that is enabled while the workers serve         *)
(* subscribes; the bus takes a callback once.                              *)
(***************************************************************************)
Subscribe(c) ==
    /\ OnBus /\ ~Contains(subscribers, c)
    /\ subscribers' = Append(subscribers, c)
    /\ UNCHANGED <<everyone, delivery>>

SubscribeAll(c) ==
    /\ OnBus /\ ~Contains(everyone, c)
    /\ everyone' = Append(everyone, c)
    /\ UNCHANGED <<subscribers, delivery>>

Unsubscribe(c) ==
    /\ OnBus
    /\ \E i \in DOMAIN subscribers :
          subscribers[i] = c /\ subscribers' = RemoveAt(subscribers, i)
    /\ UNCHANGED <<everyone, delivery>>

\* A stable sort: the new one comes after those that are as urgent.
Place(c) ==
    CHOOSE n \in 1 .. Len(listeners) + 1 :
       \A i \in DOMAIN listeners : i < n <=> listeners[i] \in Urgent \/ c \notin Urgent
Inserted(c) == InsertAt(listeners, Place(c), c)

\* SelectSeq, which the provers do not expand.
AllBut(s, c) ==
    LET kept[i \in 0 .. Len(s)] ==
            IF i = 0 THEN <<>>
            ELSE IF s[i] = c THEN kept[i - 1] ELSE Append(kept[i - 1], s[i]) IN
    kept[Len(s)]

\* By a callback of the delivery, or while nobody walks.
AddListener(c) ==
    /\ OnListeners /\ sorting = None /\ Len(listeners) < MaxListeners
    /\ listeners' = Inserted(c)
    /\ delivery' = IF Walking THEN [delivery EXCEPT !.moved = TRUE] ELSE delivery
    /\ UNCHANGED sorting

\* By another thread.
BeginSort(c) ==
    /\ OnListeners /\ sorting = None /\ Len(listeners) < MaxListeners /\ Walking
    /\ sorting' = c
    /\ delivery' = [delivery EXCEPT !.moved = TRUE]
    /\ UNCHANGED listeners

EndSort ==
    /\ OnListeners /\ sorting # None
    /\ listeners' = Inserted(sorting) /\ sorting' = None
    /\ UNCHANGED delivery

RemoveListener(c) ==
    /\ OnListeners /\ sorting = None /\ Contains(listeners, c)
    /\ listeners' = AllBut(listeners, c)
    /\ delivery' = IF Walking THEN [delivery EXCEPT !.live = FALSE, !.list = listeners]
                   ELSE delivery
    /\ UNCHANGED sorting

RegisterDomainHandler(c) ==
    /\ OnDomain /\ Len(listeners) < MaxListeners
    /\ listeners' = Append(listeners, c)
    /\ UNCHANGED delivery

-----------------------------------------------------------------------------
(***************************************************************************)
(* Delivery.                                                               *)
(***************************************************************************)
Walk(list, live) ==
    [pc |-> "calling", live |-> live, list |-> IF live THEN <<>> ELSE list, next |-> 1,
     first |-> list, called |-> <<>>, moved |-> FALSE, cut |-> FALSE,
     stopped |-> FALSE]

Publish ==
    /\ OnBus /\ scene = "bus" /\ delivery.pc # "calling"
    /\ delivery' = Walk(subscribers \o everyone, FALSE)
    /\ UNCHANGED <<subscribers, everyone>>

Dispatch ==
    /\ OnListeners /\ delivery.pc # "calling" /\ sorting = None
    /\ delivery' = Walk(listeners, TRUE)
    /\ UNCHANGED <<listeners, sorting>>

Emit ==
    /\ OnDomain /\ delivery.pc \in {"none", "done"}
    /\ delivery' = Walk(listeners, TRUE)
    /\ UNCHANGED listeners

\* What the walk finds now.
List == IF ~delivery.live THEN delivery.list ELSE IF sorting = None THEN listeners ELSE <<>>

Calling ==
    /\ OnDelivery
    /\ delivery.pc = "calling" /\ ~delivery.stopped /\ delivery.next <= Len(List)

Called == [delivery EXCEPT !.called = Append(@, List[delivery.next]), !.next = @ + 1]

\* Mutant: a callback that raises ends the delivery.
CallUntilFailure ==
    /\ Calling
    /\ \E stop, raises \in BOOLEAN :
          /\ stop => scene = "listeners"
          /\ delivery' = [Called EXCEPT !.stopped = stop, !.pc = IF raises THEN "done" ELSE @]

\* It handles the event or does not, well or badly, or raises, all of which
\* only shows in the answer; a listener may stop the event.
CallNext ==
    /\ Calling
    /\ \E stop \in BOOLEAN :
          /\ stop => scene = "listeners"
          /\ delivery' = [Called EXCEPT !.stopped = stop]

\* The list is at its end, or looks as if it were.
EndWalk ==
    /\ OnDelivery
    /\ delivery.pc = "calling" /\ (delivery.stopped \/ delivery.next > Len(List))
    /\ delivery' = [delivery EXCEPT
                      !.pc = IF scene = "domain" /\ delivery.live THEN "handled" ELSE "done",
                      !.cut = sorting # None]

\* The bus is told whatever the handlers made of the event.
Forward ==
    /\ OnDomain /\ delivery.pc = "handled"
    /\ delivery' = Walk(subscribers \o everyone, FALSE)
    /\ UNCHANGED listeners

EventsNext ==
    /\ \/ Publish \/ Dispatch \/ Emit \/ Forward
       \/ CallNext \/ EndWalk \/ EndSort
       \/ \E c \in Callbacks : \/ Subscribe(c) \/ SubscribeAll(c) \/ Unsubscribe(c)
                               \/ AddListener(c) \/ BeginSort(c) \/ RemoveListener(c)
                               \/ RegisterDomainHandler(c)
    /\ UNCHANGED job

-----------------------------------------------------------------------------
EventsTypeOK ==
    /\ IsInjective(subscribers) /\ IsInjective(everyone)
    /\ Len(listeners) <= MaxListeners
    /\ \A i, j \in DOMAIN listeners :
          scene = "listeners" /\ i < j /\ listeners[j] \in Urgent => listeners[i] \in Urgent

\* A delivery that is not stopped has called everybody who was registered when
\* it began, in that order and as often as registered, whoever raised, was
\* added or removed meanwhile; only a listener added to a dispatcher meanwhile
\* may let one be called twice, and only one added by another thread at the
\* very end may leave the rest out.  (A handler registered meanwhile comes
\* last.)
EveryListenerHears ==
    delivery.pc \in {"handled", "done"} /\ ~delivery.stopped =>
        /\ ~delivery.moved => IsPrefix(delivery.first, delivery.called)
        /\ ~delivery.moved /\ scene # "domain" => delivery.called = delivery.first
        /\ ~delivery.cut => ToSet(delivery.first) \subseteq ToSet(delivery.called)
================================================================================
