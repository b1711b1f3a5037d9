------------------------------ MODULE ChatPush ------------------------------
(***************************************************************************)
(* Frames pushed to a user from elsewhere: staff replies, handoff updates. *)
(*                                                                         *)
(* Any worker publishes them to one Redis channel; the listener of each    *)
(* worker forwards them, one after the other, to the tabs of that user it  *)
(* holds.  The model is one worker and one user: another worker has other  *)
(* tabs, another user other frames.  ConnectionManager keeps the tabs in a *)
(* set that the forwarding loop iterates over while it awaits each send,   *)
(* and that connect and disconnect change meanwhile.                       *)
(***************************************************************************)
EXTENDS Naturals, Sequences, FiniteSets

CONSTANTS
    Tabs,       \* WebSocket connections; each is opened once
    MaxFrames   \* bound on the frames published

ASSUME ChatPushAssumption == IsFiniteSet(Tabs) /\ MaxFrames \in Nat

VARIABLES
    tab,        \* tab[t]: "new", "open", "broken" (a send raises) or "gone"
    listener,   \* "off", "on", or "dead": it ended on an error
    channel,    \* frames Redis has delivered to the listener
    walks,      \* forwarding loops in progress
    received,   \* received[t]: the frames sent to t, in order
    \* history
    published,  \* frames published so far
    audience,   \* audience[f]: tabs that were open when f was taken from the channel
    disturbed,  \* frames while whose loop ran a tab came or went
    forwarded   \* frames whose loop came to its end

pushVars == <<tab, listener, channel, walks, received, published, audience, disturbed, forwarded>>

Frame == 1..MaxFrames

\* _user_connections of the user: a broken tab stays until its handler notices.
Connected == {t \in Tabs : tab[t] \in {"open", "broken"}}

PushInit ==
    /\ tab = [t \in Tabs |-> "new"]
    /\ listener = "off"
    /\ channel = << >>
    /\ walks = {}
    /\ received = [t \in Tabs |-> << >>]
    /\ published = 0
    /\ audience = [f \in Frame |-> {}]
    /\ disturbed = {}
    /\ forwarded = {}

-----------------------------------------------------------------------------
(* ConnectionManager *)

Disturb == disturbed' = disturbed \cup {w.frame : w \in walks}

Connect(t) ==
    /\ tab[t] = "new"
    /\ tab' = [tab EXCEPT ![t] = "open"]
    /\ Disturb
    /\ UNCHANGED <<listener, channel, walks, received, published, audience, forwarded>>

\* The browser closes the tab, or the network does.
Lose(t) ==
    /\ tab[t] = "open"
    /\ tab' = [tab EXCEPT ![t] = "broken"]
    /\ UNCHANGED <<listener, channel, walks, received, published, audience, disturbed, forwarded>>

\* The handler of the connection notices and calls disconnect.
Disconnect(t) ==
    /\ tab[t] = "broken"
    /\ tab' = [tab EXCEPT ![t] = "gone"]
    /\ Disturb
    /\ UNCHANGED <<listener, channel, walks, received, published, audience, forwarded>>

-----------------------------------------------------------------------------
(* The channel *)

\* start_chat_push_subscriber, called when the application starts.
Start ==
    /\ listener = "off"
    /\ listener' = "on"
    /\ UNCHANGED <<tab, channel, walks, received, published, audience, disturbed, forwarded>>

\* publish_user_push: Redis delivers to who listens now, and an error is swallowed.
Publish(reached) ==
    /\ published < MaxFrames
    /\ published' = published + 1
    /\ channel' = IF reached /\ listener = "on" THEN Append(channel, published + 1)
                  ELSE channel
    /\ UNCHANGED <<tab, listener, walks, received, audience, disturbed, forwarded>>

\* An error of Redis ends _push_listener between two frames; nobody starts it again.
Die ==
    /\ listener = "on" /\ walks = {}
    /\ listener' = "dead"
    /\ channel' = << >>
    /\ UNCHANGED <<tab, walks, received, published, audience, disturbed, forwarded>>

\* Mutant: each frame is forwarded by a task of its own.
Awaits_Not == TRUE

\* The listener awaits _forward before it takes the next frame.
Awaits == walks = {}

Walk(f) == [frame |-> f, seen |-> {}, again |-> {}, size |-> Cardinality(Connected)]

\* _forward calls send_to_user, which starts to iterate over the set.
Take ==
    /\ listener = "on" /\ channel # << >> /\ Awaits
    /\ walks' = walks \cup {Walk(Head(channel))}
    /\ channel' = Tail(channel)
    /\ audience' = [audience EXCEPT ![Head(channel)] = {t \in Tabs : tab[t] = "open"}]
    /\ UNCHANGED <<tab, listener, received, published, disturbed, forwarded>>

-----------------------------------------------------------------------------
(* send_to_user *)

\* The iterator raises when the set has another size than when it began.
Resized(w) == Cardinality(Connected) # w.size

\* One tab came and one went: the iterator goes on in a table that may have been
\* rebuilt, where it may find a tab again or pass over one.
Swapped(w) == w.frame \in disturbed /\ ~Resized(w)

Send(w, t) ==
    /\ tab[t] = "open"
    /\ received' = [received EXCEPT ![t] = Append(@, w.frame)]
    /\ UNCHANGED <<tab, listener, channel, published, audience, disturbed, forwarded>>

\* The next element, and an await.
Visit(w, t) ==
    /\ ~Resized(w) /\ t \in Connected \ w.seen
    /\ Send(w, t)
    /\ walks' = (walks \ {w}) \cup {[w EXCEPT !.seen = @ \cup {t}]}

VisitAgain(w, t) ==
    /\ Swapped(w) /\ t \in (Connected \cap w.seen) \ w.again
    /\ Send(w, t)
    /\ walks' = (walks \ {w}) \cup {[w EXCEPT !.again = @ \cup {t}]}

\* The set has changed, or a send raises: _forward logs it, and the loop is over for
\* all tabs that were to come.
BreakOff(w) ==
    /\ Resized(w) \/ \E t \in Connected \ w.again :
                        tab[t] = "broken" /\ (t \in w.seen => Swapped(w))
    /\ walks' = walks \ {w}
    /\ UNCHANGED <<tab, listener, channel, received, published, audience, disturbed, forwarded>>

\* Mutant: the loop stops at the first tab.
Passed_First(w) == w.seen # {}

\* The iterator has passed every element.
Passed(w) == Connected \subseteq w.seen \/ Swapped(w)

Complete(w) ==
    /\ ~Resized(w) /\ Passed(w)
    /\ walks' = walks \ {w}
    /\ forwarded' = forwarded \cup {w.frame}
    /\ UNCHANGED <<tab, listener, channel, received, published, audience, disturbed>>

PushNext ==
    \/ \E t \in Tabs : Connect(t) \/ Lose(t) \/ Disconnect(t)
    \/ Start \/ Die \/ Take
    \/ \E reached \in BOOLEAN : Publish(reached)
    \/ \E w \in walks :
          \/ \E t \in Tabs : Visit(w, t) \/ VisitAgain(w, t)
          \/ BreakOff(w) \/ Complete(w)

PushSpec == PushInit /\ [][PushNext]_pushVars

-----------------------------------------------------------------------------
(* Properties *)

PushTypeOK ==
    /\ tab \in [Tabs -> {"new", "open", "broken", "gone"}]
    /\ listener \in {"off", "on", "dead"}
    /\ channel \in Seq(Frame)
    /\ walks \subseteq [frame : Frame, seen : SUBSET Tabs, again : SUBSET Tabs, size : Nat]
    /\ received \in [Tabs -> Seq(Frame)]
    /\ published \in 0..MaxFrames
    /\ audience \in [Frame -> SUBSET Tabs]
    /\ disturbed \subseteq Frame /\ forwarded \subseteq Frame

\* A tab gets the frames in the order of their publication, whatever tabs come and go
\* while a frame is forwarded, and one twice only if a tab took the place of another.
InOrder ==
    \A t \in Tabs : \A i, j \in DOMAIN received[t] :
        i < j => \/ received[t][i] < received[t][j]
                 \/ received[t][i] = received[t][j] /\ received[t][i] \in disturbed

\* A frame whose loop came to its end while no tab came or went has reached every tab
\* that was open when it began.  Only such frames keep what publish_user_push promises.
ReachesEveryTab ==
    \A f \in forwarded \ disturbed : \A t \in audience[f] :
        \E i \in DOMAIN received[t] : received[t][i] = f
=============================================================================
