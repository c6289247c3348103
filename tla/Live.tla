-------------------------------- MODULE Live --------------------------------
(***************************************************************************)
(* routes/live.py with the spoken half of offer.py: the owner talks,       *)
(* Gemini speaks, and between two turns JARVIS works out whether he was    *)
(* asked for work or has just agreed to it.                                *)
(*                                                                         *)
(* A call is a websocket with one Gemini session after another.  A turn n  *)
(* is remembered (rows, and a model that extracts facts) before anything   *)
(* is done about it; what is done then runs detached from the call:        *)
(*                                                                         *)
(*   judge (does he want work?) -> the offer stands                        *)
(*   agreed -> work                                                        *)
(*                                                                         *)
(* An offer bears the number of the turn it came from.  _STANDING is kept  *)
(* by id(websocket), an address that is used again once nothing refers to  *)
(* the websocket any more.                                                 *)
(***************************************************************************)
EXTENDS Integers, Sequences

CONSTANTS
    Call,           \* websockets, numbered as they are opened (bound)
    Key,            \* the values id() has for them
    MaxReconnects,  \* MAX_RECONNECTS
    MaxTurns,       \* turns spoken in all (bound)
    MaxEvents       \* sessions lost or refused (bound)

ASSUME LiveAssumption ==
    /\ Call \subseteq Nat /\ Key # {}
    /\ MaxReconnects \in Nat /\ MaxTurns \in Nat /\ MaxEvents \in Nat

Turns == 1..MaxTurns

VARIABLES
    call,           \* live_voice and _pump of each websocket
    standing,       \* _STANDING; 0 where there is no entry
    said,           \* the turns, in the order they were spoken
    hand,           \* _handle_turn of each turn
    events,
    \* history
    begun,          \* offers that were run, and the turn that agreed
    declined,       \* offers answered with a spoken no
    outlived,       \* offers put down after their call had ended
    swapped,        \* turns that had another offer put under them while they
                    \* were being remembered
    cut,            \* turns whose session ended before they were acted on
    barren          \* sessions in a row without a response

liveVars == <<call, standing, said, hand, events,
              begun, declined, outlived, swapped, cut, barren>>

Words == {"ask", "yes", "no"}
Silent == [pc |-> "none", session |-> 0, offer |-> 0]

LiveInit ==
    /\ call = [c \in Call |-> [pc |-> "none", key |-> CHOOSE k \in Key : TRUE,
                               page |-> "here", attempt |-> 0, session |-> 0,
                               carried |-> FALSE, turn |-> 0]]
    /\ standing = [k \in Key |-> 0]
    /\ said = <<>>
    /\ hand = [n \in Turns |-> Silent]
    /\ events = 0
    /\ begun = {} /\ declined = {} /\ outlived = {} /\ swapped = {} /\ cut = {}
    /\ barren = [c \in Call |-> 0]

-----------------------------------------------------------------------------
CallAt(c, pc) == call[c].pc = pc
KeyOf(n) == call[said[n].call].key
Event == events < MaxEvents /\ events' = events + 1
Busy(n) == hand[n].pc # "none"

\* The session a turn was spoken in still carries the conversation.
Alive(n) ==
    LET c == said[n].call IN CallAt(c, "pump") /\ call[c].session = hand[n].session

\* Nothing else refers to a websocket with this id.
Free(k) ==
    /\ \A c \in Call : call[c].pc \notin {"none", "closed"} => call[c].key # k
    /\ \A n \in DOMAIN said : Busy(n) => KeyOf(n) # k

History == <<begun, declined, outlived, swapped>>

(* The call *)

\* accept; _authorise, the API key and the emergency stop, read once before
\* the first session, may turn the owner away.
Dial(c) ==
    /\ CallAt(c, "none") /\ \A d \in Call : d < c => ~CallAt(d, "none")
    /\ \E k \in Key, pc \in {"connect", "closed"} :
          Free(k) /\ call' = [call EXCEPT ![c].pc = pc, ![c].key = k]
    /\ UNCHANGED <<standing, said, hand, events, History, cut, barren>>

\* finally: the standing offer goes with the conversation.
Close(c) ==
    /\ call' = [call EXCEPT ![c].pc = "closed", ![c].turn = 0]
    /\ standing' = [standing EXCEPT ![call[c].key] = 0]

\* What was being remembered is cancelled with the session.
Cut(c) == cut' = cut \cup ({call[c].turn} \ {0})

\* The first session, or the next one after the back-off; or a refusal,
\* which ends the call at once.
Connect(c) ==
    /\ CallAt(c, "connect")
    /\ \/ /\ call' = [call EXCEPT ![c].pc = "pump", ![c].carried = FALSE,
                                  ![c].session = @ + 1]
          /\ UNCHANGED <<standing, events>>
       \/ Close(c) /\ Event
    /\ UNCHANGED <<said, hand, History, cut, barren>>

\* A response that completes no turn: sound, or a piece of a transcript.
Hear(c) ==
    /\ CallAt(c, "pump") /\ ~call[c].carried
    /\ call' = [call EXCEPT ![c].carried = TRUE]
    /\ barren' = [barren EXCEPT ![c] = 0]
    /\ UNCHANGED <<standing, said, hand, events, History, cut>>

\* One turn: transcripts, audio both ways, turn_complete.
Speak(c, word) ==
    /\ CallAt(c, "pump") /\ call[c].page = "here" /\ call[c].turn = 0
    /\ Len(said) < MaxTurns
    /\ said' = Append(said, [call |-> c, word |-> word,
                             to |-> standing[call[c].key]])
    /\ call' = [call EXCEPT ![c].carried = TRUE, ![c].turn = Len(said) + 1]
    /\ barren' = [barren EXCEPT ![c] = 0]
    /\ UNCHANGED <<standing, hand, events, History, cut>>

\* Mutant: an opened session counts as a working one.
NextAttemptEager(c) == 1

\* The budget starts again after a session with any response.
NextAttempt(c) == IF call[c].carried THEN 1 ELSE call[c].attempt + 1

\* _pump returns while the websocket is open: reconnect, or give up.
PickUp(c, page) ==
    /\ IF NextAttempt(c) > MaxReconnects
       THEN Close(c)
       ELSE /\ call' = [call EXCEPT ![c].pc = "connect", ![c].page = page,
                                    ![c].turn = 0, ![c].attempt = NextAttempt(c)]
            /\ UNCHANGED standing
    /\ barren' = [barren EXCEPT ![c] = IF call[c].carried THEN 0 ELSE @ + 1]
    /\ Cut(c)

\* Gemini ends the session.
Drop(c) ==
    /\ CallAt(c, "pump") /\ Event
    /\ PickUp(c, call[c].page)
    /\ UNCHANGED <<said, hand, History>>

\* The page: stopLive sends "end" and closes; a suspended tab only closes.
Leave(c, page) ==
    /\ call[c].pc \in {"connect", "pump"} /\ call[c].page = "here"
    /\ page \in {"ended", "gone"}
    /\ call' = [call EXCEPT ![c].page = page]
    /\ UNCHANGED <<standing, said, hand, events, History, cut, barren>>

\* browser_to_gemini reads "end" and returns: no exception, so the session
\* is taken for one that Gemini ended.
ReadEnd(c) ==
    /\ CallAt(c, "pump") /\ call[c].page = "ended"
    /\ PickUp(c, "gone")
    /\ UNCHANGED <<said, hand, events, History>>

\* WebSocketDisconnect.
HangUp(c) ==
    /\ CallAt(c, "pump") /\ call[c].page = "gone"
    /\ Close(c) /\ Cut(c)
    /\ UNCHANGED <<said, hand, events, History, barren>>

-----------------------------------------------------------------------------
(* _handle_turn *)

Set(n, pc, offer) ==
    hand' = [hand EXCEPT ![n] = [pc |-> pc, offer |-> offer,
                                 session |-> call[said[n].call].session]]

\* Mutant: a spoken no is shown on the page and leaves the offer standing.
NoStands(n) ==
    LET k == KeyOf(n) o == standing[k] IN
    CASE o = 0 /\ said[n].word = "ask" ->
            Set(n, "judge", 0) /\ UNCHANGED <<standing, declined>>
      [] o # 0 /\ said[n].word = "yes" ->
            /\ Set(n, "agreed", o) /\ standing' = [standing EXCEPT ![k] = 0]
            /\ UNCHANGED declined
      [] o # 0 /\ said[n].word = "no" ->
            /\ declined' = declined \cup {o}
            /\ UNCHANGED <<standing, hand>>
      [] OTHER -> UNCHANGED <<standing, hand, declined>>

\* An answer to what stands, or perhaps a request; anything else leaves the
\* offer standing.  Words that open a page come to nothing here.
Understand(n) ==
    LET k == KeyOf(n) o == standing[k] IN
    CASE o = 0 /\ said[n].word = "ask" ->
            Set(n, "judge", 0) /\ UNCHANGED <<standing, declined>>
      [] o # 0 /\ said[n].word = "yes" ->
            /\ Set(n, "agreed", o) /\ standing' = [standing EXCEPT ![k] = 0]
            /\ UNCHANGED declined
      [] o # 0 /\ said[n].word = "no" ->
            /\ standing' = [standing EXCEPT ![k] = 0]
            /\ declined' = declined \cup {o}
            /\ UNCHANGED hand
      [] OTHER -> UNCHANGED <<standing, hand, declined>>

\* _remember has returned and the turn is handed over; up to its first
\* await it runs undisturbed.
Remembered(c) ==
    /\ CallAt(c, "pump") /\ call[c].turn # 0
    /\ Understand(call[c].turn)
    /\ call' = [call EXCEPT ![c].turn = 0]
    /\ UNCHANGED <<said, events, begun, outlived, swapped, cut, barren>>

\* The turns that are being remembered in the conversation turn n was spoken
\* in.
Pending(n) == {call[c].turn : c \in {d \in Call : call[d].key = KeyOf(n)}} \ {0}

\* Mutant: a turn found to ask for nothing withdraws what stands.
JudgeClears(n) ==
    /\ hand[n].pc = "judge"
    /\ hand' = [hand EXCEPT ![n] = Silent]
    /\ \E offer \in {0, n} :
          /\ standing' = [standing EXCEPT ![KeyOf(n)] = offer]
          /\ swapped' = IF offer = n THEN swapped \cup Pending(n) ELSE swapped
          /\ outlived' = IF offer = n /\ CallAt(said[n].call, "closed")
                         THEN outlived \cup {n} ELSE outlived
    /\ UNCHANGED <<call, said, events, begun, declined, cut, barren>>

\* from_speech and build: no work wanted, none possible, a bad answer - or
\* an offer, which stands whatever stood before and whoever still listens.
Judge(n) ==
    /\ hand[n].pc = "judge"
    /\ hand' = [hand EXCEPT ![n] = Silent]
    /\ \/ UNCHANGED <<standing, outlived, swapped>>
       \/ /\ standing' = [standing EXCEPT ![KeyOf(n)] = n]
          /\ swapped' = swapped \cup Pending(n)
          /\ outlived' = IF CallAt(said[n].call, "closed") THEN outlived \cup {n}
                         ELSE outlived
    /\ UNCHANGED <<call, said, events, begun, declined, cut, barren>>

\* _act: it says so first, in the session the turn was spoken in; without
\* that session nothing is run.
Begin(n) ==
    /\ hand[n].pc = "agreed"
    /\ IF Alive(n)
       THEN /\ begun' = begun \cup {[offer |-> hand[n].offer, turn |-> n]}
            /\ hand' = [hand EXCEPT ![n].pc = "work"]
            /\ UNCHANGED cut
       ELSE /\ cut' = cut \cup {n} /\ hand' = [hand EXCEPT ![n] = Silent]
            /\ UNCHANGED begun
    /\ UNCHANGED <<call, standing, said, events, declined,
                   outlived, swapped, barren>>

\* orchestrator.run or director.produce, however it ends; the outcome is put
\* into the ear of that same session, or of nobody.
CarryOut(n) ==
    /\ hand[n].pc = "work"
    /\ hand' = [hand EXCEPT ![n] = Silent]
    /\ UNCHANGED <<call, standing, said, events, History, cut, barren>>

-----------------------------------------------------------------------------
Coroutine(c) ==
    Connect(c) \/ Remembered(c) \/ ReadEnd(c) \/ HangUp(c)
Handler(n) == Judge(n) \/ Begin(n) \/ CarryOut(n)

LiveNext ==
    \/ \E c \in Call :
          \/ Dial(c) \/ Coroutine(c) \/ Drop(c) \/ Hear(c)
          \/ \E word \in Words : Speak(c, word)
          \/ \E page \in {"ended", "gone"} : Leave(c, page)
    \/ \E n \in Turns : Handler(n)

LiveSpec == LiveInit /\ [][LiveNext]_liveVars

\* The event loop runs what can run on.
FairSpec ==
    /\ LiveSpec
    /\ \A c \in Call : WF_liveVars(Coroutine(c))
    /\ \A n \in Turns : WF_liveVars(Handler(n))

-----------------------------------------------------------------------------
\* Work begun by voice was agreed to: by one spoken yes, once, to the offer
\* that stood when it was spoken, in the conversation that offered it, and
\* never after a spoken no - but for two gaps.  A yes is weighed only when
\* its turn has been remembered, against what stands by then: an offer that
\* came in meanwhile, over the one he heard or where there was none, is what
\* is run.  And an offer put down after its call had ended waits for whoever
\* gets the same id.
AgreedOnce ==
    \A b \in begun :
        /\ said[b.turn].word = "yes"
        /\ b.turn \notin swapped => b.offer = said[b.turn].to
        /\ b.offer \notin outlived => said[b.turn].call = said[b.offer].call
        /\ b.offer \notin declined
        /\ \A x \in begun : x.offer = b.offer => x = b

\* A service that does not respond is not asked for ever: at most
\* MAX_RECONNECTS sessions without a response follow one without a response.
\* (One response is enough, even if the session breaks in the middle of it.)
ReconnectsBounded == \A c \in Call : barren[c] <= MaxReconnects + 1

\* A yes spoken while an offer stands starts the work that is on offer once
\* the exchange is remembered, whatever else was being judged meanwhile,
\* unless the session it was spoken in ends first.
YesIsTakenUp ==
    \A n \in Turns :
        (n \in DOMAIN said /\ said[n].word = "yes" /\ said[n].to # 0)
          ~> \/ \E b \in begun : b.turn = n
             \/ n \in cut
=============================================================================
