------------------------- MODULE ConversationProofs -------------------------
(***************************************************************************)
(* What TLAPS proves of a conversation with JARVIS: of the spoken one, for *)
(* any number of calls, turns and values of id(), and of what is           *)
(* remembered of it, for any exchanges, things that can be said, workflows *)
(* and taps of the owner.                                                  *)
(*                                                                         *)
(* Live.  An offer is the number of the turn it came from, and that turn   *)
(* is judged once.  From then on the offer is in one place at a time: it   *)
(* stands under the id of its conversation, or one turn has agreed to it,  *)
(* or it was declined.  Two open websockets never have the same id, and    *)
(* closing one takes what stands there away; only an offer that is put     *)
(* down after its call has ended can therefore be found by another call.   *)
(*                                                                         *)
(* Memory.  An exchange is one star of references: its reply and its facts *)
(* point at the owner's message, and nothing points into another exchange. *)
(* As long as the message is there the star is whole (LinksSound), so that *)
(* tapping the message reaches all of it; what is learned later is the     *)
(* only thing it can miss.                                                 *)
(***************************************************************************)
EXTENDS Live, Memory, SequenceTheorems, TLAPS

-----------------------------------------------------------------------------
(* The spoken conversation: types *)

CallRecord == [pc : {"none", "connect", "pump", "closed"}, key : Key,
               page : {"here", "ended", "gone"}, attempt : Nat, session : Nat,
               carried : BOOLEAN, turn : Nat]
Turn == [call : Call, word : Words, to : Nat]
Hand == [pc : {"none", "judge", "agreed", "work"}, offer : Nat, session : Nat]

LiveTypeOK ==
    /\ call \in [Call -> CallRecord]
    /\ standing \in [Key -> Nat]
    /\ said \in Seq(Turn) /\ Len(said) <= MaxTurns
    /\ hand \in [Turns -> Hand]
    /\ events \in Nat
    /\ begun \subseteq [offer : Nat, turn : Nat]
    /\ declined \subseteq Nat /\ outlived \subseteq Nat
    /\ barren \in [Call -> Nat]

-----------------------------------------------------------------------------
(* The spoken conversation: the inductive invariant *)

\* The websocket is there.
Open(c) == call[c].pc \in {"connect", "pump"}
Agreed(n) == hand[n].pc \in {"agreed", "work"}

\* A turn that was remembered and judged, if there was anything to judge.
Judged(n) ==
    /\ n \in 1..Len(said)
    /\ hand[n].pc # "judge"
    /\ \A c \in Call : call[c].turn # n

\* Work has been begun on an offer.
Begun(o) == \E b \in begun : b.offer = o

\* Open websockets have ids of their own.
KeysApart ==
    \A c, d \in Call :
        Open(c) /\ Open(d) /\ call[c].key = call[d].key => c = d

\* What is being remembered was spoken in that call, and is not handled yet.
TurnsSound ==
    /\ \A n \in 1..Len(said) : ~CallAt(said[n].call, "none")
    /\ \A c \in Call : LET n == call[c].turn IN n # 0 =>
          CallAt(c, "pump") /\ n \in 1..Len(said) /\ said[n].call = c /\ ~Busy(n)

\* An offer was made by a turn in the same conversation, but for the exception.
SameCall(n, o) == o \notin outlived => said[n].call = said[o].call

\* What a turn is handled for: a request, or a yes to an offer of its own.
HandsSound ==
    /\ \A n \in Turns : Busy(n) => n \in 1..Len(said)
    /\ \A n \in Turns : Agreed(n) =>
          LET o == hand[n].offer IN
          /\ said[n].word = "yes" /\ SameCall(n, o)
          /\ Judged(o) /\ o \notin declined
    /\ \A n \in Turns : hand[n].pc = "agreed" => ~Begun(hand[n].offer)
    /\ \A n, m \in Turns :
          Agreed(n) /\ Agreed(m) /\ hand[n].offer = hand[m].offer => n = m

\* What stands is an offer nobody has answered, under the id of the call that
\* made it; and that call is open, but for the exception.
StandsWell(k, o) ==
    /\ Judged(o) /\ KeyOf(o) = k
    /\ o \notin declined /\ ~Begun(o)
    /\ \A n \in Turns : Agreed(n) => hand[n].offer # o
    /\ o \notin outlived => Open(said[o].call)

StandingSound ==
    \A k \in Key : standing[k] # 0 => StandsWell(k, standing[k])

\* What has been done with offers.
PastSound ==
    /\ \A o \in declined : Judged(o)
    /\ \A b \in begun :
          /\ b.turn \in 1..Len(said) /\ said[b.turn].word = "yes"
          /\ Judged(b.offer) /\ SameCall(b.turn, b.offer)
          /\ b.offer \notin declined
          /\ \A x \in begun : x.offer = b.offer => x = b

\* The budget of reconnects is spent at least as fast as sessions fail.
BudgetSound ==
    \A c \in Call :
        /\ barren[c] <= MaxReconnects + 1
        /\ ~CallAt(c, "closed") =>
              barren[c] <= call[c].attempt /\ call[c].attempt <= MaxReconnects

LiveInv ==
    /\ LiveTypeOK /\ KeysApart /\ TurnsSound /\ HandsSound /\ StandingSound
    /\ PastSound /\ BudgetSound

\* What stood when a turn was spoken is what it finds when it has been
\* remembered, what it agrees to and what is run for it, unless another offer
\* came in meanwhile.
OfferSound ==
    /\ \A c \in Call : LET n == call[c].turn IN n # 0 =>
          n \in swapped \/ said[n].to = standing[call[c].key]
    /\ \A n \in Turns : Agreed(n) =>
          n \in swapped \/ hand[n].offer = said[n].to
    /\ \A b \in begun : b.turn \in swapped \/ b.offer = said[b.turn].to

-----------------------------------------------------------------------------
(* What a step makes of a call *)

\* A call that ends takes along what stands under its id.
Ends(c) ==
    /\ call'[c].pc = "closed" /\ call'[c].key = call[c].key
    /\ call'[c].turn = 0
    /\ \A d \in Call \ {c} : call'[d] = call[d]
    /\ standing'[call[c].key] = 0
    /\ \A k \in Key \ {call[c].key} : standing'[k] = standing[k]

\* A call that goes on, with the turn it remembers or without it.
GoesOn(c) ==
    /\ Open(c) /\ Open(c)' /\ call'[c].key = call[c].key
    /\ \/ call'[c].turn = 0
       \/ call'[c].turn = call[c].turn /\ call'[c].pc = call[c].pc
    /\ \A d \in Call \ {c} : call'[d] = call[d]
    /\ standing' = standing

LEMMA CloseType ==
    ASSUME LiveTypeOK, NEW c \in Call, Close(c)
    PROVE  /\ call' \in [Call -> CallRecord] /\ standing' \in [Key -> Nat]
           /\ Ends(c)
<1> DEFINE got == [call[c] EXCEPT !.pc = "closed", !.turn = 0]
<1>1. got \in CallRecord /\ got.pc = "closed" /\ got.key = call[c].key /\ got.turn = 0
  BY DEF LiveTypeOK, CallRecord
<1>2. call' = [call EXCEPT ![c] = got]
  BY DEF Close
<1>3. standing' = [standing EXCEPT ![call[c].key] = 0] /\ call[c].key \in Key
  BY DEF Close, LiveTypeOK, CallRecord
<1> HIDE DEF got
<1> QED
  BY <1>1, <1>2, <1>3 DEF LiveTypeOK, Ends

LEMMA PickUpType ==
    ASSUME LiveTypeOK, NEW c \in Call, Open(c), NEW page \in {"here", "ended", "gone"},
           PickUp(c, page)
    PROVE  /\ call' \in [Call -> CallRecord] /\ standing' \in [Key -> Nat]
           /\ barren' \in [Call -> Nat]
           /\ \A d \in Call \ {c} : barren'[d] = barren[d]
           /\ barren'[c] \in {0, barren[c] + 1}
           /\ barren'[c] = barren[c] + 1 /\ barren'[c] # 0 =>
                 NextAttempt(c) = call[c].attempt + 1
           /\ \/ Ends(c) /\ call'[c].attempt = call[c].attempt
              \/ /\ GoesOn(c) /\ call'[c].attempt = NextAttempt(c)
                 /\ NextAttempt(c) <= MaxReconnects
<1>1. NextAttempt(c) \in Nat
  BY DEF NextAttempt, LiveTypeOK, CallRecord
<1>2. barren' = [barren EXCEPT ![c] = IF call[c].carried THEN 0 ELSE barren[c] + 1]
  BY DEF PickUp
<1>3. /\ barren' \in [Call -> Nat] /\ \A d \in Call \ {c} : barren'[d] = barren[d]
      /\ barren'[c] = IF call[c].carried THEN 0 ELSE barren[c] + 1
  BY <1>2 DEF LiveTypeOK
<1>4. barren'[c] = barren[c] + 1 /\ barren'[c] # 0 =>
         NextAttempt(c) = call[c].attempt + 1
  BY <1>3 DEF NextAttempt, LiveTypeOK
<1>5. CASE NextAttempt(c) > MaxReconnects
  <2>1. Close(c)
    BY <1>5, Zenon DEF PickUp
  <2>2. call'[c].attempt = call[c].attempt
    BY <2>1 DEF Close, LiveTypeOK
  <2> QED
    BY <1>3, <1>4, <2>1, <2>2, CloseType
<1>6. CASE ~(NextAttempt(c) > MaxReconnects)
  <2> DEFINE got == [call[c] EXCEPT !.pc = "connect", !.page = page, !.turn = 0,
                                    !.attempt = NextAttempt(c)]
  <2>1. /\ got \in CallRecord /\ got.pc = "connect" /\ got.key = call[c].key
        /\ got.turn = 0 /\ got.attempt = NextAttempt(c)
    BY <1>1 DEF LiveTypeOK, CallRecord
  <2>2. call' = [call EXCEPT ![c] = got] /\ standing' = standing
    BY <1>6, Zenon DEF PickUp
  <2> HIDE DEF got
  <2>3. GoesOn(c) /\ call' \in [Call -> CallRecord]
        /\ call'[c].attempt = NextAttempt(c)
    BY <2>1, <2>2 DEF LiveTypeOK, GoesOn, Open
  <2> QED
    BY <1>1, <1>3, <1>4, <1>6, <2>2, <2>3, LiveAssumption DEF LiveTypeOK
<1> QED
  BY <1>5, <1>6

LEMMA ConnectType ==
    ASSUME LiveTypeOK, TurnsSound, NEW c \in Call, Connect(c)
    PROVE  /\ call' \in [Call -> CallRecord] /\ standing' \in [Key -> Nat]
           /\ call'[c].attempt = call[c].attempt /\ Open(c)
           /\ Ends(c) \/ GoesOn(c)
<1>1. CASE Close(c)
  <2>1. call'[c].attempt = call[c].attempt
    BY <1>1 DEF Close, LiveTypeOK
  <2> QED
    BY <1>1, <2>1, CloseType DEF Connect, CallAt, Open
<1>2. CASE call' = [call EXCEPT ![c].pc = "pump", ![c].carried = FALSE,
                                ![c].session = @ + 1] /\ standing' = standing
  <2> DEFINE got == [call[c] EXCEPT !.pc = "pump", !.carried = FALSE,
                                    !.session = call[c].session + 1]
  <2>1. /\ got.pc = "pump" /\ got.key = call[c].key
        /\ got.turn = call[c].turn /\ got.attempt = call[c].attempt
    BY DEF LiveTypeOK, CallRecord
  <2>2. got \in CallRecord
    <3>1. call[c].session + 1 \in Nat
      BY DEF LiveTypeOK, CallRecord
    <3>2. \A carried \in BOOLEAN, session \in Nat :
             [call[c] EXCEPT !.pc = "pump", !.carried = carried,
                             !.session = session] \in CallRecord
      BY DEF LiveTypeOK, CallRecord
    <3> QED
      BY <3>1, <3>2, Zenon
  <2>3. call' = [call EXCEPT ![c] = got]
    BY <1>2
  <2>4. call[c].pc = "connect" /\ call[c].turn = 0
    BY DEF Connect, CallAt, TurnsSound
  <2> HIDE DEF got
  <2> QED
    BY <1>2, <2>1, <2>2, <2>3, <2>4 DEF LiveTypeOK, GoesOn, Open
<1> QED
  BY <1>1, <1>2 DEF Connect

LEMMA HearType ==
    ASSUME LiveTypeOK, NEW c \in Call, Hear(c)
    PROVE  /\ call' \in [Call -> CallRecord] /\ barren' \in [Call -> Nat]
           /\ call'[c].attempt = call[c].attempt /\ GoesOn(c)
           /\ barren'[c] = 0 /\ \A d \in Call \ {c} : barren'[d] = barren[d]
<1> DEFINE got == [call[c] EXCEPT !.carried = TRUE]
<1>1. /\ got \in CallRecord /\ got.pc = call[c].pc /\ got.key = call[c].key
      /\ got.turn = call[c].turn /\ got.attempt = call[c].attempt
  BY DEF LiveTypeOK, CallRecord
<1>2. /\ call' = [call EXCEPT ![c] = got] /\ standing' = standing /\ Open(c)
      /\ barren' = [barren EXCEPT ![c] = 0]
  BY DEF Hear, Open, CallAt
<1> HIDE DEF got
<1> QED
  BY <1>1, <1>2 DEF LiveTypeOK, GoesOn, Open

LEMMA LeaveType ==
    ASSUME LiveTypeOK, NEW c \in Call, NEW page \in {"ended", "gone"}, Leave(c, page)
    PROVE  /\ call' \in [Call -> CallRecord]
           /\ call'[c].attempt = call[c].attempt /\ GoesOn(c)
<1> DEFINE got == [call[c] EXCEPT !.page = page]
<1>1. /\ got \in CallRecord /\ got.pc = call[c].pc /\ got.key = call[c].key
      /\ got.turn = call[c].turn /\ got.attempt = call[c].attempt
  BY DEF LiveTypeOK, CallRecord
<1>2. call' = [call EXCEPT ![c] = got] /\ standing' = standing /\ Open(c)
  BY DEF Leave, Open
<1> HIDE DEF got
<1> QED
  BY <1>1, <1>2 DEF LiveTypeOK, GoesOn, Open

-----------------------------------------------------------------------------
(* The invariant is kept *)

LEMMA SaidType == LiveTypeOK => \A n \in 1..Len(said) : n \in Turns /\ said[n].call \in Call
<1> SUFFICES ASSUME LiveTypeOK, NEW n \in 1..Len(said)
             PROVE  n \in Turns /\ said[n].call \in Call
  OBVIOUS
<1>1. said[n] \in Turn
  BY DEF LiveTypeOK
<1> QED
  BY <1>1, LiveAssumption DEF LiveTypeOK, Turn, Turns

\* The turns and what is done about them are left alone.
TurnsAside == UNCHANGED <<said, hand, begun, declined, outlived>>

Sound == KeysApart /\ TurnsSound /\ HandsSound /\ StandingSound /\ PastSound

\* A call that ends, or goes on, leaves every offer where it belongs.
LEMMA EndsKept ==
    ASSUME LiveTypeOK, Sound, NEW c \in Call, Open(c), Ends(c), TurnsAside
    PROVE  Sound'
<1> USE DEF Sound, TurnsAside
<1>1. \A n : Judged(n) => Judged(n)'
  <2> SUFFICES ASSUME NEW n, Judged(n), NEW d \in Call, n \in 1..Len(said)
               PROVE  call'[d].turn # n
    BY DEF Judged
  <2>1. n # 0 /\ call[d].turn # n
    BY DEF Judged
  <2> QED
    BY <2>1 DEF Ends
<1>2. \A n \in 1..Len(said) : said[n].call \in Call
  BY SaidType
<1>3. KeysApart'
  BY DEF KeysApart, Ends, Open
<1>4. TurnsSound'
  BY <1>2 DEF TurnsSound, Ends, Open, CallAt, Busy
<1>5. HandsSound'
  BY <1>1 DEF HandsSound, Busy, Agreed, SameCall, Begun
<1>6. StandingSound'
  <2> SUFFICES ASSUME NEW k \in Key, NEW o, o = standing'[k], o # 0
               PROVE  StandsWell(k, o)'
    BY DEF StandingSound
  <2>1. k # call[c].key /\ standing'[k] = standing[k]
    BY DEF Ends
  <2>2. StandsWell(k, o)
    BY <2>1 DEF StandingSound
  <2>3. o \in 1..Len(said) /\ said[o].call \in Call
    BY <1>2, <2>2 DEF StandsWell, Judged
  <2> QED
    BY <1>1, <2>1, <2>2, <2>3
       DEF StandsWell, Begun, Agreed, Ends, Open, KeyOf
<1>7. PastSound'
  BY <1>1 DEF PastSound, SameCall
<1> QED
  BY <1>3, <1>4, <1>5, <1>6, <1>7

LEMMA GoesOnStep ==
    ASSUME LiveTypeOK, Sound, NEW c \in Call, GoesOn(c), TurnsAside
    PROVE  Sound'
<1> USE DEF Sound, TurnsAside
<1>1. \A n : Judged(n) => Judged(n)'
  <2> SUFFICES ASSUME NEW n, Judged(n), NEW d \in Call, n \in 1..Len(said)
               PROVE  call'[d].turn # n
    BY DEF Judged
  <2>1. n # 0 /\ call[d].turn # n
    BY DEF Judged
  <2> QED
    BY <2>1 DEF GoesOn
<1>2. \A n \in 1..Len(said) : said[n].call \in Call
  BY SaidType
<1>3. KeysApart'
  BY DEF KeysApart, GoesOn, Open
<1>4. TurnsSound'
  BY <1>2 DEF TurnsSound, GoesOn, Open, CallAt, Busy
<1>5. HandsSound'
  BY <1>1 DEF HandsSound, Busy, Agreed, SameCall, Begun
<1>6. StandingSound'
  <2> SUFFICES ASSUME NEW k \in Key, NEW o, o = standing'[k], o # 0
               PROVE  StandsWell(k, o)'
    BY DEF StandingSound
  <2>1. standing'[k] = standing[k]
    BY DEF GoesOn
  <2>2. StandsWell(k, o)
    BY <2>1 DEF StandingSound
  <2>3. o \in 1..Len(said) /\ said[o].call \in Call
    BY <1>2, <2>2 DEF StandsWell, Judged
  <2> QED
    BY <1>1, <2>1, <2>2, <2>3
       DEF StandsWell, Begun, Agreed, GoesOn, Open, KeyOf
<1>7. PastSound'
  BY <1>1 DEF PastSound, SameCall
<1> QED
  BY <1>3, <1>4, <1>5, <1>6, <1>7

\* A new call takes an id that nobody has.
LEMMA DialStep ==
    ASSUME LiveTypeOK, Sound, NEW c \in Call, Dial(c)
    PROVE  Sound' /\ LiveTypeOK'
<1> USE DEF Sound
<1>1. PICK k \in Key, pc \in {"connect", "closed"} :
           Free(k) /\ call' = [call EXCEPT ![c].pc = pc, ![c].key = k]
  BY DEF Dial
<1> DEFINE got == [call[c] EXCEPT !.pc = pc, !.key = k]
<1>2. /\ got \in CallRecord /\ got.pc = pc /\ got.key = k
      /\ got.turn = call[c].turn
  BY DEF LiveTypeOK, CallRecord
<1>3. call' = [call EXCEPT ![c] = got]
  BY <1>1
<1> HIDE DEF got
<1>4. /\ call' \in [Call -> CallRecord]
      /\ call'[c].pc = pc /\ call'[c].key = k /\ call'[c].turn = call[c].turn
      /\ \A d \in Call \ {c} : call'[d] = call[d]
  BY <1>2, <1>3 DEF LiveTypeOK
<1>5. call[c].pc = "none" /\ TurnsAside /\ UNCHANGED <<standing, events, barren>>
  BY DEF Dial, CallAt, TurnsAside, History
<1>6. LiveTypeOK'
  BY <1>4, <1>5 DEF LiveTypeOK, TurnsAside
<1>7. \A n \in 1..Len(said) : said[n].call \in Call \ {c}
  BY <1>5, SaidType DEF TurnsSound, CallAt
<1>8. \A n : Judged(n) => Judged(n)'
  BY <1>4, <1>5 DEF Judged, TurnsAside, LiveTypeOK
<1>9. KeysApart'
  BY <1>1, <1>4 DEF KeysApart, Open, Free
<1>10. TurnsSound'
  BY <1>4, <1>5, <1>7 DEF TurnsSound, CallAt, Busy, TurnsAside
<1>11. HandsSound'
  BY <1>5, <1>8 DEF HandsSound, Busy, Agreed, SameCall, Begun, TurnsAside
<1>12. StandingSound'
  <2> SUFFICES ASSUME NEW j \in Key, NEW o, o = standing'[j], o # 0
               PROVE  StandsWell(j, o)'
    BY DEF StandingSound
  <2>1. StandsWell(j, o)
    BY <1>5 DEF StandingSound
  <2>2. o \in 1..Len(said) /\ said[o].call \in Call \ {c}
    BY <1>7, <2>1 DEF StandsWell, Judged
  <2> QED
    BY <1>4, <1>5, <1>8, <2>1, <2>2
       DEF StandsWell, Begun, Agreed, Open, KeyOf, TurnsAside
<1>13. PastSound'
  BY <1>5, <1>8 DEF PastSound, SameCall, TurnsAside
<1> QED
  BY <1>6, <1>9, <1>10, <1>11, <1>12, <1>13

\* A turn that is spoken is new: nothing was made of it yet.
LEMMA SpeakStep ==
    ASSUME LiveTypeOK, Sound, NEW c \in Call, NEW word \in Words, Speak(c, word)
    PROVE  Sound' /\ LiveTypeOK' /\ call'[c].attempt = call[c].attempt
           /\ \A d \in Call \ {c} : call'[d] = call[d]
<1> USE DEF Sound
<1> DEFINE turn == [call |-> c, word |-> word, to |-> standing[call[c].key]]
<1>0. PICK new : new = Len(said) + 1
  OBVIOUS
<1>1. /\ turn \in Turn /\ Len(said) \in Nat /\ new \in Turns
      /\ said' = Append(said, turn)
  BY <1>0, LiveAssumption DEF Speak, LiveTypeOK, Turn, CallRecord, Turns
<1>2. /\ said' \in Seq(Turn) /\ Len(said') = new
      /\ said'[new] = turn
      /\ \A n \in 1..Len(said) : said'[n] = said[n]
  BY <1>0, <1>1 DEF LiveTypeOK
<1>3. turn.call = c
  OBVIOUS
<1> HIDE DEF turn
<1> DEFINE got == [call[c] EXCEPT !.carried = TRUE, !.turn = new]
<1>4. /\ got.pc = call[c].pc /\ got.key = call[c].key
      /\ got.attempt = call[c].attempt /\ got.turn = new
  BY DEF LiveTypeOK, CallRecord
<1>5. got \in CallRecord
  <2>1. \A carried \in BOOLEAN, n \in Nat :
           [call[c] EXCEPT !.carried = carried, !.turn = n] \in CallRecord
    BY DEF LiveTypeOK, CallRecord
  <2>2. new \in Nat
    BY <1>0, <1>1
  <2> QED
    BY <2>1, <2>2, Zenon
<1>6. call' = [call EXCEPT ![c] = got]
  BY <1>0 DEF Speak
<1> HIDE DEF got
<1>7. /\ call' \in [Call -> CallRecord]
      /\ call'[c].pc = call[c].pc /\ call'[c].key = call[c].key
      /\ call'[c].attempt = call[c].attempt /\ call'[c].turn = new
      /\ \A d \in Call \ {c} : call'[d] = call[d]
  BY <1>4, <1>5, <1>6 DEF LiveTypeOK
<1>8. /\ UNCHANGED <<standing, hand, events, begun, declined, outlived>>
      /\ call[c].pc = "pump" /\ call[c].turn = 0 /\ Len(said) < MaxTurns
      /\ barren' = [barren EXCEPT ![c] = 0]
  BY DEF Speak, CallAt, History
<1>9. LiveTypeOK'
  BY <1>0, <1>1, <1>2, <1>7, <1>8, LiveAssumption DEF LiveTypeOK
<1>10. \A n : Judged(n) => Judged(n)' /\ n \in 1..Len(said) /\ said'[n] = said[n]
  BY <1>0, <1>1, <1>2, <1>7, <1>8 DEF Judged
<1>11. \A n \in 1..Len(said) : n \in 1..Len(said') /\ said'[n] = said[n]
                               /\ said[n].call \in Call
  BY <1>0, <1>1, <1>2, SaidType
<1>12. KeysApart'
  BY <1>7 DEF KeysApart, Open
<1>13. TurnsSound'
  <2>1. ASSUME NEW n \in 1..Len(said') PROVE call'[said'[n].call].pc # "none"
    <3>1. CASE n = new
      BY <1>2, <1>3, <1>7, <1>8, <3>1
    <3>2. CASE n # new
      BY <1>0, <1>1, <1>2, <1>7, <1>11, <3>2 DEF TurnsSound, CallAt
    <3> QED
      BY <3>1, <3>2
  <2>2. ASSUME NEW d \in Call, call'[d].turn # 0
        PROVE  LET n == call'[d].turn IN
               /\ CallAt(d, "pump")' /\ n \in 1..Len(said') /\ said'[n].call = d
               /\ hand[n].pc = "none"
    <3>1. CASE d = c
      BY <1>0, <1>1, <1>2, <1>3, <1>7, <1>8, <3>1 DEF CallAt, HandsSound, Busy
    <3>2. CASE d # c
      BY <1>7, <1>11, <2>2, <3>2 DEF TurnsSound, CallAt, Busy
    <3> QED
      BY <3>1, <3>2
  <2> QED
    BY <1>8, <2>1, <2>2 DEF TurnsSound, Busy, CallAt
<1>14. HandsSound'
  BY <1>8, <1>10, <1>11 DEF HandsSound, Busy, Agreed, SameCall, Begun
<1>15. StandingSound'
  BY <1>7, <1>8, <1>10, <1>11
     DEF StandingSound, StandsWell, Begun, Agreed, Open, KeyOf
<1>16. PastSound'
  BY <1>8, <1>10, <1>11 DEF PastSound, SameCall
<1> QED
  BY <1>7, <1>9, <1>12, <1>13, <1>14, <1>15, <1>16

\* What is agreed to stood in the conversation it is agreed to in, and stands
\* no longer; what is declined stands no longer either.
LEMMA RememberedStep ==
    ASSUME LiveTypeOK, Sound, NEW c \in Call, Remembered(c)
    PROVE  Sound' /\ LiveTypeOK' /\ call'[c].attempt = call[c].attempt
           /\ \A d \in Call \ {c} : call'[d] = call[d]
<1> USE DEF Sound
<1>0. PICK n, k, o : n = call[c].turn /\ k = call[c].key /\ o = standing[k]
  OBVIOUS
<1>1. /\ n \in 1..Len(said) /\ n \in Turns /\ n # 0 /\ said[n].call = c
      /\ KeyOf(n) = k /\ k \in Key /\ hand[n].pc = "none" /\ call[c].pc = "pump"
  BY <1>0, SaidType DEF Remembered, TurnsSound, Busy, KeyOf, CallAt, LiveTypeOK, CallRecord
<1> DEFINE got == [call[c] EXCEPT !.turn = 0]
<1>2. /\ got \in CallRecord /\ got.pc = call[c].pc /\ got.key = call[c].key
      /\ got.attempt = call[c].attempt /\ got.turn = 0
  BY DEF LiveTypeOK, CallRecord
<1>3. call' = [call EXCEPT ![c] = got]
  BY DEF Remembered
<1> HIDE DEF got
<1>4. /\ call' \in [Call -> CallRecord]
      /\ call'[c].pc = call[c].pc /\ call'[c].key = call[c].key
      /\ call'[c].attempt = call[c].attempt /\ call'[c].turn = 0
      /\ \A d \in Call \ {c} : call'[d] = call[d]
  BY <1>2, <1>3 DEF LiveTypeOK
<1>5. UNCHANGED <<said, events, begun, outlived, barren>>
  BY DEF Remembered
\* What becomes of the turn and of what stands.
<1> DEFINE Taken(pc, offer) ==
              /\ hand' \in [Turns -> Hand]
              /\ hand'[n].pc = pc /\ hand'[n].offer = offer
              /\ \A m \in Turns \ {n} : hand'[m] = hand[m]
           Cleared == standing' = [standing EXCEPT ![k] = 0]
<1>6. ASSUME NEW pc \in {"judge", "agreed"}, NEW offer \in Nat, Set(n, pc, offer)
      PROVE  Taken(pc, offer)
  <2> DEFINE h == [pc |-> pc, offer |-> offer, session |-> call[c].session]
  <2>1. h \in Hand /\ h.pc = pc /\ h.offer = offer
    BY DEF LiveTypeOK, CallRecord, Hand
  <2>2. hand' = [hand EXCEPT ![n] = h]
    BY <1>0, <1>1, <1>6 DEF Set
  <2> HIDE DEF h
  <2> QED
    BY <1>1, <2>1, <2>2 DEF LiveTypeOK
<1>7. o \in Nat
  BY <1>0, <1>1 DEF LiveTypeOK
<1>8. \/ Taken("judge", 0) /\ UNCHANGED <<standing, declined>>
      \/ /\ o # 0 /\ said[n].word = "yes"
         /\ Taken("agreed", o) /\ Cleared /\ UNCHANGED declined
      \/ /\ o # 0 /\ Cleared /\ declined' = declined \cup {o} /\ UNCHANGED hand
      \/ UNCHANGED <<standing, hand, declined>>
  <2>1. Understand(n)
    BY <1>0 DEF Remembered
  <2>2. \/ Set(n, "judge", 0) /\ UNCHANGED <<standing, declined>>
        \/ /\ o # 0 /\ said[n].word = "yes"
           /\ Set(n, "agreed", o) /\ Cleared /\ UNCHANGED declined
        \/ /\ o # 0 /\ Cleared /\ declined' = declined \cup {o} /\ UNCHANGED hand
        \/ UNCHANGED <<standing, hand, declined>>
    BY <1>0, <1>1, <2>1 DEF Understand
  <2> QED
    BY <1>6, <1>7, <2>2
<1>9. LiveTypeOK'
  <2>1. hand' \in [Turns -> Hand]
    BY <1>8, Zenon DEF LiveTypeOK
  <2>2. standing' = standing \/ Cleared
    BY <1>8, Zenon
  <2>3. standing' \in [Key -> Nat]
    BY <2>2 DEF LiveTypeOK
  <2>4. declined' \subseteq Nat
    BY <1>7, <1>8 DEF LiveTypeOK
  <2> QED
    BY <1>4, <1>5, <2>1, <2>3, <2>4 DEF LiveTypeOK
<1>10. /\ \A m \in Turns \ {n} : hand'[m] = hand[m]
       /\ \A j \in Key : standing'[j] \in {standing[j], 0}
       /\ declined' \subseteq declined \cup {o}
       /\ declined' # declined \/ Agreed(n)' => standing'[k] = 0 /\ o # 0
  BY <1>0, <1>1, <1>8 DEF LiveTypeOK, Agreed
<1>11. o # 0 => StandsWell(k, o)
  BY <1>0, <1>1 DEF StandingSound
<1>12. \A m : Judged(m) => m # n /\ Judged(m)'
  <2> SUFFICES ASSUME NEW m, Judged(m) PROVE m # n /\ Judged(m)'
    OBVIOUS
  <2>1. m # n /\ m \in Turns \ {n} /\ m # 0
    BY <1>0, SaidType DEF Judged
  <2>2. hand'[m] = hand[m]
    BY <1>10, <2>1
  <2> QED
    BY <1>4, <1>5, <2>1, <2>2 DEF Judged
<1>13. KeysApart'
  BY <1>4 DEF KeysApart, Open
<1>14. TurnsSound'
  <2>1. ASSUME NEW m \in 1..Len(said) PROVE call'[said[m].call].pc # "none"
    BY <1>1, <1>4, SaidType DEF TurnsSound, CallAt
  <2>2. ASSUME NEW d \in Call \ {c}, call[d].turn # 0
        PROVE  call[d].turn \in Turns \ {n}
    BY <1>1, <2>2, SaidType DEF TurnsSound
  <2> QED
    BY <1>4, <1>5, <1>10, <2>1, <2>2 DEF TurnsSound, CallAt, Busy
<1>15. o # 0 /\ o \notin outlived => said[o].call = c
  <2> SUFFICES ASSUME o # 0, o \notin outlived PROVE said[o].call = c
    OBVIOUS
  <2>1. Open(said[o].call) /\ KeyOf(o) = k /\ o \in 1..Len(said)
    BY <1>11 DEF StandsWell, Judged
  <2> QED
    BY <1>1, <2>1, SaidType DEF KeysApart, Open, KeyOf
<1>16. HandsSound'
  <2>1. ASSUME NEW m \in Turns, Busy(m)' PROVE m \in 1..Len(said')
    BY <1>1, <1>5, <1>10, <2>1 DEF HandsSound, Busy
  <2>2. ASSUME Agreed(n)'
        PROVE  /\ hand'[n].offer = o /\ hand'[n].pc = "agreed" /\ o # 0
               /\ said[n].word = "yes" /\ declined' = declined
    BY <1>1, <1>8, <2>2 DEF Agreed
  <2>3. ASSUME NEW m \in Turns, Agreed(m)'
        PROVE  /\ said'[m].word = "yes" /\ SameCall(m, hand[m].offer)'
               /\ Judged(hand[m].offer)' /\ hand'[m].offer \notin declined'
               /\ hand'[m].pc = "agreed" => ~Begun(hand[m].offer)'
    <3>1. CASE m = n
      BY <1>1, <1>5, <1>11, <1>12, <1>15, <2>2, <2>3, <3>1
         DEF StandsWell, SameCall, Begun
    <3>2. CASE m # n
      <4>1. hand'[m] = hand[m] /\ Agreed(m)
        BY <1>10, <2>3, <3>2 DEF Agreed
      <4>2. o # 0 => hand[m].offer # o
        BY <1>11, <4>1 DEF StandsWell
      <4> QED
        BY <1>5, <1>10, <1>12, <4>1, <4>2 DEF HandsSound, SameCall, Begun
    <3> QED
      BY <3>1, <3>2
  <2>4. ASSUME NEW m \in Turns, NEW q \in Turns, Agreed(m)', Agreed(q)',
               hand'[m].offer = hand'[q].offer
        PROVE  m = q
    <3>1. \A x \in Turns \ {n} : Agreed(x)' =>
             Agreed(x) /\ hand'[x] = hand[x] /\ (o # 0 => hand[x].offer # o)
      BY <1>10, <1>11 DEF StandsWell, Agreed
    <3> QED
      BY <1>1, <2>2, <2>4, <3>1 DEF HandsSound
  <2> QED
    <3>1. \A m \in Turns : hand'[m].pc = "agreed" => Agreed(m)'
      BY DEF Agreed
    <3> QED
      BY <2>1, <2>3, <2>4, <3>1 DEF HandsSound
<1>17. StandingSound'
  <2> SUFFICES ASSUME NEW j \in Key, NEW x, x = standing'[j], x # 0
               PROVE  StandsWell(j, x)'
    BY DEF StandingSound
  <2>1. x = standing[j] /\ StandsWell(j, x)
    BY <1>10 DEF StandingSound
  <2>2. x \in 1..Len(said) /\ said[x].call \in Call
    BY <2>1, SaidType DEF StandsWell, Judged
  <2>3. x = o => declined' = declined /\ ~Agreed(n)'
    BY <1>10, <1>11, <2>1 DEF StandsWell
  <2>4. \A m \in Turns : Agreed(m)' => hand'[m].offer # x
    <3>1. \A m \in Turns \ {n} : Agreed(m)' => Agreed(m) /\ hand'[m] = hand[m]
      BY <1>10 DEF Agreed
    <3>2. Agreed(n)' => hand'[n].offer = o
      BY <1>1, <1>8 DEF Agreed
    <3> QED
      BY <2>1, <2>3, <3>1, <3>2 DEF StandsWell
  <2> QED
    BY <1>4, <1>5, <1>10, <1>12, <2>1, <2>2, <2>3, <2>4
       DEF StandsWell, Begun, Open, KeyOf
<1>18. PastSound'
  <2>1. \A x \in declined' : Judged(x)'
    BY <1>10, <1>11, <1>12 DEF PastSound, StandsWell
  <2>2. \A b \in begun : b.offer \notin declined'
    BY <1>10, <1>11 DEF PastSound, StandsWell, Begun
  <2> QED
    BY <1>5, <1>12, <2>1, <2>2 DEF PastSound, SameCall
<1> QED
  BY <1>4, <1>9, <1>13, <1>14, <1>16, <1>17, <1>18

\* A request is judged once, and what comes of it is a new offer.
LEMMA JudgeStep ==
    ASSUME LiveTypeOK, Sound, NEW n \in Turns, Judge(n)
    PROVE  Sound' /\ LiveTypeOK' /\ UNCHANGED <<call, barren>>
<1> USE DEF Sound
<1>1. PICK k : k = KeyOf(n)
  OBVIOUS
<1>2. /\ hand[n].pc = "judge" /\ n \in 1..Len(said) /\ said[n].call \in Call
      /\ k \in Key
  <2>1. hand[n].pc = "judge" /\ n \in 1..Len(said) /\ said[n].call \in Call
    BY SaidType DEF Judge, HandsSound, Busy
  <2> QED
    BY <1>1, <2>1 DEF KeyOf, LiveTypeOK, CallRecord
<1>3. Silent \in Hand /\ Silent.pc = "none"
  BY DEF Silent, Hand
<1>4. /\ hand' \in [Turns -> Hand] /\ hand'[n].pc = "none"
      /\ \A m \in Turns \ {n} : hand'[m] = hand[m]
  BY <1>3 DEF Judge, LiveTypeOK
<1>5. UNCHANGED <<call, said, events, begun, declined, barren>>
  BY DEF Judge
<1>6. \/ UNCHANGED <<standing, outlived>>
      \/ /\ standing' = [standing EXCEPT ![k] = n]
         /\ outlived' = IF CallAt(said[n].call, "closed") THEN outlived \cup {n}
                        ELSE outlived
  BY <1>1 DEF Judge
<1>7. n \in Nat
  BY LiveAssumption DEF Turns
<1>8. /\ standing' \in [Key -> Nat]
      /\ outlived' \subseteq Nat /\ outlived \subseteq outlived'
      /\ \A j \in Key : \/ standing'[j] = standing[j]
                        \/ /\ j = k /\ standing'[j] = n
                           /\ CallAt(said[n].call, "closed") => n \in outlived'
  BY <1>2, <1>6, <1>7 DEF LiveTypeOK
<1>9. LiveTypeOK'
  BY <1>4, <1>5, <1>8 DEF LiveTypeOK
<1>10. \A m : Judged(m) => m # n /\ Judged(m)'
  BY <1>2, <1>4, <1>5, SaidType DEF Judged
<1>11. Judged(n)'
  <2>1. \A c \in Call : call[c].turn # n
    <3>1. n # 0 /\ Busy(n)
      BY <1>2 DEF Busy
    <3> QED
      BY <3>1 DEF TurnsSound
  <2> QED
    BY <1>2, <1>4, <1>5, <2>1 DEF Judged
<1>12. \A m \in Turns : Agreed(m)' => Agreed(m) /\ hand'[m] = hand[m]
  BY <1>4 DEF Agreed
<1>13. KeysApart'
  BY <1>5 DEF KeysApart, Open
<1>14. TurnsSound'
  <2>1. \A m \in Turns : Busy(m)' => Busy(m)
    BY <1>4 DEF Busy
  <2> QED
    BY <1>5, <2>1, SaidType DEF TurnsSound, CallAt
<1>15. HandsSound'
  <2>1. \A m \in Turns : Busy(m)' => m \in 1..Len(said')
    BY <1>2, <1>4, <1>5 DEF HandsSound, Busy
  <2>2. \A m \in Turns : hand'[m].pc = "agreed" => Agreed(m)'
    BY DEF Agreed
  <2> QED
    BY <1>5, <1>8, <1>10, <1>12, <2>1, <2>2 DEF HandsSound, SameCall, Begun
<1>16. StandingSound'
  <2> SUFFICES ASSUME NEW j \in Key, NEW x, x = standing'[j], x # 0
               PROVE  StandsWell(j, x)'
    BY DEF StandingSound
  <2>1. CASE standing'[j] = standing[j]
    <3>1. StandsWell(j, x)
      BY <2>1 DEF StandingSound
    <3> QED
      BY <1>5, <1>8, <1>10, <1>12, <3>1 DEF StandsWell, Begun, Open, KeyOf
  <2>2. CASE j = k /\ x = n /\ (CallAt(said[n].call, "closed") => n \in outlived')
    <3>1. ~Judged(n) /\ \A m \in Turns : Agreed(m) => hand[m].offer # n
      BY <1>2 DEF Judged, HandsSound
    <3>2. n \notin declined /\ ~Begun(n)
      BY <3>1 DEF PastSound, Begun
    <3>3. n \notin outlived' => Open(said[n].call)
      BY <1>2, <2>2 DEF TurnsSound, CallAt, Open, LiveTypeOK, CallRecord
    <3> QED
      BY <1>1, <1>5, <1>11, <1>12, <2>2, <3>1, <3>2, <3>3
         DEF StandsWell, Begun, Open, KeyOf
  <2> QED
    BY <1>8, <2>1, <2>2
<1>17. PastSound'
  BY <1>5, <1>8, <1>10 DEF PastSound, SameCall
<1> QED
  BY <1>5, <1>9, <1>13, <1>14, <1>15, <1>16, <1>17

\* Work is begun on what this turn alone has agreed to.
LEMMA BeginStep ==
    ASSUME LiveTypeOK, Sound, NEW n \in Turns, Begin(n)
    PROVE  Sound' /\ LiveTypeOK' /\ UNCHANGED <<call, barren>>
<1> USE DEF Sound
<1>1. PICK o : o = hand[n].offer
  OBVIOUS
<1>2. /\ hand[n].pc = "agreed" /\ Agreed(n) /\ n \in 1..Len(said)
      /\ n \in Nat /\ o \in Nat
  BY <1>1, LiveAssumption
     DEF Begin, Agreed, HandsSound, Busy, LiveTypeOK, Hand, Turns
<1>3. UNCHANGED <<call, standing, said, events, declined, outlived, barren>>
  BY DEF Begin
<1>4. \/ /\ begun' = begun \cup {[offer |-> o, turn |-> n]}
         /\ hand' = [hand EXCEPT ![n].pc = "work"]
      \/ begun' = begun /\ hand' = [hand EXCEPT ![n] = Silent]
  BY <1>1 DEF Begin
<1>5. Silent \in Hand /\ Silent.pc = "none"
  BY DEF Silent, Hand
<1>6. /\ hand' \in [Turns -> Hand]
      /\ \A m \in Turns \ {n} : hand'[m] = hand[m]
      /\ hand'[n].pc \in {"work", "none"}
      /\ hand'[n].pc = "work" => hand'[n].offer = o
      /\ begun' # begun => hand'[n].pc = "work"
  <2>1. CASE hand' = [hand EXCEPT ![n].pc = "work"]
    <3> DEFINE h == [hand[n] EXCEPT !.pc = "work"]
    <3>1. h \in Hand /\ h.pc = "work" /\ h.offer = o
      BY <1>1 DEF LiveTypeOK, Hand
    <3>2. hand' = [hand EXCEPT ![n] = h]
      BY <2>1
    <3> HIDE DEF h
    <3> QED
      BY <3>1, <3>2 DEF LiveTypeOK
  <2>2. CASE begun' = begun /\ hand' = [hand EXCEPT ![n] = Silent]
    BY <1>5, <2>2 DEF LiveTypeOK
  <2> QED
    BY <1>4, <2>1, <2>2
<1>7. \/ begun' = begun
      \/ begun' = begun \cup {[offer |-> o, turn |-> n]}
  BY <1>4
<1>8. LiveTypeOK'
  BY <1>2, <1>3, <1>6, <1>7 DEF LiveTypeOK
<1>9. \A m : Judged(m) => Judged(m)'
  BY <1>3, <1>6, SaidType DEF Judged
<1>10. \A m \in Turns : Agreed(m)' => Agreed(m) /\ hand'[m].offer = hand[m].offer
                                      /\ (hand'[m].pc = "agreed" => m # n)
  BY <1>1, <1>2, <1>6 DEF Agreed
<1>11. \A x : Begun(x)' => Begun(x) \/ x = o
  BY <1>7 DEF Begun
<1>12. ~Begun(o) /\ Judged(o) /\ o \notin declined /\ SameCall(n, o)
       /\ said[n].word = "yes" /\ \A k \in Key : o # 0 => standing[k] # o
  BY <1>1, <1>2 DEF HandsSound, StandingSound, StandsWell
<1>13. KeysApart'
  BY <1>3 DEF KeysApart, Open
<1>14. TurnsSound'
  <2>1. \A m \in Turns : Busy(m)' => Busy(m)
    BY <1>2, <1>6 DEF Busy
  <2> QED
    BY <1>3, <2>1, SaidType DEF TurnsSound, CallAt
<1>15. HandsSound'
  <2>1. \A m \in Turns : Busy(m)' => m \in 1..Len(said')
    BY <1>2, <1>3, <1>6 DEF HandsSound, Busy
  <2>2. \A m \in Turns : hand'[m].pc = "agreed" => ~Begun(hand[m].offer)'
    <3>1. ASSUME NEW m \in Turns, hand'[m].pc = "agreed"
          PROVE  /\ m # n /\ hand'[m] = hand[m] /\ Agreed(m)
                 /\ hand[m].pc = "agreed" /\ hand[m].offer # o
      BY <1>1, <1>2, <1>6, <3>1 DEF HandsSound, Agreed
    <3> QED
      BY <1>11, <3>1 DEF HandsSound
  <2> QED
    BY <1>3, <1>9, <1>10, <2>1, <2>2 DEF HandsSound, SameCall
<1>16. StandingSound'
  BY <1>3, <1>9, <1>10, <1>11, <1>12
     DEF StandingSound, StandsWell, Open, KeyOf
<1>17. PastSound'
  <2>1. \A b \in begun' \ begun : b.offer = o /\ b.turn = n
    BY <1>7
  <2>2. \A b, x \in begun' : x.offer = b.offer => x = b
    BY <1>7, <1>12 DEF PastSound, Begun
  <2> QED
    BY <1>2, <1>3, <1>9, <1>12, <2>1, <2>2 DEF PastSound, SameCall
<1> QED
  BY <1>3, <1>8, <1>13, <1>14, <1>15, <1>16, <1>17

LEMMA WorkStep ==
    ASSUME LiveTypeOK, Sound, NEW n \in Turns, CarryOut(n)
    PROVE  Sound' /\ LiveTypeOK' /\ UNCHANGED <<call, barren>>
<1> USE DEF Sound
<1>1. Silent \in Hand /\ Silent.pc = "none"
  BY DEF Silent, Hand
<1>2. /\ hand' \in [Turns -> Hand] /\ hand'[n].pc = "none"
      /\ \A m \in Turns \ {n} : hand'[m] = hand[m]
      /\ UNCHANGED <<call, standing, said, events, begun, declined, outlived, barren>>
  BY <1>1 DEF CarryOut, History, LiveTypeOK
<1>3. LiveTypeOK'
  BY <1>2 DEF LiveTypeOK
<1>4. \A m : Judged(m) => Judged(m)'
  BY <1>2, SaidType DEF Judged
<1>5. \A m \in Turns : /\ Agreed(m)' => Agreed(m) /\ hand'[m] = hand[m]
                       /\ Busy(m)' => Busy(m)
  BY <1>2 DEF Agreed, Busy
<1>6. KeysApart' /\ TurnsSound'
  BY <1>2, <1>5, SaidType DEF KeysApart, Open, TurnsSound, CallAt
<1>7. HandsSound'
  BY <1>2, <1>4, <1>5 DEF HandsSound, SameCall, Begun, Agreed
<1>8. StandingSound' /\ PastSound'
  BY <1>2, <1>4, <1>5
     DEF StandingSound, StandsWell, PastSound, SameCall, Begun, Open, KeyOf
<1> QED
  BY <1>2, <1>3, <1>6, <1>7, <1>8

\* The budget: a session that carried nothing costs one attempt.
LEMMA BudgetSame ==
    ASSUME LiveTypeOK, BudgetSound, NEW c \in Call,
           call'[c].attempt = call[c].attempt,
           CallAt(c, "closed")' \/ ~CallAt(c, "closed"),
           \A d \in Call \ {c} : call'[d] = call[d],
           barren' = barren
    PROVE  BudgetSound'
BY DEF BudgetSound, CallAt

LEMMA BudgetPicked ==
    ASSUME LiveTypeOK, BudgetSound, NEW c \in Call, Open(c),
           NEW page \in {"here", "ended", "gone"}, PickUp(c, page)
    PROVE  BudgetSound'
<1>1. /\ barren[c] \in Nat /\ call[c].attempt \in Nat /\ MaxReconnects \in Nat
      /\ barren[c] <= call[c].attempt /\ call[c].attempt <= MaxReconnects
      /\ NextAttempt(c) \in Nat /\ NextAttempt(c) >= 1
  BY LiveAssumption DEF BudgetSound, Open, CallAt, LiveTypeOK, CallRecord, NextAttempt
<1>2. \A d \in Call \ {c} : barren'[d] = barren[d] /\ call'[d] = call[d]
  BY PickUpType DEF Ends, GoesOn
<1>3. barren'[c] <= MaxReconnects + 1
  BY <1>1, PickUpType
<1>4. ~CallAt(c, "closed")' =>
         barren'[c] <= call'[c].attempt /\ call'[c].attempt <= MaxReconnects
  BY <1>1, PickUpType DEF Ends, CallAt
<1> QED
  BY <1>2, <1>3, <1>4 DEF BudgetSound, CallAt

LEMMA CoroutineStep ==
    ASSUME LiveInv, NEW c \in Call,
           \/ Connect(c) \/ Drop(c) \/ ReadEnd(c) \/ HangUp(c)
           \/ \E page \in {"ended", "gone"} : Leave(c, page)
    PROVE  LiveInv'
<1> USE DEF LiveInv
<1>1. Sound
  BY DEF Sound
<1>2. CASE Connect(c)
  <2>1. TurnsAside /\ UNCHANGED <<barren>> /\ events' \in Nat
    BY <1>2 DEF Connect, TurnsAside, History, Event, LiveTypeOK
  <2>2. Sound'
    BY <1>1, <1>2, <2>1, ConnectType, EndsKept, GoesOnStep
  <2>3. BudgetSound'
    BY <1>2, <2>1, ConnectType, BudgetSame DEF Ends, GoesOn, Open, CallAt
  <2> QED
    BY <1>2, <2>1, <2>2, <2>3, ConnectType DEF Sound, LiveTypeOK, TurnsAside
<1>3. ASSUME NEW page \in {"here", "ended", "gone"}, PickUp(c, page), Open(c),
             TurnsAside, events' \in Nat
      PROVE  LiveInv'
  <2>1. Sound'
    BY <1>1, <1>3, PickUpType, EndsKept, GoesOnStep
  <2>2. BudgetSound'
    BY <1>3, BudgetPicked
  <2> QED
    BY <1>3, <2>1, <2>2, PickUpType DEF Sound, LiveTypeOK, TurnsAside
<1>4. CASE Drop(c)
  <2>1. call[c].page \in {"here", "ended", "gone"}
    BY DEF LiveTypeOK, CallRecord
  <2> QED
    BY <1>3, <1>4, <2>1 DEF Drop, CallAt, Open, TurnsAside, History, Event, LiveTypeOK
<1>5. CASE ReadEnd(c)
  BY <1>3, <1>5 DEF ReadEnd, CallAt, Open, TurnsAside, History, LiveTypeOK
<1>6. CASE HangUp(c)
  <2>1. Open(c) /\ Close(c) /\ TurnsAside /\ UNCHANGED <<events, barren>>
    BY <1>6 DEF HangUp, CallAt, Open, TurnsAside, History
  <2>2. Sound'
    BY <1>1, <2>1, CloseType, EndsKept
  <2>3. BudgetSound'
    BY <2>1, CloseType DEF BudgetSound, Ends, CallAt
  <2> QED
    BY <2>1, <2>2, <2>3, CloseType DEF Sound, LiveTypeOK, TurnsAside
<1>7. ASSUME NEW page \in {"ended", "gone"}, Leave(c, page) PROVE LiveInv'
  <2>1. TurnsAside /\ UNCHANGED <<standing, events, barren>>
    BY <1>7 DEF Leave, TurnsAside, History
  <2>2. Sound'
    BY <1>1, <1>7, <2>1, LeaveType, GoesOnStep
  <2>3. BudgetSound'
    BY <1>7, <2>1, LeaveType, BudgetSame DEF GoesOn, Open, CallAt
  <2> QED
    BY <1>7, <2>1, <2>2, <2>3, LeaveType DEF Sound, LiveTypeOK, TurnsAside
<1> QED
  BY <1>2, <1>4, <1>5, <1>6, <1>7

LEMMA LiveStart == LiveInit => LiveInv
<1> SUFFICES ASSUME LiveInit PROVE LiveInv
  OBVIOUS
<1>1. PICK k \in Key : k = CHOOSE j \in Key : TRUE
  BY LiveAssumption
<1> DEFINE first == [pc |-> "none", key |-> CHOOSE j \in Key : TRUE,
                     page |-> "here", attempt |-> 0, session |-> 0,
                     carried |-> FALSE, turn |-> 0]
<1>2. /\ first \in CallRecord /\ first.pc = "none" /\ first.turn = 0
      /\ first.attempt = 0
  <2>1. \A j \in Key, carried \in BOOLEAN :
           [pc |-> "none", key |-> j, page |-> "here", attempt |-> 0,
            session |-> 0, carried |-> carried, turn |-> 0] \in CallRecord
    BY DEF CallRecord
  <2> QED
    BY <1>1, <2>1
<1>3. call = [c \in Call |-> first]
  BY DEF LiveInit
<1> HIDE DEF first
<1>4. Silent \in Hand /\ Silent.pc = "none"
  BY DEF Silent, Hand
<1>5. LiveTypeOK
  <2>1. call \in [Call -> CallRecord] /\ hand \in [Turns -> Hand]
    BY <1>2, <1>3, <1>4 DEF LiveInit
  <2>2. said \in Seq(Turn) /\ Len(said) <= MaxTurns
    BY LiveAssumption DEF LiveInit
  <2>3. standing \in [Key -> Nat] /\ events \in Nat /\ barren \in [Call -> Nat]
    BY DEF LiveInit
  <2>4. begun = {} /\ declined = {} /\ outlived = {}
    BY DEF LiveInit
  <2> QED
    BY <2>1, <2>2, <2>3, <2>4 DEF LiveTypeOK
<1>6. \A c \in Call : call[c].pc = "none" /\ call[c].turn = 0
                      /\ call[c].attempt = 0
  BY <1>2, <1>3
<1>7. \A n \in Turns : hand[n].pc = "none"
  BY <1>4 DEF LiveInit
<1>8. KeysApart /\ TurnsSound /\ HandsSound
  BY <1>6, <1>7 DEF LiveInit, KeysApart, TurnsSound, HandsSound, Open, Busy, Agreed
<1>9. StandingSound /\ PastSound
  BY DEF LiveInit, StandingSound, PastSound
<1>10. BudgetSound
  <2>1. \A c \in Call : barren[c] = 0
    BY DEF LiveInit
  <2>2. MaxReconnects \in Nat
    BY LiveAssumption
  <2>3. ASSUME NEW c \in Call
        PROVE  /\ barren[c] <= MaxReconnects + 1
               /\ barren[c] <= call[c].attempt
               /\ call[c].attempt <= MaxReconnects
    <3>1. barren[c] = 0 /\ call[c].attempt = 0
      BY <1>6, <2>1
    <3> QED
      BY <2>2, <3>1
  <2> QED
    BY <2>3 DEF BudgetSound
<1> QED
  BY <1>5, <1>8, <1>9, <1>10 DEF LiveInv

-----------------------------------------------------------------------------
(* The spoken conversation: theorems *)

\* The inductive invariant of the conversation holds in every reachable state.
THEOREM LiveInvariant == LiveSpec => []LiveInv
<1>1. LiveInv /\ [LiveNext]_liveVars => LiveInv'
  <2> SUFFICES ASSUME LiveInv, [LiveNext]_liveVars PROVE LiveInv'
    OBVIOUS
  <2>1. LiveTypeOK /\ Sound /\ BudgetSound
    BY DEF LiveInv, Sound
  <2>2. ASSUME LiveTypeOK', Sound', BudgetSound' PROVE LiveInv'
    BY <2>2 DEF LiveInv, Sound
  <2>3. ASSUME NEW c \in Call, Dial(c) PROVE LiveInv'
    <3>1. /\ ~CallAt(c, "closed") /\ barren' = barren
          /\ call'[c].attempt = call[c].attempt
          /\ \A d \in Call \ {c} : call'[d] = call[d]
      BY <2>1, <2>3 DEF Dial, CallAt, LiveTypeOK
    <3> QED
      BY <2>1, <2>2, <2>3, <3>1, DialStep, BudgetSame
  <2>4. ASSUME NEW c \in Call, NEW word \in Words, Speak(c, word) PROVE LiveInv'
    <3>1. BudgetSound'
      <4>1. barren' = [barren EXCEPT ![c] = 0] /\ call[c].pc = "pump"
        BY <2>4 DEF Speak, CallAt
      <4> QED
        <5>1. /\ call'[c].attempt = call[c].attempt
              /\ \A d \in Call \ {c} : call'[d] = call[d]
          BY <2>1, <2>4, SpeakStep
        <5>2. /\ barren'[c] = 0 /\ \A d \in Call \ {c} : barren'[d] = barren[d]
              /\ call[c].attempt \in Nat /\ MaxReconnects \in Nat
          BY <2>1, <4>1, LiveAssumption DEF LiveTypeOK, CallRecord
        <5> QED
          BY <2>1, <4>1, <5>1, <5>2 DEF BudgetSound, CallAt
    <3> QED
      BY <2>1, <2>2, <2>4, <3>1, SpeakStep
  <2>8. ASSUME NEW c \in Call, Hear(c) PROVE LiveInv'
    <3>1. TurnsAside /\ UNCHANGED <<standing, events>>
      BY <2>8 DEF Hear, TurnsAside, History
    <3>2. Sound'
      BY <2>1, <2>8, <3>1, HearType, GoesOnStep
    <3>3. LiveTypeOK'
      BY <2>1, <2>8, <3>1, HearType DEF LiveTypeOK, TurnsAside
    <3>4. BudgetSound'
      <4>1. /\ call[c].attempt \in Nat /\ MaxReconnects \in Nat
            /\ call[c].pc # "closed"
        BY <2>1, <2>8, LiveAssumption DEF LiveTypeOK, CallRecord, Hear, CallAt
      <4> QED
        BY <2>1, <2>8, <4>1, HearType DEF BudgetSound, CallAt, GoesOn
    <3> QED
      BY <2>2, <3>2, <3>3, <3>4
  <2>5. ASSUME NEW c \in Call, Remembered(c) PROVE LiveInv'
    <3>1. ~CallAt(c, "closed") /\ barren' = barren
      BY <2>5 DEF Remembered, CallAt
    <3> QED
      BY <2>1, <2>2, <2>5, <3>1, RememberedStep, BudgetSame
  <2>6. ASSUME NEW n \in Turns, Handler(n) PROVE LiveInv'
    <3>1. Sound' /\ LiveTypeOK' /\ UNCHANGED <<call, barren>>
      BY <2>1, <2>6, JudgeStep, BeginStep, WorkStep DEF Handler
    <3> QED
      BY <2>1, <2>2, <3>1 DEF BudgetSound, CallAt
  <2>7. CASE UNCHANGED liveVars
    BY <2>7 DEF liveVars, LiveInv, LiveTypeOK, KeysApart, Open, TurnsSound, CallAt, Busy,
       HandsSound, Agreed, SameCall, Judged, Begun, StandingSound, StandsWell,
       KeyOf, PastSound, BudgetSound
  <2> QED
    BY <2>3, <2>4, <2>5, <2>6, <2>7, <2>8, CoroutineStep DEF LiveNext, Coroutine
<1> QED
  BY LiveStart, <1>1, PTL DEF LiveSpec

\* A call that ends, or goes on, takes no other call's offer away.
LEMMA OfferAside ==
    ASSUME LiveInv, OfferSound, NEW c \in Call, Open(c), Ends(c) \/ GoesOn(c),
           TurnsAside, swapped' = swapped
    PROVE  OfferSound'
<1> USE DEF LiveInv, OfferSound, TurnsAside
<1>1. ASSUME NEW d \in Call, call'[d].turn # 0
      PROVE  /\ call[d].turn = call'[d].turn /\ call'[d].key = call[d].key
             /\ standing'[call[d].key] = standing[call[d].key]
  <2>1. CASE d = c
    BY <1>1, <2>1 DEF Ends, GoesOn
  <2>2. CASE d # c
    <3>1. call'[d] = call[d] /\ call[d].turn # 0
      BY <1>1, <2>2 DEF Ends, GoesOn
    <3>2. Open(d) /\ call[d].key \in Key
      BY <3>1 DEF TurnsSound, CallAt, Open, LiveTypeOK, CallRecord
    <3>3. call[d].key # call[c].key
      BY <2>2, <3>2 DEF KeysApart
    <3> QED
      BY <3>1, <3>2, <3>3 DEF Ends, GoesOn
  <2> QED
    BY <2>1, <2>2
<1>2. \A n \in Turns : Agreed(n)' => Agreed(n)
  BY DEF Agreed
<1> QED
  BY <1>1, <1>2

LEMMA OfferSpeak ==
    ASSUME LiveInv, OfferSound, NEW c \in Call, NEW word \in Words, Speak(c, word)
    PROVE  OfferSound'
<1> USE DEF LiveInv, OfferSound
<1>1. PICK new : new = Len(said) + 1
  OBVIOUS
<1>2. /\ said' \in Seq(Turn) /\ said'[new].to = standing[call[c].key]
      /\ \A n \in 1..Len(said) : said'[n] = said[n]
  <2> DEFINE turn == [call |-> c, word |-> word, to |-> standing[call[c].key]]
  <2>1. turn \in Turn /\ said' = Append(said, turn) /\ turn.to = standing[call[c].key]
    BY DEF Speak, LiveTypeOK, Turn, CallRecord
  <2> HIDE DEF turn
  <2> QED
    BY <1>1, <2>1 DEF LiveTypeOK
<1>3. /\ call'[c].turn = new /\ call'[c].key = call[c].key
      /\ \A d \in Call \ {c} : call'[d] = call[d]
  <2> DEFINE got == [call[c] EXCEPT !.carried = TRUE, !.turn = new]
  <2>1. got.turn = new /\ got.key = call[c].key
    BY DEF LiveTypeOK, CallRecord
  <2>2. call' = [call EXCEPT ![c] = got]
    BY <1>1 DEF Speak
  <2> HIDE DEF got
  <2> QED
    BY <2>1, <2>2 DEF LiveTypeOK
<1>4. UNCHANGED <<standing, hand, begun, swapped>>
  BY DEF Speak, History
<1>5. ASSUME NEW d \in Call, call'[d].turn # 0
      PROVE  \/ call'[d].turn \in swapped'
             \/ said'[call'[d].turn].to = standing'[call'[d].key]
  <2>1. CASE d = c
    BY <1>2, <1>3, <1>4, <2>1
  <2>2. CASE d # c
    <3>1. call'[d] = call[d] /\ call[d].turn \in 1..Len(said)
      BY <1>3, <1>5, <2>2 DEF TurnsSound
    <3> QED
      BY <1>2, <1>4, <1>5, <3>1
  <2> QED
    BY <2>1, <2>2
<1>6. \A n \in Turns : Agreed(n)' => Agreed(n) /\ n \in 1..Len(said)
  BY <1>4 DEF Agreed, HandsSound, Busy
<1>7. \A b \in begun : b.turn \in 1..Len(said)
  BY DEF PastSound
<1> QED
  BY <1>2, <1>4, <1>5, <1>6, <1>7

\* A turn agrees to what stands when it has been remembered.
LEMMA OfferRemembered ==
    ASSUME LiveInv, OfferSound, NEW c \in Call, Remembered(c)
    PROVE  OfferSound'
<1> USE DEF LiveInv, OfferSound
<1>0. PICK n, k, o : n = call[c].turn /\ k = call[c].key /\ o = standing[k]
  OBVIOUS
<1>1. /\ n # 0 /\ n \in Turns /\ said[n].call = c /\ KeyOf(n) = k /\ k \in Key
      /\ Open(c)
  BY <1>0, SaidType DEF Remembered, TurnsSound, KeyOf, CallAt, LiveTypeOK,
     CallRecord, Open
<1>2. UNCHANGED <<said, begun, swapped>>
  BY DEF Remembered
<1>3. /\ call'[c].turn = 0
      /\ \A d \in Call \ {c} : call'[d] = call[d]
  BY DEF Remembered, LiveTypeOK, CallRecord
<1>4. /\ \A j \in Key \ {k} : standing'[j] = standing[j]
      /\ \A m \in Turns \ {n} : hand'[m] = hand[m]
      /\ Agreed(n)' => Agreed(n) \/ hand'[n].offer = o
  <2>1. Understand(n)
    BY <1>0 DEF Remembered
  <2>2. \/ Set(n, "judge", 0) /\ UNCHANGED standing
        \/ Set(n, "agreed", o) /\ standing' = [standing EXCEPT ![k] = 0]
        \/ standing' = [standing EXCEPT ![k] = 0] /\ UNCHANGED hand
        \/ UNCHANGED <<standing, hand>>
    BY <1>0, <1>1, <2>1 DEF Understand
  <2>3. ASSUME NEW pc, NEW offer, Set(n, pc, offer)
        PROVE  /\ \A m \in Turns \ {n} : hand'[m] = hand[m]
               /\ hand'[n].offer = offer /\ hand'[n].pc = pc
    BY <1>1, <2>3 DEF Set, LiveTypeOK
  <2>4. \A j \in Key \ {k} : standing'[j] = standing[j]
    BY <1>1, <2>2 DEF LiveTypeOK
  <2> QED
    BY <2>2, <2>3, <2>4 DEF Agreed
<1>5. ASSUME NEW d \in Call, call'[d].turn # 0
      PROVE  call'[d] = call[d] /\ standing'[call[d].key] = standing[call[d].key]
  <2>1. d # c /\ call'[d] = call[d]
    BY <1>3, <1>5
  <2>2. Open(d) /\ call[d].key \in Key
    BY <1>5, <2>1 DEF TurnsSound, CallAt, Open, LiveTypeOK, CallRecord
  <2> QED
    BY <1>0, <1>1, <1>4, <2>1, <2>2 DEF KeysApart
<1>6. ASSUME NEW m \in Turns, Agreed(m)'
      PROVE  m \in swapped' \/ hand'[m].offer = said'[m].to
  <2>1. CASE m = n
    <3>1. ~Agreed(n)
      BY <1>0, <1>1 DEF TurnsSound, Agreed, Busy
    <3> QED
      BY <1>0, <1>1, <1>2, <1>4, <1>6, <2>1, <3>1
  <2>2. CASE m # n
    BY <1>2, <1>4, <1>6, <2>2 DEF Agreed
  <2> QED
    BY <2>1, <2>2
<1> QED
  BY <1>2, <1>5, <1>6

\* An offer is put under the turns that are being remembered, and no others.
LEMMA OfferJudge ==
    ASSUME LiveInv, OfferSound, NEW n \in Turns, Judge(n)
    PROVE  OfferSound'
<1> USE DEF LiveInv, OfferSound
<1>1. UNCHANGED <<call, said, begun>> /\ hand' = [hand EXCEPT ![n] = Silent]
  BY DEF Judge
<1>2. \A m \in Turns : Agreed(m)' => Agreed(m) /\ hand'[m] = hand[m]
  BY <1>1 DEF Agreed, Silent, LiveTypeOK
<1>3. swapped \subseteq swapped'
  BY DEF Judge
<1>4. ASSUME NEW c \in Call, call[c].turn # 0
      PROVE  \/ call[c].turn \in swapped'
             \/ standing'[call[c].key] = standing[call[c].key]
  <2>1. CASE standing' = standing
    BY <2>1
  <2>2. CASE /\ standing' = [standing EXCEPT ![KeyOf(n)] = n]
             /\ swapped' = swapped \cup Pending(n)
    <3>1. CASE call[c].key = KeyOf(n)
      BY <1>4, <2>2, <3>1 DEF Pending
    <3>2. CASE call[c].key # KeyOf(n)
      <4>1. call[c].key \in Key
        BY DEF LiveTypeOK, CallRecord
      <4> QED
        BY <2>2, <3>2, <4>1 DEF LiveTypeOK
    <3> QED
      BY <3>1, <3>2
  <2> QED
    BY <2>1, <2>2 DEF Judge
<1> QED
  BY <1>1, <1>2, <1>3, <1>4

LEMMA OfferWork ==
    ASSUME LiveInv, OfferSound, NEW n \in Turns, Begin(n) \/ CarryOut(n)
    PROVE  OfferSound'
<1> USE DEF LiveInv, OfferSound
<1>1. UNCHANGED <<call, standing, said, swapped>>
  BY DEF Begin, CarryOut, History
<1>2. \A m \in Turns : Agreed(m)' => Agreed(m) /\ hand'[m].offer = hand[m].offer
  <2>1. CASE hand' = [hand EXCEPT ![n] = Silent]
    BY <2>1 DEF Agreed, Silent, LiveTypeOK
  <2>2. CASE Agreed(n) /\ hand' = [hand EXCEPT ![n].pc = "work"]
    <3> DEFINE h == [hand[n] EXCEPT !.pc = "work"]
    <3>1. h.offer = hand[n].offer
      BY DEF LiveTypeOK, Hand
    <3>2. hand' = [hand EXCEPT ![n] = h]
      BY <2>2
    <3> HIDE DEF h
    <3> QED
      BY <2>2, <3>1, <3>2 DEF Agreed, LiveTypeOK
  <2> QED
    BY <2>1, <2>2 DEF Begin, CarryOut, Agreed
<1>3. ASSUME NEW b \in begun'
      PROVE  b \in begun \/ (Agreed(n) /\ b.offer = hand[n].offer /\ b.turn = n)
  BY <1>3 DEF Begin, CarryOut, History, Agreed
<1> QED
  BY <1>1, <1>2, <1>3

\* The offers are what was heard, from one state to the next.
LEMMA OfferStep ==
    ASSUME LiveInv, OfferSound, [LiveNext]_liveVars
    PROVE  OfferSound'
<1> USE DEF LiveInv
<1>1. ASSUME NEW c \in Call, Dial(c) PROVE OfferSound'
  <2>1. /\ call[c].pc = "none" /\ \A d \in Call \ {c} : call'[d] = call[d]
        /\ call'[c].turn = call[c].turn
        /\ UNCHANGED <<standing, said, hand, begun, swapped>>
    BY <1>1 DEF Dial, CallAt, History, LiveTypeOK, CallRecord
  <2>2. call[c].turn = 0
    BY <2>1 DEF TurnsSound, CallAt
  <2> QED
    BY <2>1, <2>2 DEF OfferSound, Agreed
<1>2. ASSUME NEW c \in Call, Connect(c) PROVE OfferSound'
  BY <1>2, ConnectType, OfferAside DEF Connect, TurnsAside, History
<1>3. ASSUME NEW c \in Call, NEW page \in {"here", "ended", "gone"}, PickUp(c, page),
             Open(c), TurnsAside, swapped' = swapped
      PROVE  OfferSound'
  BY <1>3, PickUpType, OfferAside
<1>4. ASSUME NEW c \in Call, Drop(c) PROVE OfferSound'
  <2>1. call[c].page \in {"here", "ended", "gone"}
    BY DEF LiveTypeOK, CallRecord
  <2> QED
    BY <1>3, <1>4, <2>1 DEF Drop, CallAt, Open, TurnsAside, History
<1>5. ASSUME NEW c \in Call, ReadEnd(c) PROVE OfferSound'
  BY <1>3, <1>5 DEF ReadEnd, CallAt, Open, TurnsAside, History
<1>6. ASSUME NEW c \in Call, HangUp(c) PROVE OfferSound'
  BY <1>6, CloseType, OfferAside DEF HangUp, CallAt, Open, TurnsAside, History
<1>7. ASSUME NEW c \in Call, NEW page \in {"ended", "gone"}, Leave(c, page)
      PROVE  OfferSound'
  BY <1>7, LeaveType, OfferAside DEF Leave, TurnsAside, History, GoesOn
<1>8. ASSUME NEW c \in Call, Hear(c) PROVE OfferSound'
  BY <1>8, HearType, OfferAside DEF Hear, TurnsAside, History, GoesOn
<1>9. CASE UNCHANGED liveVars
  BY <1>9 DEF liveVars, OfferSound, Agreed
<1> QED
  BY <1>1, <1>2, <1>4, <1>5, <1>6, <1>7, <1>8, <1>9, OfferSpeak, OfferRemembered,
     OfferJudge, OfferWork DEF LiveNext, Coroutine, Handler

\* Work begun by voice was agreed to by one spoken yes, once, in the
\* conversation that offered it and to the offer that stood when it was spoken,
\* unless another came in while it was being remembered or the offer outlived
\* its conversation (_handle_turn, _STANDING), for any number of calls, beside
\* each other or with an id in common.
THEOREM AgreedOnceTheorem == LiveSpec => []AgreedOnce
<1>1. LiveInv /\ OfferSound => AgreedOnce
  BY DEF LiveInv, PastSound, SameCall, OfferSound, AgreedOnce
<1>2. LiveInit => OfferSound
  <2> SUFFICES ASSUME LiveInit PROVE OfferSound
    OBVIOUS
  <2>1. \A c \in Call : call[c].turn = 0
    BY DEF LiveInit
  <2>2. \A n \in Turns : ~Agreed(n)
    BY DEF LiveInit, Agreed, Silent
  <2>3. begun = {}
    BY DEF LiveInit
  <2> QED
    BY <2>1, <2>2, <2>3 DEF OfferSound
<1>3. LiveInv /\ OfferSound /\ [LiveNext]_liveVars => OfferSound'
  BY OfferStep
<1> QED
  BY <1>1, <1>2, <1>3, LiveInvariant, PTL DEF LiveSpec

\* A service that does not respond is asked a bounded number of times
\* (live_voice, MAX_RECONNECTS), whatever the bound.
THEOREM ReconnectsBoundedTheorem == LiveSpec => []ReconnectsBounded
<1>1. LiveInv => ReconnectsBounded
  BY DEF LiveInv, BudgetSound, ReconnectsBounded
<1> QED
  BY <1>1, LiveInvariant, PTL

-----------------------------------------------------------------------------
(* The memories: types *)

Stages == {"new", "gathered", "stored", "known", "facts", "mark", "done"}
Ways == {"late", "crowded", "opened", "device"}
States == {"none", "live", "forgotten", "gone"}
Request == [at : Stages, kind : Heard \cup {"none"},
            shown : SUBSET Thing, known : SUBSET Row, left : SUBSET Thing,
            news : SUBSET Work]

RowsOK ==
    /\ row \in [Row -> States]
    /\ link \in [Row -> SUBSET Row]
    /\ quote \in [Exchange -> SUBSET Thing]

NewsOK ==
    /\ finished \subseteq Work /\ told \subseteq Work
    /\ news \in Seq(Work)
    /\ missed \in [Ways -> SUBSET Work]

HistoryOK ==
    /\ forgot \subseteq Exchange /\ tardy \subseteq Exchange
    /\ together \subseteq Exchange /\ loose \subseteq Exchange
    /\ unlisted \in [Exchange -> SUBSET Row]

TypeOK ==
    /\ RowsOK /\ NewsOK /\ HistoryOK
    /\ ex \in [Exchange -> Request]
    /\ strip \in BOOLEAN

-----------------------------------------------------------------------------
(* The memories: the inductive invariant *)

\* References stay within an exchange, which has rows once it is stored; while
\* its message is there, all the others point at it.
LinksSound ==
    /\ \A q \in Row : \A p \in link[q] : Of(p) = Of(q)
    /\ \A q \in Row : row[q] # "none" => ~At(Of(q), {"new", "gathered"})
    /\ \A q \in Kept : Said(Of(q)) \in Kept /\ q # Said(Of(q)) =>
                          Said(Of(q)) \in link[q]

\* What is being learned is linked to a message that is there, unless it was
\* taken back or purged meanwhile; what he takes back was stored.
LearnersSound ==
    /\ \A e \in Exchange : Learning(e) =>
          Said(e) \in Kept \/ e \in tardy \cup loose
    /\ \A e \in forgot : /\ ~At(e, {"new", "gathered"})
                         /\ Learning(e) => e \in tardy

Missed == UNION {missed[how] : how \in DOMAIN missed}

\* A briefing carries all the news there is, but for what was missed; once its
\* reply is out that news is told.
BriefingsSound ==
    \A e \in Exchange :
       /\ ~At(e, {"new", "done"}) /\ ex[e].news # {} =>
             Unheard \subseteq ex[e].news \cup Missed
       /\ ~At(e, {"new", "gathered", "done"}) =>
             ex[e].news \subseteq told \cup Missed
       /\ At(e, {"mark"}) => ex[e].news # {}

Reading(e) == At(e, {"known", "facts"})

\* Two exchanges that are read at one time learn together; a list that is
\* full leaves facts out.
Excused(e, r) ==
    {e, Of(r)} \subseteq together \/ r[2] \in restored \/ r \in unlisted[e]

\* What an exchange was not shown, or is about to store, is told by no other
\* live fact, unless they learn together, it was restored or not listed.
ReadingsSound ==
    /\ \A e, o \in Exchange : e # o /\ Reading(e) /\ Reading(o) =>
          {e, o} \subseteq together
    /\ \A e \in Exchange : \A r \in LiveFacts : Of(r) # e =>
          /\ At(e, {"known"}) /\ r \notin ex[e].known => Excused(e, r)
          /\ At(e, {"facts"}) /\ r[2] \in ex[e].left => Excused(e, r)

IInv == /\ TypeOK /\ LinksSound /\ LearnersSound /\ BriefingsSound
        /\ ReadingsSound
        /\ ForgottenStaysForgotten /\ NoTwins /\ DeletedLeavesNoReference
        /\ NewsReachesHim

-----------------------------------------------------------------------------
(* The memories: rows and news *)

LEMMA Rows ==
    /\ \A r \in Row : Of(r) \in Exchange /\ r[2] \in Thing \cup {"said", "reply"}
    /\ \A e \in Exchange :
          /\ Said(e) \in Row /\ Of(Said(e)) = e /\ Said(e)[2] \notin Thing
          /\ Reply(e) \in Row /\ Of(Reply(e)) = e /\ Reply(e)[2] \notin Thing
          /\ Said(e) # Reply(e)
    /\ \A e \in Exchange, x \in Thing :
          /\ <<e, x>> \in Row /\ Of(<<e, x>>) = e /\ <<e, x>>[2] = x
          /\ <<e, x>> # Said(e) /\ <<e, x>> # Reply(e)
    /\ \A q, r \in Row : Of(q) = Of(r) /\ q[2] = r[2] => q = r
  BY MemoryAssumption DEF Row, Of, Said, Reply

LEMMA RequestType ==
    ASSUME TypeOK, NEW e \in Exchange
    PROVE  /\ ex[e] \in Request
           /\ ex[e].at \in Stages
           /\ ex[e].shown \subseteq Thing /\ ex[e].known \subseteq Row
           /\ ex[e].left \subseteq Thing /\ ex[e].news \subseteq Work
<1>1. ex[e] \in Request
  BY DEF TypeOK
<1> QED
  BY <1>1 DEF Request

LEMMA FreshType ==
    ASSUME NEW s \in Stages
    PROVE  /\ [Fresh EXCEPT !.at = s] \in Request
           /\ [Fresh EXCEPT !.at = s].at = s
           /\ [Fresh EXCEPT !.at = s].news = {}
  BY DEF Fresh, Request

LEMMA KeptIs ==
    /\ Kept \subseteq Row /\ Live \subseteq Kept /\ LiveFacts \subseteq Live
    /\ \A r \in Row : r \in Kept <=> row[r] \in {"live", "forgotten"}
    /\ \A r \in Row : r \in Live <=> row[r] = "live"
    /\ \A r : r \in LiveFacts <=> r \in Live /\ r[2] \in Thing
  BY DEF Kept, Live, Expired, LiveFacts

\* A row found by the id that was tapped belongs to the same exchange.
LEMMA WholeIs ==
    ASSUME LinksSound, NEW r \in Row
    PROVE  /\ WholeExchange(r) \subseteq Kept
           /\ \A q \in WholeExchange(r) : Of(q) = Of(r)
           /\ r \in Kept => r \in WholeExchange(r)
  BY KeptIs DEF LinksSound, WholeExchange

\* A tap on the message, while it is there, finds all that is left of the
\* exchange.
LEMMA WholeByMessage ==
    ASSUME LinksSound, NEW e \in Exchange, Said(e) \in Kept
    PROVE  \A q \in Kept : Of(q) = e => q \in WholeExchange(Said(e))
  BY KeptIs, Rows DEF LinksSound, WholeExchange

LEMMA NewsType ==
    ASSUME TypeOK
    PROVE  /\ DOMAIN news = 1..Len(news) /\ Len(news) \in Nat
           /\ Unheard \subseteq Work /\ Briefing \subseteq Unheard
<1>1. DOMAIN news = 1..Len(news) /\ Len(news) \in Nat /\ news \in Seq(Work)
  BY LenProperties DEF TypeOK, NewsOK
<1>2. \A i \in 1..Len(news) : news[i] \in Work
  BY <1>1, ElementOfSeq
<1>3. \A i : i \in (IF Len(news) > ToldAtMost THEN Len(news) - ToldAtMost + 1
                    ELSE 1)..Len(news) => i \in 1..Len(news)
  BY <1>1, MemoryAssumption
<1> QED
  BY <1>1, <1>2, <1>3 DEF Unheard, Briefing

-----------------------------------------------------------------------------
(* What a step that leaves a part alone preserves of it *)

\* Requests move on, and nothing happens to the news.
LEMMA NewsFrame ==
    ASSUME IInv, NewsAside,
           \A e \in Exchange :
              \/ ex'[e].at \in {"new", "done"}
              \/ /\ ex'[e].news = ex[e].news
                 /\ \/ ex'[e].at = ex[e].at
                    \/ /\ ex[e].at \in {"stored", "known", "facts"}
                       /\ \/ ex'[e].at \in {"known", "facts"}
                          \/ ex'[e].at = "mark" /\ ex[e].news # {}
    PROVE  BriefingsSound' /\ NewsReachesHim'
<1>1. UNCHANGED <<finished, news, told, missed>>
  BY DEF NewsAside
<1>2. UNCHANGED <<Unheard, Missed>>
  BY <1>1 DEF Unheard, Missed
<1>3. BriefingsSound'
  <2> SUFFICES ASSUME NEW e \in Exchange, ~At(e, {"new", "done"})'
               PROVE  /\ ex'[e].news # {} =>
                            Unheard \subseteq ex'[e].news \cup Missed
                      /\ ~At(e, {"gathered"})' =>
                            ex'[e].news \subseteq told \cup Missed
                      /\ At(e, {"mark"})' => ex'[e].news # {}
    BY <1>1, <1>2 DEF BriefingsSound, At
  <2>1. /\ ~At(e, {"new", "done"}) /\ ex'[e].news = ex[e].news
        /\ At(e, {"gathered"}) => At(e, {"gathered"})'
    BY DEF At
  <2> QED
    BY <2>1 DEF IInv, BriefingsSound, At
<1>4. NewsReachesHim'
  BY <1>1, <1>2 DEF IInv, NewsReachesHim, Missed
<1> QED
  BY <1>3, <1>4

\* No fact becomes live, and whoever is reading goes on as it was.
LEMMA ReadFrame ==
    ASSUME IInv, together \subseteq together', restored \subseteq restored',
           UNCHANGED unlisted,
           LiveFacts' \subseteq LiveFacts,
           \A e \in Exchange : Reading(e)' => ex'[e] = ex[e]
    PROVE  ReadingsSound' /\ NoTwins'
<1>1. ReadingsSound'
  BY DEF IInv, ReadingsSound, Reading, At, Excused
<1>2. NoTwins'
  BY DEF IInv, NoTwins
<1> QED
  BY <1>1, <1>2

\* Rows and what was taken back stay, and requests only go on.
LEMMA RowsFrame ==
    ASSUME IInv, RowsAside, TakenAside, UNCHANGED strip,
           \A e \in Exchange :
              /\ ~At(e, {"new", "gathered"}) => ~At(e, {"new", "gathered"})'
              /\ Learning(e)' => Learning(e)
    PROVE  /\ LinksSound' /\ LearnersSound'
           /\ ForgottenStaysForgotten' /\ DeletedLeavesNoReference'
<1>1. UNCHANGED <<row, link, quote, forgot, tardy, loose, strip>>
  BY DEF RowsAside, TakenAside
<1>2. UNCHANGED <<Live, Kept>>
  BY <1>1 DEF Live, Kept, Expired
<1>3. LinksSound'
  BY <1>1, <1>2, Rows DEF IInv, LinksSound
<1>4. LearnersSound'
  BY <1>1, <1>2 DEF IInv, LearnersSound, TypeOK, HistoryOK
<1>5. ForgottenStaysForgotten' /\ DeletedLeavesNoReference'
  BY <1>1, <1>2 DEF IInv, ForgottenStaysForgotten, DeletedLeavesNoReference
<1> QED
  BY <1>3, <1>4, <1>5

-----------------------------------------------------------------------------
(* An exchange *)

LEMMA GatherStep ==
    ASSUME IInv, NEW e \in Exchange, Gather(e)
    PROVE  IInv'
<1>1. PICK k \in Kinds(e) :
         ex' = [ex EXCEPT ![e] = [Fresh EXCEPT !.at = "gathered", !.kind = k,
                                               !.shown = Recalled,
                                               !.news = Briefing]]
  BY DEF Gather
<1> DEFINE got == [Fresh EXCEPT !.at = "gathered", !.kind = k,
                                !.shown = Recalled, !.news = Briefing]
<1>2. /\ At(e, {"new"})
      /\ missed' = [missed EXCEPT !["crowded"] = @ \cup (Unheard \ Briefing)]
      /\ UNCHANGED <<strip, finished, news, moves, told, together, unlisted>>
      /\ RowsAside /\ TakenAside
  BY DEF Gather
<1>3. Recalled \subseteq Thing
  <2>1. \A r \in Row : Tells(r) \subseteq Thing
    BY Rows, MemoryAssumption DEF Tells, IInv, TypeOK, RowsOK
  <2> QED
    BY <2>1 DEF Recalled, RecalledTurns, RecalledFacts, LiveFacts, Live
<1>4. /\ got \in Request /\ got.at = "gathered" /\ got.news = Briefing
  <2>1. k \in Heard
    BY MemoryAssumption
  <2>2. Briefing \subseteq Work
    BY NewsType DEF IInv
  <2> QED
    BY <1>3, <2>1, <2>2 DEF Fresh, Request, Stages
<1> HIDE DEF got
<1>5. /\ ex' = [ex EXCEPT ![e] = got]
      /\ ex'[e] = got /\ \A o \in Exchange \ {e} : ex'[o] = ex[o]
  BY <1>1 DEF IInv, TypeOK, got
<1>6. /\ missed' \in [Ways -> SUBSET Work]
      /\ Missed' = Missed \cup (Unheard \ Briefing)
  <2>1. missed \in [Ways -> SUBSET Work] /\ Unheard \subseteq Work
    BY NewsType DEF IInv, TypeOK, NewsOK
  <2>2. "crowded" \in Ways
    BY DEF Ways
  <2> PICK more : more = Unheard \ Briefing
    OBVIOUS
  <2>3. /\ missed' \in [Ways -> SUBSET Work]
        /\ missed'["crowded"] = missed["crowded"] \cup more
        /\ \A how \in Ways : how # "crowded" => missed'[how] = missed[how]
    BY <1>2, <2>1, <2>2
  <2> QED
    BY <2>1, <2>2, <2>3 DEF Missed
<1>7. TypeOK'
  BY <1>2, <1>4, <1>5, <1>6
     DEF IInv, TypeOK, RowsOK, NewsOK, HistoryOK, RowsAside, TakenAside
<1>8. UNCHANGED Unheard
  BY <1>2 DEF Unheard
<1>9. BriefingsSound'
  <2> SUFFICES ASSUME NEW o \in Exchange, ~At(o, {"new", "done"})'
               PROVE  /\ ex'[o].news # {} =>
                            Unheard \subseteq ex'[o].news \cup Missed'
                      /\ ~At(o, {"gathered"})' =>
                            ex'[o].news \subseteq told \cup Missed'
                      /\ At(o, {"mark"})' => ex'[o].news # {}
    BY <1>2, <1>8 DEF BriefingsSound, At
  <2>1. CASE o = e
    BY <1>4, <1>5, <1>6, <2>1 DEF At
  <2>2. CASE o # e
    BY <1>5, <1>6, <2>2 DEF At, IInv, BriefingsSound
  <2> QED
    BY <2>1, <2>2
<1>10. NewsReachesHim'
  BY <1>2, <1>6, <1>8 DEF IInv, NewsReachesHim, Missed
<1>11. ReadingsSound' /\ NoTwins'
  <2>1. /\ \A o \in Exchange : Reading(o)' => ex'[o] = ex[o]
        /\ UNCHANGED <<LiveFacts, together, restored, unlisted>>
    BY <1>2, <1>4, <1>5
       DEF Reading, At, LiveFacts, Live, RowsAside, TakenAside
  <2> QED
    BY <2>1, ReadFrame
<1>12. /\ LinksSound' /\ LearnersSound'
       /\ ForgottenStaysForgotten' /\ DeletedLeavesNoReference'
  <2>1. \A o \in Exchange :
           /\ ~At(o, {"new", "gathered"}) => ~At(o, {"new", "gathered"})'
           /\ Learning(o)' => Learning(o)
    BY <1>2, <1>4, <1>5 DEF At, Learning
  <2> QED
    BY <1>2, <2>1, RowsFrame
<1> QED
  BY <1>7, <1>9, <1>10, <1>11, <1>12 DEF IInv

\* A step of an exchange that ends it, or has it mark the news.
LEMMA EndsStep ==
    ASSUME IInv, NEW e \in Exchange, NEW r \in Request,
           ex' = [ex EXCEPT ![e] = r], ~At(e, {"new"}),
           \/ r.at = "done"
           \/ /\ r.at = "mark" /\ r.news = ex[e].news /\ r.news # {}
              /\ Learning(e),
           UNCHANGED <<strip, moves, together, unlisted>>,
           RowsAside, NewsAside, TakenAside
    PROVE  IInv'
<1>1. ex'[e] = r /\ \A o \in Exchange \ {e} : ex'[o] = ex[o]
  BY DEF IInv, TypeOK
<1>2. TypeOK'
  BY DEF IInv, TypeOK, RowsOK, NewsOK, HistoryOK, RowsAside, NewsAside, TakenAside
<1>3. BriefingsSound' /\ NewsReachesHim'
  BY <1>1, NewsFrame DEF At, Learning
<1>4. ReadingsSound' /\ NoTwins'
  <2>1. /\ \A o \in Exchange : Reading(o)' => ex'[o] = ex[o]
        /\ UNCHANGED <<LiveFacts, together, restored, unlisted>>
    BY <1>1 DEF Reading, At, LiveFacts, Live, RowsAside, TakenAside
  <2> QED
    BY <2>1, ReadFrame
<1>5. /\ LinksSound' /\ LearnersSound'
      /\ ForgottenStaysForgotten' /\ DeletedLeavesNoReference'
  <2>1. \A o \in Exchange :
           /\ ~At(o, {"new", "gathered"}) => ~At(o, {"new", "gathered"})'
           /\ Learning(o)' => Learning(o)
    BY <1>1 DEF At, Learning
  <2> QED
    BY <2>1, RowsFrame
<1> QED
  BY <1>2, <1>3, <1>4, <1>5 DEF IInv

LEMMA RefuseStep ==
    ASSUME IInv, NEW e \in Exchange, Refuse(e)
    PROVE  IInv'
<1>1. "done" \in Stages
  BY DEF Stages
<1> QED
  BY <1>1, FreshType, EndsStep DEF Refuse, At

\* What follows learning.
LEMMA LearnedStep ==
    ASSUME IInv, NEW e \in Exchange, Learning(e), ex' = Learned(e),
           UNCHANGED <<strip, moves, together, unlisted>>,
           RowsAside, NewsAside, TakenAside
    PROVE  IInv'
<1>1. CASE AfterLearning(e) = "mark"
  <2> DEFINE r == [ex[e] EXCEPT !.at = "mark", !.known = {}, !.left = {}]
  <2>1. r \in Request /\ r.at = "mark" /\ r.news = ex[e].news
    BY RequestType DEF IInv, Request, Stages
  <2>2. r.news # {}
    BY <1>1, <2>1 DEF AfterLearning
  <2>3. ex' = [ex EXCEPT ![e] = r]
    BY <1>1 DEF Learned
  <2> HIDE DEF r
  <2> QED
    BY <2>1, <2>2, <2>3, EndsStep DEF Learning, At
<1>2. CASE AfterLearning(e) # "mark"
  <2>1. ex' = [ex EXCEPT ![e] = [Fresh EXCEPT !.at = "done"]]
    BY <1>2 DEF Learned
  <2>2. "done" \in Stages
    BY DEF Stages
  <2> QED
    BY <2>1, <2>2, FreshType, EndsStep DEF Learning, At
<1> QED
  BY <1>1, <1>2

LEMMA LearnNothingStep ==
    ASSUME IInv, NEW e \in Exchange, LearnNothing(e)
    PROVE  IInv'
  BY LearnedStep DEF LearnNothing, Learning, At

LEMMA LearnEndsStep ==
    ASSUME IInv, NEW e \in Exchange, LearnEnds(e)
    PROVE  IInv'
  BY LearnedStep DEF LearnEnds, Learning, At

\* The news is marked as told: all of it was in the briefing, or is missed.
LEMMA MarkSeenStep ==
    ASSUME IInv, NEW e \in Exchange, MarkSeen(e)
    PROVE  IInv'
<1> DEFINE r == [Fresh EXCEPT !.at = "done"]
<1>1. /\ At(e, {"mark"}) /\ news' = <<>> /\ ex' = [ex EXCEPT ![e] = r]
      /\ UNCHANGED <<strip, finished, moves, told, missed, together, unlisted>>
      /\ RowsAside /\ TakenAside
  BY DEF MarkSeen
<1>2. r \in Request /\ r.at = "done"
  <2>1. "done" \in Stages
    BY DEF Stages
  <2> QED
    BY <2>1, FreshType
<1> HIDE DEF r
<1>3. ex'[e] = r /\ \A o \in Exchange \ {e} : ex'[o] = ex[o]
  BY <1>1 DEF IInv, TypeOK
<1>4. news' \in Seq(Work) /\ Unheard' = {}
  BY <1>1, EmptySeq DEF Unheard
<1>5. TypeOK'
  BY <1>1, <1>2, <1>4
     DEF IInv, TypeOK, RowsOK, NewsOK, HistoryOK, RowsAside, TakenAside
<1>6. BriefingsSound'
  <2> SUFFICES ASSUME NEW o \in Exchange, ~At(o, {"new", "done"})'
               PROVE  /\ ~At(o, {"gathered"})' =>
                            ex'[o].news \subseteq told \cup Missed
                      /\ At(o, {"mark"})' => ex'[o].news # {}
    BY <1>1, <1>4 DEF BriefingsSound, At, Missed
  <2>1. ex'[o] = ex[o]
    BY <1>2, <1>3 DEF At
  <2> QED
    BY <2>1 DEF At, IInv, BriefingsSound
<1>7. NewsReachesHim'
  <2>1. Unheard \subseteq told \cup Missed
    BY <1>1 DEF IInv, BriefingsSound, At
  <2> QED
    BY <1>1, <1>4, <2>1 DEF IInv, NewsReachesHim, Missed
<1>8. ReadingsSound' /\ NoTwins'
  <2>1. /\ \A o \in Exchange : Reading(o)' => ex'[o] = ex[o]
        /\ UNCHANGED <<LiveFacts, together, restored, unlisted>>
    BY <1>1, <1>2, <1>3
       DEF Reading, At, LiveFacts, Live, RowsAside, TakenAside
  <2> QED
    BY <2>1, ReadFrame
<1>9. /\ LinksSound' /\ LearnersSound'
      /\ ForgottenStaysForgotten' /\ DeletedLeavesNoReference'
  <2>1. \A o \in Exchange :
           /\ ~At(o, {"new", "gathered"}) => ~At(o, {"new", "gathered"})'
           /\ Learning(o)' => Learning(o)
    BY <1>2, <1>3 DEF At, Learning
  <2> QED
    BY <1>1, <2>1, RowsFrame
<1> QED
  BY <1>5, <1>6, <1>7, <1>8, <1>9 DEF IInv

\* Work that ends while a briefing is on its way is missed by it.
LEMMA FinishStep ==
    ASSUME IInv, NEW w \in Work, Finish(w)
    PROVE  IInv'
<1> PICK briefed : briefed = {e \in Exchange :
                                ~At(e, {"new", "done"}) /\ ex[e].news # {}}
  OBVIOUS
<1> PICK late : late = IF briefed = {} THEN {} ELSE {w}
  OBVIOUS
<1>1. /\ finished' = finished \cup {w} /\ news' = Append(news, w)
      /\ missed' = [missed EXCEPT !["late"] = @ \cup late]
      /\ UNCHANGED <<ex, strip, told, together, unlisted>>
      /\ RowsAside /\ TakenAside
  <2>1. /\ finished' = finished \cup {w} /\ news' = Append(news, w)
        /\ missed' = [missed EXCEPT !["late"] = IF briefed = {} THEN @
                                                ELSE @ \cup {w}]
        /\ UNCHANGED <<ex, strip, told, together, unlisted>>
        /\ RowsAside /\ TakenAside
    BY DEF Finish
  <2>2. (IF briefed = {} THEN missed["late"] ELSE missed["late"] \cup {w})
           = missed["late"] \cup late
    OBVIOUS
  <2> QED
    BY <2>1, <2>2
<1>2. /\ missed' \in [Ways -> SUBSET Work] /\ Missed' = Missed \cup late
  <2>1. missed \in [Ways -> SUBSET Work] /\ late \subseteq Work
    BY DEF IInv, TypeOK, NewsOK
  <2>2. "late" \in Ways
    BY DEF Ways
  <2>3. /\ missed' \in [Ways -> SUBSET Work]
        /\ missed'["late"] = missed["late"] \cup late
        /\ \A how \in Ways : how # "late" => missed'[how] = missed[how]
    BY <1>1, <2>1, <2>2
  <2> QED
    BY <2>1, <2>2, <2>3 DEF Missed
<1>3. news' \in Seq(Work) /\ Unheard' = Unheard \cup {w}
  <2>1. news \in Seq(Work) /\ DOMAIN news = 1..Len(news) /\ Len(news) \in Nat
    BY NewsType DEF IInv, TypeOK, NewsOK
  <2>2. /\ news' \in Seq(Work) /\ Len(news') = Len(news) + 1
        /\ \A i \in 1..Len(news) : news'[i] = news[i]
        /\ news'[Len(news) + 1] = w
    BY <1>1, <2>1, AppendProperties
  <2>3. DOMAIN news' = 1..(Len(news) + 1)
    BY <2>2, LenProperties
  <2>4. DOMAIN news' = DOMAIN news \cup {Len(news) + 1}
    BY <2>1, <2>3
  <2> QED
    BY <2>1, <2>2, <2>4 DEF Unheard
<1>4. TypeOK'
  BY <1>1, <1>2, <1>3
     DEF IInv, TypeOK, RowsOK, NewsOK, HistoryOK, RowsAside, TakenAside
<1>5. BriefingsSound'
  <2> SUFFICES ASSUME NEW o \in Exchange, ~At(o, {"new", "done"})
               PROVE  /\ ex[o].news # {} =>
                            Unheard' \subseteq ex[o].news \cup Missed'
                      /\ ~At(o, {"gathered"}) =>
                            ex[o].news \subseteq told \cup Missed'
                      /\ At(o, {"mark"}) => ex[o].news # {}
    BY <1>1 DEF BriefingsSound, At
  <2>1. ex[o].news # {} => late = {w}
    OBVIOUS
  <2> QED
    BY <1>2, <1>3, <2>1 DEF IInv, BriefingsSound, At
<1>6. NewsReachesHim'
  BY <1>1, <1>2, <1>3 DEF IInv, NewsReachesHim, Missed
<1>7. ReadingsSound' /\ NoTwins'
  <2>1. UNCHANGED <<LiveFacts, together, restored, unlisted, ex>>
    BY <1>1 DEF LiveFacts, Live, RowsAside, TakenAside
  <2> QED
    BY <2>1, ReadFrame
<1>8. /\ LinksSound' /\ LearnersSound'
      /\ ForgottenStaysForgotten' /\ DeletedLeavesNoReference'
  <2>1. \A o \in Exchange :
           /\ ~At(o, {"new", "gathered"}) => ~At(o, {"new", "gathered"})'
           /\ Learning(o)' => Learning(o)
    BY <1>1 DEF At, Learning
  <2> QED
    BY <1>1, <2>1, RowsFrame
<1> QED
  BY <1>4, <1>5, <1>6, <1>7, <1>8 DEF IInv

\* It is shown live facts, what is left out is recorded, and it learns together
\* with whoever is reading.
LEMMA ListKnownStep ==
    ASSUME IInv, NEW e \in Exchange, ListKnown(e)
    PROVE  IInv'
<1> PICK known \in Listings :
       /\ ex' = [ex EXCEPT ![e].at = "known", ![e].known = known]
       /\ unlisted' = [unlisted EXCEPT ![e] = @ \cup (LiveFacts \ known)]
  BY DEF ListKnown
<1> DEFINE r == [ex[e] EXCEPT !.at = "known", !.known = known]
<1> PICK others : others = {o \in Exchange \ {e} : Reading(o)}
  OBVIOUS
<1>0. known \subseteq LiveFacts
  BY DEF Listings
<1>1. /\ At(e, {"stored"}) /\ ex' = [ex EXCEPT ![e] = r]
      /\ together' = IF others = {} THEN together
                     ELSE together \cup others \cup {e}
      /\ UNCHANGED <<strip, moves>> /\ RowsAside /\ NewsAside /\ TakenAside
  BY DEF ListKnown, Reading
<1>2. /\ r \in Request /\ r.at = "known" /\ r.news = ex[e].news
      /\ r.known = known
  BY <1>0, RequestType, KeptIs DEF IInv, Request, Stages
<1> HIDE DEF r
<1>3. ex'[e] = r /\ \A o \in Exchange \ {e} : ex'[o] = ex[o]
  BY <1>1 DEF IInv, TypeOK
<1>4. /\ together \subseteq together' /\ together' \subseteq Exchange
      /\ \A o \in Exchange : o # e /\ Reading(o) => {e, o} \subseteq together'
  BY <1>1 DEF IInv, TypeOK, HistoryOK
<1>14. /\ unlisted' \in [Exchange -> SUBSET Row]
       /\ LiveFacts \ known \subseteq unlisted'[e]
       /\ \A o \in Exchange : unlisted[o] \subseteq unlisted'[o]
  <2>1. unlisted \in [Exchange -> SUBSET Row] /\ LiveFacts \subseteq Row
    BY KeptIs DEF IInv, TypeOK, HistoryOK
  <2> QED
    BY <2>1
<1>5. TypeOK'
  <2>1. HistoryOK'
    BY <1>1, <1>4, <1>14 DEF IInv, TypeOK, HistoryOK, TakenAside
  <2>2. RowsOK' /\ NewsOK'
    BY <1>1 DEF IInv, TypeOK, RowsOK, NewsOK, RowsAside, NewsAside
  <2>3. ex' \in [Exchange -> Request] /\ strip' \in BOOLEAN
    BY <1>1, <1>2 DEF IInv, TypeOK
  <2> QED
    BY <2>1, <2>2, <2>3 DEF TypeOK
<1>6. BriefingsSound' /\ NewsReachesHim'
  BY <1>1, <1>2, <1>3, NewsFrame DEF At
<1>7. UNCHANGED <<Live, LiveFacts, restored>>
  BY <1>1 DEF Live, LiveFacts, RowsAside, TakenAside
<1>8. \A o \in Exchange : o # e => (Reading(o)' <=> Reading(o))
  BY <1>3 DEF Reading, At
<1>9. ReadingsSound'
  <2>1. ASSUME NEW o \in Exchange, NEW p \in Exchange, o # p, Reading(o)',
               Reading(p)'
        PROVE  {o, p} \subseteq together'
    BY <1>4, <1>8, <2>1 DEF IInv, ReadingsSound
  <2>2. ASSUME NEW o \in Exchange, NEW f \in LiveFacts, Of(f) # o
        PROVE  /\ At(o, {"known"})' /\ f \notin ex'[o].known =>
                     Excused(o, f)'
               /\ At(o, {"facts"})' /\ f[2] \in ex'[o].left => Excused(o, f)'
    <3>1. CASE o = e
      BY <1>2, <1>3, <1>7, <1>14, <2>2, <3>1 DEF At, Excused
    <3>2. CASE o # e
      <4>1. ex'[o] = ex[o]
        BY <1>3, <3>2
      <4>2. Excused(o, f) => Excused(o, f)'
        BY <1>4, <1>7, <1>14 DEF Excused
      <4> QED
        BY <2>2, <4>1, <4>2 DEF IInv, ReadingsSound, At
    <3> QED
      BY <3>1, <3>2
  <2> QED
    BY <1>7, <2>1, <2>2 DEF ReadingsSound
<1>10. NoTwins'
  BY <1>4, <1>7, <1>14, KeptIs, Rows DEF IInv, NoTwins
<1>11. /\ LinksSound' /\ LearnersSound'
       /\ ForgottenStaysForgotten' /\ DeletedLeavesNoReference'
  <2>1. \A o \in Exchange :
           /\ ~At(o, {"new", "gathered"}) => ~At(o, {"new", "gathered"})'
           /\ Learning(o)' => Learning(o)
    BY <1>1, <1>2, <1>3 DEF At, Learning
  <2> QED
    BY <1>1, <2>1, RowsFrame
<1> QED
  BY <1>5, <1>6, <1>9, <1>10, <1>11 DEF IInv

\* Both rows of an exchange, each pointing at the other.
LEMMA StoreStep ==
    ASSUME IInv, NEW e \in Exchange, Store(e)
    PROVE  IInv'
<1> DEFINE r == [ex[e] EXCEPT !.at = "stored", !.shown = {}]
<1> PICK s : s = Said(e)
  OBVIOUS
<1> PICK y : y = Reply(e)
  OBVIOUS
<1> PICK more : more = ex[e].news
  OBVIOUS
<1>1. /\ At(e, {"gathered"}) /\ ex' = [ex EXCEPT ![e] = r]
      /\ row' = [row EXCEPT ![s] = "live", ![y] = "live"]
      /\ link' = [link EXCEPT ![s] = {y}, ![y] = {s}]
      /\ UNCHANGED <<strip, finished, news, moves, together, unlisted>> /\ TakenAside
  BY DEF Store, StoreExchange
<1>2. PICK q \in SUBSET (ex[e].shown \cup Says(e)) :
         quote' = [quote EXCEPT ![e] = q]
  BY DEF Store
<1> PICK k : k = ex[e].kind
  OBVIOUS
<1>3. \/ k \in Canned /\ told' = told /\ missed' = [missed EXCEPT ![k] = @ \cup more]
      \/ told' = told \cup more /\ missed' = missed
  BY DEF Store
<1>4. /\ s \in Row /\ y \in Row /\ s # y /\ Of(s) = e /\ Of(y) = e
      /\ s[2] \notin Thing /\ y[2] \notin Thing
  BY Rows
<1>5. more \subseteq Work /\ q \subseteq Thing
  BY RequestType, MemoryAssumption DEF IInv
<1>6. r \in Request /\ r.at = "stored" /\ r.news = more
  BY RequestType DEF IInv, Request, Stages
<1> HIDE DEF r
<1>7. ex'[e] = r /\ \A o \in Exchange \ {e} : ex'[o] = ex[o]
  BY <1>1 DEF IInv, TypeOK
<1>8. /\ row' \in [Row -> States] /\ link' \in [Row -> SUBSET Row]
      /\ row'[s] = "live" /\ row'[y] = "live" /\ link'[s] = {y} /\ link'[y] = {s}
      /\ \A p \in Row : p # s /\ p # y =>
            row'[p] = row[p] /\ link'[p] = link[p]
  BY <1>1, <1>4 DEF IInv, TypeOK, RowsOK, States
<1>9. /\ missed' \in [Ways -> SUBSET Work] /\ Missed \subseteq Missed'
      /\ told \subseteq told' /\ told' \subseteq Work
      /\ more \subseteq told' \cup Missed'
  <2>1. missed \in [Ways -> SUBSET Work] /\ told \subseteq Work
    BY DEF IInv, TypeOK, NewsOK
  <2>3. CASE told' = told \cup more /\ missed' = missed
    BY <1>5, <2>1, <2>3 DEF Missed
  <2>4. CASE /\ k \in Canned /\ told' = told
             /\ missed' = [missed EXCEPT ![k] = @ \cup more]
    <3>2. k \in Ways
      BY <2>4 DEF Ways, Canned
    <3>1. /\ missed' \in [Ways -> SUBSET Work]
          /\ missed'[k] = missed[k] \cup more
          /\ \A how \in Ways : how # k => missed'[how] = missed[how]
      BY <1>5, <2>1, <2>4, <3>2
    <3> QED
      BY <2>1, <2>4, <3>1, <3>2 DEF Missed
  <2> QED
    BY <1>3, <2>3, <2>4
<1>10. TypeOK'
  BY <1>1, <1>2, <1>5, <1>6, <1>8, <1>9
     DEF IInv, TypeOK, RowsOK, NewsOK, HistoryOK, TakenAside
<1>11. UNCHANGED Unheard
  BY <1>1 DEF Unheard
<1>12. BriefingsSound'
  <2> SUFFICES ASSUME NEW o \in Exchange, ~At(o, {"new", "done"})'
               PROVE  /\ ex'[o].news # {} =>
                            Unheard \subseteq ex'[o].news \cup Missed'
                      /\ ~At(o, {"gathered"})' =>
                            ex'[o].news \subseteq told' \cup Missed'
                      /\ At(o, {"mark"})' => ex'[o].news # {}
    BY <1>11 DEF BriefingsSound, At
  <2>1. CASE o = e
    <3>1. more # {} => Unheard \subseteq more \cup Missed
      BY <1>1 DEF IInv, BriefingsSound, At
    <3> QED
      BY <1>6, <1>7, <1>9, <2>1, <3>1 DEF At
  <2>2. CASE o # e
    BY <1>7, <1>9, <2>2 DEF At, IInv, BriefingsSound
  <2> QED
    BY <2>1, <2>2
<1>13. NewsReachesHim'
  BY <1>1, <1>9, <1>11 DEF IInv, NewsReachesHim, Missed
<1>14. /\ Kept' = Kept \cup {s, y} /\ Live' = Live \cup {s, y}
       /\ LiveFacts' = LiveFacts
  BY <1>4, <1>8 DEF Kept, Live, Expired, LiveFacts
<1>15. ReadingsSound' /\ NoTwins'
  <2>1. /\ \A o \in Exchange : Reading(o)' => ex'[o] = ex[o]
        /\ UNCHANGED <<together, restored, unlisted>>
    BY <1>1, <1>6, <1>7 DEF Reading, At, TakenAside
  <2> QED
    BY <1>14, <2>1, ReadFrame
<1>16. \A p \in Row : Of(p) = e => row[p] = "none"
  BY <1>1 DEF IInv, LinksSound, At
<1>17. LinksSound'
  <2>1. \A p \in Row : \A t \in link'[p] : Of(t) = Of(p)
    BY <1>4, <1>8 DEF IInv, LinksSound
  <2>2. \A p \in Row : row'[p] # "none" => ~At(Of(p), {"new", "gathered"})'
    <3> SUFFICES ASSUME NEW p \in Row, row'[p] # "none"
                 PROVE  ~At(Of(p), {"new", "gathered"})'
      OBVIOUS
    <3>1. CASE Of(p) = e
      BY <1>6, <1>7, <3>1 DEF At
    <3>2. CASE Of(p) # e
      BY <1>4, <1>7, <1>8, <3>2, Rows DEF At, IInv, LinksSound
    <3> QED
      BY <3>1, <3>2
  <2>3. \A p \in Kept' : Said(Of(p)) \in Kept' /\ p # Said(Of(p)) =>
                            Said(Of(p)) \in link'[p]
    <3> SUFFICES ASSUME NEW p \in Kept', Said(Of(p)) \in Kept', p # Said(Of(p))
                 PROVE  Said(Of(p)) \in link'[p]
      OBVIOUS
    <3>1. CASE Of(p) = e
      <4>1. p \in {s, y}
        BY <1>14, <1>16, <3>1, KeptIs
      <4> QED
        BY <1>4, <1>8, <3>1, <4>1
    <3>2. CASE Of(p) # e
      <4>1. p \in Kept /\ p \in Row /\ p # s /\ p # y /\ Of(p) \in Exchange
        BY <1>4, <1>14, <3>2, KeptIs, Rows
      <4>2. Of(Said(Of(p))) = Of(p)
        BY <4>1, Rows
      <4>3. Said(Of(p)) \in Kept
        BY <1>4, <1>14, <3>2, <4>2
      <4> QED
        BY <1>8, <4>1, <4>3 DEF IInv, LinksSound
    <3> QED
      BY <3>1, <3>2
  <2> QED
    BY <2>1, <2>2, <2>3 DEF LinksSound
<1>18. /\ e \notin forgot /\ UNCHANGED <<forgot, tardy, loose>>
  BY <1>1 DEF IInv, LearnersSound, At, TakenAside
<1>19. LearnersSound'
  <2>1. ASSUME NEW o \in Exchange, o # e
        PROVE  /\ Learning(o)' => Said(o) \in Kept' \/ o \in (tardy \cup loose)'
               /\ o \in forgot' => /\ ~At(o, {"new", "gathered"})'
                                   /\ Learning(o)' => o \in tardy'
    BY <1>7, <1>14, <1>18, <2>1 DEF IInv, LearnersSound, At, Learning
  <2>2. Said(e) \in Kept'
    BY <1>14
  <2> QED
    BY <1>18, <2>1, <2>2 DEF LearnersSound, IInv, TypeOK, HistoryOK
<1>20. ForgottenStaysForgotten'
  BY <1>4, <1>14, <1>18 DEF IInv, ForgottenStaysForgotten
<1>21. DeletedLeavesNoReference'
  <2> SUFFICES ASSUME ~strip, NEW p \in Kept'
               PROVE  link'[p] \subseteq Kept' \/ Of(p) \in (tardy \cup loose)'
    BY <1>1 DEF DeletedLeavesNoReference
  <2>1. CASE p \in {s, y}
    BY <1>8, <1>14, <2>1
  <2>2. CASE p \notin {s, y}
    <3>1. p \in Kept /\ p \in Row
      BY <1>14, <2>2, KeptIs
    <3>2. link'[p] = link[p]
      BY <1>8, <2>2, <3>1
    <3> QED
      BY <1>14, <1>18, <3>1, <3>2 DEF IInv, DeletedLeavesNoReference
  <2> QED
    BY <2>1, <2>2
<1> QED
  BY <1>10, <1>12, <1>13, <1>15, <1>17, <1>19, <1>20, <1>21 DEF IInv

\* What retiring rows, whether forgotten or superseded, does to the others.
LEMMA Retired ==
    ASSUME IInv, NEW S \in SUBSET Kept,
           row' = [q \in Row |-> IF q \in S THEN "forgotten" ELSE row[q]]
    PROVE  /\ row' \in [Row -> States]
           /\ Kept' = Kept /\ Live' = Live \ S /\ LiveFacts' = LiveFacts \ S
           /\ \A q \in Row : row'[q] = "none" <=> row[q] = "none"
<1>1. row' \in [Row -> States]
  BY DEF IInv, TypeOK, RowsOK, States
<1>2. \A q \in Row : row'[q] = IF q \in S THEN "forgotten" ELSE row[q]
  OBVIOUS
<1>3. \A q \in Row : q \in S => row[q] \in {"live", "forgotten"}
  BY KeptIs
<1> QED
  BY <1>1, <1>2, <1>3 DEF Kept, Live, Expired, LiveFacts

\* References stay as they are, and no row comes or goes.
LEMMA LinksFrame ==
    ASSUME IInv, Kept' = Kept, link' = link,
           \A q \in Row : row'[q] = "none" <=> row[q] = "none",
           \A e \in Exchange :
              ~At(e, {"new", "gathered"}) => ~At(e, {"new", "gathered"})'
    PROVE  LinksSound'
  BY Rows DEF IInv, LinksSound

LEMMA RetireStep ==
    ASSUME IInv, NEW e \in Exchange, Retire(e)
    PROVE  IInv'
<1>1. PICK old \in SUBSET ex[e].known :
         row' = [q \in Row |-> IF q \in old \cap Kept THEN "forgotten" ELSE row[q]]
  BY DEF Retire
<1>2. PICK things \in Readings(e) :
         ex' = [ex EXCEPT ![e].at = "facts", ![e].known = {},
                          ![e].left = Unseen(things, ex[e].known)]
  BY DEF Retire
<1> PICK left : left = Unseen(things, ex[e].known)
  OBVIOUS
<1> DEFINE r == [ex[e] EXCEPT !.at = "facts", !.known = {}, !.left = left]
<1>3. /\ At(e, {"known"}) /\ ex' = [ex EXCEPT ![e] = r]
      /\ UNCHANGED <<link, quote, strip, moves, together, unlisted>>
      /\ NewsAside /\ TakenAside
  BY <1>2 DEF Retire
<1>4. left \subseteq Thing /\ \A f \in ex[e].known : f[2] \notin left
  <2>1. \A f \in Row : Tells(f) \subseteq Thing
    BY Rows, MemoryAssumption DEF Tells, IInv, TypeOK, RowsOK
  <2>2. things \subseteq Thing
    BY <2>1, RequestType, MemoryAssumption DEF Readings, IInv, TypeOK, RowsOK
  <2> QED
    BY <2>2 DEF Unseen
<1>5. r \in Request /\ r.at = "facts" /\ r.news = ex[e].news /\ r.left = left
  BY <1>4, RequestType DEF IInv, Request, Stages
<1> HIDE DEF r
<1>6. ex'[e] = r /\ \A o \in Exchange \ {e} : ex'[o] = ex[o]
  BY <1>3 DEF IInv, TypeOK
<1>7. /\ row' \in [Row -> States]
      /\ Kept' = Kept /\ Live' \subseteq Live /\ LiveFacts' \subseteq LiveFacts
      /\ \A q \in Row : row'[q] = "none" <=> row[q] = "none"
  <2> PICK S : S = old \cap Kept
    OBVIOUS
  <2> QED
    BY <1>1, Retired
<1>8. TypeOK'
  BY <1>3, <1>5, <1>7
     DEF IInv, TypeOK, RowsOK, NewsOK, HistoryOK, NewsAside, TakenAside
<1>9. BriefingsSound' /\ NewsReachesHim'
  BY <1>3, <1>5, <1>6, NewsFrame DEF At
<1>10. \A o \in Exchange : Reading(o)' <=> Reading(o)
  BY <1>3, <1>5, <1>6 DEF Reading, At
<1>11. UNCHANGED <<together, restored, unlisted>>
  BY <1>3 DEF TakenAside
<1>12. ReadingsSound'
  <2>1. ASSUME NEW o \in Exchange, NEW f \in LiveFacts', Of(f) # o
        PROVE  /\ At(o, {"known"})' /\ f \notin ex'[o].known =>
                     Excused(o, f)'
               /\ At(o, {"facts"})' /\ f[2] \in ex'[o].left => Excused(o, f)'
    <3>1. CASE o = e
      <4>1. f \in LiveFacts
        BY <1>7, <2>1
      <4>2. f \notin ex[e].known => Excused(e, f)
        BY <1>3, <2>1, <3>1, <4>1 DEF IInv, ReadingsSound
      <4>3. Excused(e, f)' <=> Excused(e, f)
        BY <1>11 DEF Excused
      <4>4. f \in ex[e].known => f[2] \notin left
        BY <1>4
      <4> QED
        BY <1>5, <1>6, <3>1, <4>2, <4>3, <4>4 DEF At
    <3>2. CASE o # e
      BY <1>6, <1>7, <1>11, <2>1, <3>2 DEF IInv, ReadingsSound, At, Excused
    <3> QED
      BY <3>1, <3>2
  <2>2. \A o, p \in Exchange : o # p /\ Reading(o)' /\ Reading(p)' =>
           {o, p} \subseteq together'
    BY <1>10, <1>11 DEF IInv, ReadingsSound
  <2> QED
    BY <2>1, <2>2 DEF ReadingsSound
<1>13. NoTwins'
  BY <1>7, <1>11 DEF IInv, NoTwins
<1>14. \A o \in Exchange :
          /\ ~At(o, {"new", "gathered"}) => ~At(o, {"new", "gathered"})'
          /\ Learning(o)' => Learning(o)
  BY <1>3, <1>5, <1>6 DEF At, Learning
<1>15. LinksSound'
  BY <1>3, <1>7, <1>14, LinksFrame
<1>16. UNCHANGED <<forgot, tardy, loose, strip, link>>
  BY <1>3 DEF TakenAside
<1>17. LearnersSound'
  BY <1>7, <1>14, <1>16 DEF IInv, LearnersSound, TypeOK, HistoryOK
<1>18. ForgottenStaysForgotten' /\ DeletedLeavesNoReference'
  BY <1>7, <1>16 DEF IInv, ForgottenStaysForgotten, DeletedLeavesNoReference
<1> QED
  BY <1>8, <1>9, <1>12, <1>13, <1>15, <1>17, <1>18 DEF IInv

LEMMA StoreFactStep ==
    ASSUME IInv, NEW e \in Exchange, StoreFact(e)
    PROVE  IInv'
<1>1. PICK x \in ex[e].left :
         /\ row' = [row EXCEPT ![<<e, x>>] = "live"]
         /\ link' = [link EXCEPT ![<<e, x>>] = {Said(e)}]
         /\ ex' = [ex EXCEPT ![e].left = @ \ {x}]
  BY DEF StoreFact
<1> PICK f : f = <<e, x>>
  OBVIOUS
<1> PICK s : s = Said(e)
  OBVIOUS
<1> DEFINE r == [ex[e] EXCEPT !.left = @ \ {x}]
<1>2. /\ At(e, {"facts"}) /\ ex' = [ex EXCEPT ![e] = r]
      /\ row' = [row EXCEPT ![f] = "live"] /\ link' = [link EXCEPT ![f] = {s}]
      /\ UNCHANGED <<quote, strip, moves, together, unlisted>>
      /\ NewsAside /\ TakenAside
  BY <1>1 DEF StoreFact
<1>3. /\ r \in Request /\ r.at = ex[e].at /\ r.news = ex[e].news
      /\ r.left \subseteq ex[e].left /\ x \in Thing
  BY RequestType DEF IInv, Request, Stages
<1> HIDE DEF r
<1>4. ex'[e] = r /\ \A o \in Exchange \ {e} : ex'[o] = ex[o]
  BY <1>2 DEF IInv, TypeOK
<1>5. /\ f \in Row /\ Of(f) = e /\ f[2] = x /\ f # s
      /\ s \in Row /\ Of(s) = e
  BY <1>3, Rows
<1>6. /\ row' \in [Row -> States] /\ link' \in [Row -> SUBSET Row]
      /\ row'[f] = "live" /\ link'[f] = {s}
      /\ \A q \in Row : q # f => row'[q] = row[q] /\ link'[q] = link[q]
  BY <1>2, <1>5 DEF IInv, TypeOK, RowsOK, States
<1>7. /\ Kept' = Kept \cup {f} /\ Live' = Live \cup {f}
      /\ LiveFacts' = LiveFacts \cup {f}
  BY <1>3, <1>5, <1>6 DEF Kept, Live, Expired, LiveFacts
<1>8. TypeOK'
  BY <1>2, <1>3, <1>6
     DEF IInv, TypeOK, RowsOK, NewsOK, HistoryOK, NewsAside, TakenAside
<1>9. BriefingsSound' /\ NewsReachesHim'
  BY <1>2, <1>3, <1>4, NewsFrame
<1>10. /\ \A o \in Exchange : ex'[o].at = ex[o].at
       /\ UNCHANGED <<together, restored, unlisted, forgot, tardy, loose, strip>>
  BY <1>2, <1>3, <1>4 DEF TakenAside
<1>11. Reading(e) /\ Learning(e)
  BY <1>2 DEF Reading, Learning, At
<1>12. ReadingsSound'
  <2>1. ASSUME NEW o \in Exchange, NEW q \in LiveFacts', Of(q) # o
        PROVE  /\ At(o, {"known"})' /\ q \notin ex'[o].known =>
                     Excused(o, q)'
               /\ At(o, {"facts"})' /\ q[2] \in ex'[o].left => Excused(o, q)'
    <3>1. CASE q = f
      <4>1. Reading(o) => Excused(o, q)
        BY <1>5, <1>11, <2>1, <3>1 DEF IInv, ReadingsSound, Excused
      <4> QED
        BY <1>10, <4>1 DEF Reading, At, Excused
    <3>2. CASE q # f /\ o = e
      <4>1. q \in LiveFacts
        BY <1>7, <3>2
      <4>2. q[2] \in ex[e].left => Excused(e, q)
        BY <1>2, <2>1, <3>2, <4>1 DEF IInv, ReadingsSound
      <4> QED
        BY <1>2, <1>3, <1>4, <1>10, <3>2, <4>2 DEF At, Excused
    <3>3. CASE q # f /\ o # e
      <4>1. q \in LiveFacts /\ ex'[o] = ex[o]
        BY <1>4, <1>7, <3>3
      <4> QED
        BY <1>10, <2>1, <4>1 DEF IInv, ReadingsSound, At, Excused
    <3> QED
      BY <3>1, <3>2, <3>3
  <2>2. \A o, p \in Exchange : o # p /\ Reading(o)' /\ Reading(p)' =>
           {o, p} \subseteq together'
    BY <1>10 DEF IInv, ReadingsSound, Reading, At
  <2> QED
    BY <2>1, <2>2 DEF ReadingsSound
<1>13. NoTwins'
  <2>1. ASSUME NEW q \in LiveFacts, q # f, q[2] = x
        PROVE  \/ {e, Of(q)} \subseteq together \/ x \in restored
               \/ q \in unlisted[e]
    <3>1. Of(q) # e
      BY <1>5, <2>1, Rows, KeptIs
    <3> QED
      BY <1>2, <2>1, <3>1 DEF IInv, ReadingsSound, Excused
  <2>2. ASSUME NEW q \in LiveFacts', NEW p \in LiveFacts', q # p, q[2] = p[2]
        PROVE  \/ {Of(q), Of(p)} \subseteq together \/ q[2] \in restored
               \/ q \in unlisted[Of(p)] \/ p \in unlisted[Of(q)]
    <3>1. CASE q = f
      BY <1>5, <1>7, <2>1, <2>2, <3>1
    <3>2. CASE p = f
      BY <1>5, <1>7, <2>1, <2>2, <3>2
    <3>3. CASE q # f /\ p # f
      BY <1>7, <2>2, <3>3 DEF IInv, NoTwins
    <3> QED
      BY <3>1, <3>2, <3>3
  <2> QED
    BY <1>10, <2>2 DEF NoTwins
<1>14. LinksSound'
  <2>1. \A p \in Row : \A t \in link'[p] : Of(t) = Of(p)
    BY <1>5, <1>6 DEF IInv, LinksSound
  <2>2. \A p \in Row : row'[p] # "none" => ~At(Of(p), {"new", "gathered"})'
    <3>1. ~At(e, {"new", "gathered"})'
      BY <1>2, <1>3, <1>4 DEF At
    <3>2. \A p \in Row : p # f /\ row[p] # "none" =>
             ~At(Of(p), {"new", "gathered"})'
      BY <1>10, Rows DEF IInv, LinksSound, At
    <3> QED
      BY <1>5, <1>6, <3>1, <3>2
  <2>3. \A p \in Kept' : Said(Of(p)) \in Kept' /\ p # Said(Of(p)) =>
                            Said(Of(p)) \in link'[p]
    <3> SUFFICES ASSUME NEW p \in Kept, p # f, Said(Of(p)) \in Kept',
                        p # Said(Of(p))
                 PROVE  Said(Of(p)) \in link'[p]
      BY <1>5, <1>6, <1>7
    <3>1. p \in Row /\ Of(p) \in Exchange
      BY KeptIs, Rows
    <3>2. Said(Of(p)) # f
      BY <1>3, <1>5, <3>1, Rows
    <3> QED
      BY <1>6, <1>7, <3>1, <3>2 DEF IInv, LinksSound
  <2> QED
    BY <2>1, <2>2, <2>3 DEF LinksSound
<1>15. LearnersSound'
  <2>1. \A o \in Exchange : /\ Learning(o)' <=> Learning(o)
                            /\ At(o, {"new", "gathered"})' <=>
                                  At(o, {"new", "gathered"})
    BY <1>10 DEF Learning, At
  <2> QED
    BY <1>7, <1>10, <2>1 DEF IInv, LearnersSound, TypeOK, HistoryOK
<1>16. ForgottenStaysForgotten'
  BY <1>3, <1>5, <1>7, <1>10, <1>11
     DEF IInv, LearnersSound, ForgottenStaysForgotten
<1>17. DeletedLeavesNoReference'
  <2> SUFFICES ASSUME ~strip, NEW p \in Kept'
               PROVE  link'[p] \subseteq Kept' \/ Of(p) \in tardy \cup loose
    BY <1>10 DEF DeletedLeavesNoReference
  <2>1. CASE p = f
    BY <1>5, <1>6, <1>7, <1>11, <2>1 DEF IInv, LearnersSound
  <2>2. CASE p # f
    <3>1. p \in Kept /\ p \in Row
      BY <1>7, <2>2, KeptIs
    <3> QED
      BY <1>6, <1>7, <2>2, <3>1 DEF IInv, DeletedLeavesNoReference
  <2> QED
    BY <2>1, <2>2
<1> QED
  BY <1>8, <1>9, <1>12, <1>13, <1>14, <1>15, <1>16, <1>17 DEF IInv
-----------------------------------------------------------------------------
(* The owner and his memories *)

\* A tap changes rows, and what is known of those taken back.
TapAside == UNCHANGED <<quote, ex, together, unlisted>> /\ NewsAside

LEMMA TapFrame ==
    ASSUME IInv, TapAside, restored \subseteq restored',
           LiveFacts' \subseteq LiveFacts
    PROVE  BriefingsSound' /\ NewsReachesHim' /\ ReadingsSound' /\ NoTwins'
<1>1. ex' = ex /\ together' = together /\ unlisted' = unlisted /\ NewsAside
  BY DEF TapAside
<1>2. BriefingsSound' /\ NewsReachesHim'
  BY <1>1, NewsFrame
<1>3. ReadingsSound' /\ NoTwins'
  BY <1>1, ReadFrame
<1> QED
  BY <1>2, <1>3

LEMMA ForgetStep ==
    ASSUME IInv, NEW r \in Row, Forget(r)
    PROVE  IInv'
<1> PICK S : S = WholeExchange(r)
  OBVIOUS
<1> PICK es : es = ByMessage(r)
  OBVIOUS
<1>1. /\ row' = [q \in Row |-> IF q \in S THEN "forgotten" ELSE row[q]]
      /\ forgot' = forgot \cup es
      /\ tardy' = tardy \cup {e \in es : Learning(e)}
      /\ UNCHANGED <<link, strip, restored, loose>> /\ TapAside
  BY DEF Forget, TakenBack, TapAside
<1>2. S \subseteq Kept
  BY WholeIs DEF IInv
<1>3. /\ row' \in [Row -> States]
      /\ Kept' = Kept /\ Live' = Live \ S /\ LiveFacts' \subseteq LiveFacts
      /\ \A q \in Row : row'[q] = "none" <=> row[q] = "none"
  BY <1>1, <1>2, Retired
<1>4. \A e \in es : /\ e \in Exchange /\ ~At(e, {"new", "gathered"})
                    /\ \A q \in Kept : Of(q) = e => q \in S
  <2> SUFFICES ASSUME NEW e \in es
               PROVE  /\ e \in Exchange /\ ~At(e, {"new", "gathered"})
                      /\ \A q \in Kept : Of(q) = e => q \in S
    OBVIOUS
  <2>1. e \in Exchange /\ r = Said(e) /\ Said(e) \in Kept
    BY DEF ByMessage
  <2>2. \A q \in Kept : Of(q) = e => q \in S
    BY <2>1, WholeByMessage DEF IInv
  <2>3. row[Said(e)] # "none"
    BY <2>1, KeptIs
  <2> QED
    BY <2>1, <2>2, <2>3, Rows DEF IInv, LinksSound
<1>5. es \subseteq Exchange
  BY <1>4
<1>6. TypeOK'
  BY <1>1, <1>3, <1>5
     DEF IInv, TypeOK, RowsOK, NewsOK, HistoryOK, TapAside, NewsAside
<1>7. BriefingsSound' /\ NewsReachesHim' /\ ReadingsSound' /\ NoTwins'
  BY <1>1, <1>3, TapFrame
<1>8. \A e \in Exchange : /\ At(e, {"new", "gathered"})' <=>
                                At(e, {"new", "gathered"})
                          /\ Learning(e)' <=> Learning(e)
  BY <1>1 DEF At, Learning, TapAside
<1>9. LinksSound'
  BY <1>1, <1>3, <1>8, LinksFrame
<1>10. LearnersSound'
  BY <1>1, <1>3, <1>4, <1>8 DEF IInv, LearnersSound, TypeOK, HistoryOK
<1>11. ForgottenStaysForgotten'
  <2> SUFFICES ASSUME NEW q \in Live', Of(q) \in forgot'
               PROVE  q[2] \in Thing /\ Of(q) \in tardy'
    BY DEF ForgottenStaysForgotten
  <2>1. q \in Live /\ q \in Kept /\ q \notin S
    BY <1>3, KeptIs
  <2> QED
    BY <1>1, <1>4, <2>1 DEF IInv, ForgottenStaysForgotten
<1>12. DeletedLeavesNoReference'
  BY <1>1, <1>3 DEF IInv, DeletedLeavesNoReference
<1> QED
  BY <1>6, <1>7, <1>9, <1>10, <1>11, <1>12 DEF IInv

LEMMA ForgetAllStep ==
    ASSUME IInv, ForgetAll
    PROVE  IInv'
<1> PICK S : S = Live
  OBVIOUS
<1> PICK es : es = {Of(q) : q \in Kept}
  OBVIOUS
<1>1. /\ row' = [q \in Row |-> IF q \in S THEN "forgotten" ELSE row[q]]
      /\ forgot' = forgot \cup es
      /\ tardy' = tardy \cup {e \in es : Learning(e)}
      /\ UNCHANGED <<link, strip, restored, loose>> /\ TapAside
  BY DEF ForgetAll, TakenBack, TapAside
<1>2. S \subseteq Kept
  BY KeptIs
<1>3. /\ row' \in [Row -> States]
      /\ Kept' = Kept /\ Live' = {} /\ LiveFacts' \subseteq LiveFacts
      /\ \A q \in Row : row'[q] = "none" <=> row[q] = "none"
  BY <1>1, <1>2, Retired
<1>4. \A e \in es : e \in Exchange /\ ~At(e, {"new", "gathered"})
  <2> SUFFICES ASSUME NEW q \in Kept
               PROVE  Of(q) \in Exchange /\ ~At(Of(q), {"new", "gathered"})
    OBVIOUS
  <2> QED
    BY KeptIs, Rows DEF IInv, LinksSound
<1>5. es \subseteq Exchange
  BY <1>4
<1>6. TypeOK'
  BY <1>1, <1>3, <1>5
     DEF IInv, TypeOK, RowsOK, NewsOK, HistoryOK, TapAside, NewsAside
<1>7. BriefingsSound' /\ NewsReachesHim' /\ ReadingsSound' /\ NoTwins'
  BY <1>1, <1>3, TapFrame
<1>8. \A e \in Exchange : /\ At(e, {"new", "gathered"})' <=>
                                At(e, {"new", "gathered"})
                          /\ Learning(e)' <=> Learning(e)
  BY <1>1 DEF At, Learning, TapAside
<1>9. LinksSound'
  BY <1>1, <1>3, <1>8, LinksFrame
<1>10. LearnersSound'
  BY <1>1, <1>3, <1>4, <1>8 DEF IInv, LearnersSound, TypeOK, HistoryOK
<1>11. ForgottenStaysForgotten'
  BY <1>3 DEF ForgottenStaysForgotten
<1>12. DeletedLeavesNoReference'
  BY <1>1, <1>3 DEF IInv, DeletedLeavesNoReference
<1> QED
  BY <1>6, <1>7, <1>9, <1>10, <1>11, <1>12 DEF IInv

LEMMA RestoreStep ==
    ASSUME IInv, NEW r \in Row, Restore(r)
    PROVE  IInv'
<1> PICK S : S = WholeExchange(r)
  OBVIOUS
<1>1. /\ row' = [q \in Row |-> IF q \in S THEN "live" ELSE row[q]]
      /\ forgot' = forgot \ {Of(q) : q \in S}
      /\ restored' = restored \cup {q[2] : q \in {p \in S : p[2] \in Thing}}
      /\ UNCHANGED <<link, strip, tardy, loose>> /\ TapAside
  BY DEF Restore, TapAside
<1>2. S \subseteq Kept
  BY WholeIs DEF IInv
<1>3. /\ row' \in [Row -> States]
      /\ Kept' = Kept /\ Live' = Live \cup S
      /\ \A q \in Row : row'[q] = "none" <=> row[q] = "none"
      /\ \A q \in LiveFacts' : q \in LiveFacts \/ q[2] \in restored'
  <2>1. row' \in [Row -> States]
    BY <1>1 DEF IInv, TypeOK, RowsOK, States
  <2>2. \A q \in Row : q \in S => row[q] \in {"live", "forgotten"}
    BY <1>2, KeptIs
  <2>3. Kept' = Kept /\ Live' = Live \cup S
    BY <1>1, <1>2, <2>2 DEF Kept, Live, Expired
  <2>4. \A q \in LiveFacts' : q \in LiveFacts \/ q[2] \in restored'
    BY <1>1, <2>3 DEF LiveFacts
  <2>5. \A q \in Row : row'[q] = "none" <=> row[q] = "none"
    BY <1>1, <2>2
  <2> QED
    BY <2>1, <2>3, <2>4, <2>5
<1>4. TypeOK'
  BY <1>1, <1>3
     DEF IInv, TypeOK, RowsOK, NewsOK, HistoryOK, TapAside, NewsAside
<1>5. BriefingsSound' /\ NewsReachesHim'
  BY <1>1, NewsFrame DEF TapAside
<1>6. /\ ex' = ex /\ together' = together /\ unlisted' = unlisted
      /\ restored \subseteq restored'
  BY <1>1 DEF TapAside
<1>7. ReadingsSound'
  BY <1>3, <1>6 DEF IInv, ReadingsSound, Reading, At, Excused
<1>8. NoTwins'
  BY <1>3, <1>6 DEF IInv, NoTwins
<1>9. \A e \in Exchange : /\ At(e, {"new", "gathered"})' <=>
                                At(e, {"new", "gathered"})
                          /\ Learning(e)' <=> Learning(e)
  BY <1>6 DEF At, Learning
<1>10. LinksSound'
  BY <1>1, <1>3, <1>9, LinksFrame
<1>11. LearnersSound'
  BY <1>1, <1>3, <1>9 DEF IInv, LearnersSound, TypeOK, HistoryOK
<1>12. ForgottenStaysForgotten'
  BY <1>1, <1>3 DEF IInv, ForgottenStaysForgotten
<1>13. DeletedLeavesNoReference'
  BY <1>1, <1>3 DEF IInv, DeletedLeavesNoReference
<1> QED
  BY <1>4, <1>5, <1>7, <1>8, <1>10, <1>11, <1>12, <1>13 DEF IInv

\* What erasing rows does to the others.
LEMMA Erased ==
    ASSUME IInv, NEW S \in SUBSET Kept,
           row' = [q \in Row |-> IF q \in S THEN "gone" ELSE row[q]],
           link' = [q \in Row |-> IF q \in S THEN {} ELSE link[q]],
           UNCHANGED ex
    PROVE  /\ row' \in [Row -> States] /\ link' \in [Row -> SUBSET Row]
           /\ Kept' = Kept \ S /\ Live' = Live \ S /\ LiveFacts' \subseteq LiveFacts
           /\ \A q \in Kept' : link'[q] = link[q]
           /\ LinksSound'
<1>1. row' \in [Row -> States] /\ link' \in [Row -> SUBSET Row]
  BY DEF IInv, TypeOK, RowsOK, States
<1>2. \A q \in Row : /\ row'[q] = IF q \in S THEN "gone" ELSE row[q]
                     /\ link'[q] = IF q \in S THEN {} ELSE link[q]
  OBVIOUS
<1>3. /\ Kept' = Kept \ S /\ Live' = Live \ S /\ LiveFacts' \subseteq LiveFacts
      /\ \A q \in Kept' : link'[q] = link[q]
  BY <1>2 DEF Kept, Live, Expired, LiveFacts
<1>4. LinksSound'
  <2>1. \A q \in Row : \A p \in link'[q] : Of(p) = Of(q)
    BY <1>2 DEF IInv, LinksSound
  <2>2. \A q \in Row : row'[q] # "none" => ~At(Of(q), {"new", "gathered"})'
    <3>1. \A q \in Row : row'[q] # "none" => row[q] # "none"
      BY <1>2, KeptIs
    <3> QED
      BY <3>1 DEF IInv, LinksSound, At
  <2>3. \A q \in Kept' : Said(Of(q)) \in Kept' /\ q # Said(Of(q)) =>
                            Said(Of(q)) \in link'[q]
    BY <1>3 DEF IInv, LinksSound
  <2> QED
    BY <2>1, <2>2, <2>3 DEF LinksSound
<1> QED
  BY <1>1, <1>3, <1>4

LEMMA DeleteStep ==
    ASSUME IInv, NEW r \in Row, Delete(r)
    PROVE  IInv'
<1> PICK S : S = WholeExchange(r)
  OBVIOUS
<1> PICK es : es = ByMessage(r)
  OBVIOUS
<1>1. /\ row' = [q \in Row |-> IF q \in S THEN "gone" ELSE row[q]]
      /\ link' = [q \in Row |-> IF q \in S THEN {} ELSE link[q]]
      /\ strip' = TRUE /\ forgot' = forgot \cup es
      /\ tardy' = tardy \cup {e \in Exchange : Said(e) \in S /\ Learning(e)}
      /\ UNCHANGED <<restored, loose>> /\ TapAside
  BY DEF Delete, TapAside
<1>2. S \subseteq Kept /\ ex' = ex
  BY <1>1, WholeIs DEF IInv, TapAside
<1>3. /\ row' \in [Row -> States] /\ link' \in [Row -> SUBSET Row]
      /\ Kept' = Kept \ S /\ Live' = Live \ S /\ LiveFacts' \subseteq LiveFacts
      /\ LinksSound'
  BY <1>1, <1>2, Erased
<1>4. \A e \in es : /\ e \in Exchange /\ ~At(e, {"new", "gathered"})
                    /\ Said(e) \in S
                    /\ \A q \in Kept : Of(q) = e => q \in S
  <2> SUFFICES ASSUME NEW e \in es
               PROVE  /\ e \in Exchange /\ ~At(e, {"new", "gathered"})
                      /\ Said(e) \in S
                      /\ \A q \in Kept : Of(q) = e => q \in S
    OBVIOUS
  <2>1. e \in Exchange /\ r = Said(e) /\ Said(e) \in Kept
    BY DEF ByMessage
  <2>2. \A q \in Kept : Of(q) = e => q \in S
    BY <2>1, WholeByMessage DEF IInv
  <2>3. row[Said(e)] # "none"
    BY <2>1, KeptIs
  <2> QED
    BY <2>1, <2>2, <2>3, Rows DEF IInv, LinksSound
<1>5. es \subseteq Exchange
  BY <1>4
<1>6. TypeOK'
  <2>1. strip' \in BOOLEAN
    BY <1>1
  <2> QED
    BY <1>1, <1>3, <1>5, <2>1
       DEF IInv, TypeOK, RowsOK, NewsOK, HistoryOK, TapAside, NewsAside
<1>7. BriefingsSound' /\ NewsReachesHim' /\ ReadingsSound' /\ NoTwins'
  BY <1>1, <1>3, TapFrame
<1>8. \A e \in Exchange : /\ At(e, {"new", "gathered"})' <=>
                                At(e, {"new", "gathered"})
                          /\ Learning(e)' <=> Learning(e)
  BY <1>2 DEF At, Learning
<1>9. LearnersSound'
  BY <1>1, <1>3, <1>4, <1>8 DEF IInv, LearnersSound, TypeOK, HistoryOK
<1>10. ForgottenStaysForgotten'
  <2> SUFFICES ASSUME NEW q \in Live', Of(q) \in forgot'
               PROVE  q[2] \in Thing /\ Of(q) \in tardy'
    BY DEF ForgottenStaysForgotten
  <2>1. q \in Live /\ q \in Kept /\ q \notin S
    BY <1>3, KeptIs
  <2> QED
    BY <1>1, <1>4, <2>1 DEF IInv, ForgottenStaysForgotten
<1>11. DeletedLeavesNoReference'
  BY <1>1 DEF DeletedLeavesNoReference
<1> QED
  BY <1>3, <1>6, <1>7, <1>9, <1>10, <1>11 DEF IInv

LEMMA PurgeStep ==
    ASSUME IInv, Purge
    PROVE  IInv'
<1> PICK S : S = Expired
  OBVIOUS
<1>1. /\ row' = [q \in Row |-> IF q \in S THEN "gone" ELSE row[q]]
      /\ link' = [q \in Row |-> IF q \in S THEN {} ELSE link[q]]
      /\ loose' = loose \cup {Of(q) : q \in S}
      /\ UNCHANGED <<restored, strip, forgot, tardy>> /\ TapAside
  BY DEF Purge, TapAside
<1>2. S \subseteq Kept /\ ex' = ex
  BY <1>1 DEF TapAside, Kept
<1>3. /\ row' \in [Row -> States] /\ link' \in [Row -> SUBSET Row]
      /\ Kept' = Kept \ S /\ Live' = Live \ S /\ LiveFacts' \subseteq LiveFacts
      /\ \A q \in Kept' : link'[q] = link[q]
      /\ LinksSound'
  BY <1>1, <1>2, Erased
<1>4. \A q \in S : Of(q) \in Exchange
  BY <1>2, KeptIs, Rows
<1>5. TypeOK'
  BY <1>1, <1>3, <1>4
     DEF IInv, TypeOK, RowsOK, NewsOK, HistoryOK, TapAside, NewsAside
<1>6. BriefingsSound' /\ NewsReachesHim' /\ ReadingsSound' /\ NoTwins'
  BY <1>1, <1>3, TapFrame
<1>7. \A e \in Exchange : /\ At(e, {"new", "gathered"})' <=>
                                At(e, {"new", "gathered"})
                          /\ Learning(e)' <=> Learning(e)
  BY <1>2 DEF At, Learning
<1>8. LearnersSound'
  <2>1. \A e \in Exchange : Said(e) \in Kept => Said(e) \in Kept' \/ e \in loose'
    BY <1>1, <1>3, Rows
  <2>2. \A e \in Exchange : Learning(e)' =>
           Said(e) \in Kept' \/ e \in tardy' \cup loose'
    BY <1>1, <1>7, <2>1 DEF IInv, LearnersSound
  <2>3. \A e \in forgot' : /\ ~At(e, {"new", "gathered"})'
                           /\ Learning(e)' => e \in tardy'
    BY <1>1, <1>7 DEF IInv, LearnersSound, TypeOK, HistoryOK
  <2> QED
    BY <2>2, <2>3 DEF LearnersSound
<1>9. ForgottenStaysForgotten'
  BY <1>1, <1>3 DEF IInv, ForgottenStaysForgotten
<1>10. DeletedLeavesNoReference'
  <2> SUFFICES ASSUME ~strip, NEW q \in Kept', Of(q) \notin tardy \cup loose',
                      NEW p \in link[q]
               PROVE  p \in Kept'
    BY <1>1, <1>3 DEF DeletedLeavesNoReference
  <2>1. q \in Kept /\ q \in Row /\ Of(q) \notin tardy \cup loose
    BY <1>1, <1>3, KeptIs
  <2>2. p \in Kept
    BY <2>1 DEF IInv, DeletedLeavesNoReference
  <2>3. Of(p) = Of(q)
    BY <2>1 DEF IInv, LinksSound
  <2> QED
    BY <1>1, <1>3, <2>2, <2>3
<1> QED
  BY <1>3, <1>5, <1>6, <1>8, <1>9, <1>10 DEF IInv

\* The second statement of a deletion takes every dangling reference away.
LEMMA StripStep ==
    ASSUME IInv, Strip
    PROVE  IInv'
<1>1. /\ strip' = FALSE /\ link' = [q \in Row |-> link[q] \cap Kept]
      /\ UNCHANGED <<row, forgot, tardy, loose, restored>> /\ TapAside
  BY DEF Strip, Stripped, TapAside, TakenAside
<1>2. UNCHANGED <<Kept, Live, LiveFacts>> /\ ex' = ex
  BY <1>1 DEF Kept, Live, Expired, LiveFacts, TapAside
<1>3. /\ link' \in [Row -> SUBSET Row]
      /\ \A q \in Row : link'[q] = link[q] \cap Kept
  BY <1>1 DEF IInv, TypeOK, RowsOK
<1>4. TypeOK'
  <2>1. strip' \in BOOLEAN
    BY <1>1
  <2> QED
    BY <1>1, <1>3, <2>1
       DEF IInv, TypeOK, RowsOK, NewsOK, HistoryOK, TapAside, NewsAside
<1>5. BriefingsSound' /\ NewsReachesHim' /\ ReadingsSound' /\ NoTwins'
  BY <1>1, <1>2, TapFrame
<1>6. \A e \in Exchange : /\ At(e, {"new", "gathered"})' <=>
                                At(e, {"new", "gathered"})
                          /\ Learning(e)' <=> Learning(e)
  BY <1>2 DEF At, Learning
<1>7. LinksSound'
  <2>1. \A q \in Kept : q \in Row
    BY KeptIs
  <2> QED
    BY <1>1, <1>2, <1>3, <1>6, <2>1, Rows DEF IInv, LinksSound
<1>8. LearnersSound'
  BY <1>1, <1>2, <1>6 DEF IInv, LearnersSound, TypeOK, HistoryOK
<1>9. ForgottenStaysForgotten'
  BY <1>1, <1>2 DEF IInv, ForgottenStaysForgotten
<1>10. DeletedLeavesNoReference'
  BY <1>2, <1>3, KeptIs DEF DeletedLeavesNoReference
<1> QED
  BY <1>4, <1>5, <1>7, <1>8, <1>9, <1>10 DEF IInv

LEMMA CrashStep ==
    ASSUME IInv, Crash
    PROVE  IInv'
<1>1. /\ ex' = [e \in Exchange |->
                  IF At(e, {"new", "done"}) THEN ex[e]
                  ELSE [Fresh EXCEPT !.at = "done"]]
      /\ strip' = FALSE
      /\ loose' = IF strip THEN Exchange ELSE loose
      /\ UNCHANGED <<together, unlisted, forgot, tardy, restored>>
      /\ RowsAside /\ NewsAside
  BY DEF Crash
<1>2. /\ [Fresh EXCEPT !.at = "done"] \in Request
      /\ [Fresh EXCEPT !.at = "done"].at = "done"
  <2>1. "done" \in Stages
    BY DEF Stages
  <2> QED
    BY <2>1, FreshType
<1>3. /\ ex' \in [Exchange -> Request]
      /\ \A e \in Exchange : \/ ex'[e] = ex[e] /\ ex'[e].at \in {"new", "done"}
                             \/ ex[e].at # "new" /\ ex'[e].at = "done"
  BY <1>1, <1>2 DEF IInv, TypeOK, At
<1>4. TypeOK'
  <2>1. strip' \in BOOLEAN
    BY <1>1
  <2>2. loose' \subseteq Exchange
    BY <1>1 DEF IInv, TypeOK, HistoryOK
  <2> QED
    BY <1>1, <1>3, <2>1, <2>2
       DEF IInv, TypeOK, RowsOK, NewsOK, HistoryOK, RowsAside, NewsAside
<1>5. BriefingsSound' /\ NewsReachesHim'
  BY <1>1, <1>3, NewsFrame
<1>6. UNCHANGED <<row, link, Kept, Live, LiveFacts>>
  BY <1>1 DEF RowsAside, Kept, Live, Expired, LiveFacts
<1>7. \A e \in Exchange :
         /\ ~Reading(e)' /\ ~Learning(e)'
         /\ ~At(e, {"new", "gathered"}) => ~At(e, {"new", "gathered"})'
  BY <1>3 DEF Reading, Learning, At
<1>8. ReadingsSound' /\ NoTwins'
  BY <1>1, <1>6, <1>7, ReadFrame
<1>9. LinksSound'
  BY <1>6, <1>7, LinksFrame
<1>10. LearnersSound'
  BY <1>1, <1>7 DEF IInv, LearnersSound, TypeOK, HistoryOK
<1>11. ForgottenStaysForgotten'
  BY <1>1, <1>6 DEF IInv, ForgottenStaysForgotten
<1>12. DeletedLeavesNoReference'
  <2>1. \A q \in Kept : Of(q) \in Exchange
    BY KeptIs, Rows
  <2> QED
    BY <1>1, <1>6, <2>1 DEF IInv, DeletedLeavesNoReference
<1> QED
  BY <1>4, <1>5, <1>8, <1>9, <1>10, <1>11, <1>12 DEF IInv

-----------------------------------------------------------------------------
(* The memories: theorems *)

LEMMA InitInv == Init => IInv
<1> SUFFICES ASSUME Init PROVE IInv
  OBVIOUS
<1>1. /\ \A r \in Row : row[r] = "none" /\ link[r] = {}
      /\ \A e \in Exchange : ex[e] = Fresh
      /\ finished = {} /\ forgot = {}
  BY DEF Init
<1>2. Kept = {} /\ Live = {} /\ LiveFacts = {}
  BY <1>1 DEF Kept, Live, Expired, LiveFacts
<1>3. Fresh.at = "new" /\ Fresh \in Request
  BY DEF Fresh, Request, Stages
<1>4. TypeOK
  <2>1. strip \in BOOLEAN
    BY Zenon DEF Init
  <2>2. news \in Seq(Work)
    BY DEF Init
  <2>3. missed \in [Ways -> SUBSET Work]
    BY DEF Init, Ways, Canned
  <2> QED
    BY <1>3, <2>1, <2>2, <2>3
       DEF Init, TypeOK, RowsOK, NewsOK, HistoryOK, States
<1>5. LinksSound
  BY <1>1, <1>2 DEF LinksSound
<1>6. LearnersSound
  BY <1>1, <1>3 DEF LearnersSound, Learning, At
<1>7. BriefingsSound
  BY <1>1, <1>3 DEF BriefingsSound, At
<1>8. ReadingsSound
  BY <1>1, <1>2, <1>3 DEF ReadingsSound, Reading, At
<1>9. ForgottenStaysForgotten /\ NoTwins /\ DeletedLeavesNoReference
  BY <1>2 DEF ForgottenStaysForgotten, NoTwins, DeletedLeavesNoReference
<1>10. NewsReachesHim
  BY <1>1 DEF NewsReachesHim
<1> QED
  BY <1>4, <1>5, <1>6, <1>7, <1>8, <1>9, <1>10 DEF IInv

LEMMA StutterStep ==
    ASSUME IInv, UNCHANGED vars
    PROVE  IInv'
<1>1. /\ UNCHANGED <<ex, strip, together, restored, unlisted>>
      /\ RowsAside /\ NewsAside /\ TakenAside
  BY DEF vars, RowsAside, NewsAside, TakenAside
<1>2. TypeOK'
  BY <1>1 DEF IInv, TypeOK, RowsOK, NewsOK, HistoryOK, RowsAside, NewsAside,
     TakenAside
<1>3. BriefingsSound' /\ NewsReachesHim'
  BY <1>1, NewsFrame
<1>4. ReadingsSound' /\ NoTwins'
  <2>1. UNCHANGED LiveFacts
    BY <1>1 DEF LiveFacts, Live, RowsAside
  <2> QED
    BY <1>1, <2>1, ReadFrame
<1>5. /\ LinksSound' /\ LearnersSound'
      /\ ForgottenStaysForgotten' /\ DeletedLeavesNoReference'
  BY <1>1, RowsFrame DEF At, Learning
<1> QED
  BY <1>2, <1>3, <1>4, <1>5 DEF IInv

\* However exchanges, their background learning, the owner's taps and crashes
\* interleave, what is left of an exchange points at its message while that is
\* there, and what escapes a tap was being learned.
THEOREM MemoryInvariant == Spec => []IInv
<1>1. IInv /\ [Next]_vars => IInv'
  <2> SUFFICES ASSUME IInv, [Next]_vars PROVE IInv'
    OBVIOUS
  <2>1. ASSUME NEW e \in Exchange, Converse(e) PROVE IInv'
    BY <2>1, GatherStep, RefuseStep, StoreStep, ListKnownStep, LearnNothingStep,
       RetireStep, StoreFactStep, LearnEndsStep, MarkSeenStep DEF Converse
  <2>2. ASSUME NEW w \in Work, Finish(w) PROVE IInv'
    BY <2>2, FinishStep
  <2>3. CASE Tap
    BY <2>3, ForgetStep, RestoreStep, DeleteStep, ForgetAllStep, PurgeStep
       DEF Tap
  <2>4. CASE Strip \/ Crash
    BY <2>4, StripStep, CrashStep
  <2>5. CASE UNCHANGED vars
    BY <2>5, StutterStep
  <2> QED
    BY <2>1, <2>2, <2>3, <2>4, <2>5 DEF Next
<1> QED
  BY InitInv, <1>1, PTL DEF Spec

\* Of an exchange the owner took back through his message nothing is recalled,
\* neither half nor a fact read out of it, but what was being learned just then
\* (forget_memory, delete_memory, forget_all, _WHOLE_EXCHANGE).
THEOREM ForgottenTheorem == Spec => []ForgottenStaysForgotten
<1>1. IInv => ForgottenStaysForgotten
  BY DEF IInv
<1> QED
  BY <1>1, MemoryInvariant, PTL

\* Two live facts that tell the same were learned by two exchanges at once, or
\* one was restored, or was left out of the list that the later exchange was
\* shown (learn_from_exchange, list_facts), whatever the limit of that list.
THEOREM NoTwinsTheorem == Spec => []NoTwins
<1>1. IInv => NoTwins
  BY DEF IInv
<1> QED
  BY <1>1, MemoryInvariant, PTL

\* After a deletion no memory refers to one that is gone, unless it was being
\* learned, or a purge or a crash came in between (delete_memory).
THEOREM DeletedTheorem == Spec => []DeletedLeavesNoReference
<1>1. IInv => DeletedLeavesNoReference
  BY DEF IInv
<1> QED
  BY <1>1, MemoryInvariant, PTL

\* Finished work is told or waits to be told, for any number of workflows and
\* any length of the briefing, unless it ended between a briefing and its mark,
\* was older than the latest few, or went to a message that no model answered:
\* one that opened a site or was handed to his device (recent_work, mark_seen).
THEOREM NewsTheorem == Spec => []NewsReachesHim
<1>1. IInv => NewsReachesHim
  BY DEF IInv
<1> QED
  BY <1>1, MemoryInvariant, PTL
=============================================================================
