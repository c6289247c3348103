------------------------------- MODULE Memory -------------------------------
(***************************************************************************)
(* memory.py, facts.py, the memories of routes/records.py and the path of  *)
(* one exchange through routes/message.py (typed) and routes/live.py       *)
(* (spoken): what is recalled, stored, learned in the background, forgotten*)
(* and erased, and the news that a briefing carries.                       *)
(*                                                                         *)
(*   gathered (history, facts and briefing read; the model is speaking)    *)
(*     -> stored (message and reply in one INSERT; the owner has his reply)*)
(*     -> known (facts held already were listed; a model reads the         *)
(*        exchange) -> facts (superseded ones retired, new ones stored one *)
(*        by one) -> mark (the news is marked as told) -> done             *)
(*                                                                         *)
(* A text is the set of things it tells.  A reply repeats what the owner   *)
(* told or its model was shown; a fact is one of those things.             *)
(***************************************************************************)
EXTENDS Integers, Sequences, FiniteSets

CONSTANTS
    Exchange,       \* exchanges (bound)
    Thing,          \* what can be said
    Says(_),        \* what the owner says in an exchange
    Kinds(_),       \* what it may be: "typed", "spoken", or answered without a
                    \* model: "opened" when browse.read knows the site that is
                    \* asked for, "device" when the shortcut on his device can
                    \* do it
    Work,           \* workflows that may come to an end
    ToldAtMost,     \* the limit of recent_work
    KnownAtMost,    \* the facts that learn_from_exchange lists
    MaxMoves        \* work that ends, what the owner does to his memories,
                    \* and crashes (bound)

\* Answered by a sentence of the program.
Canned == {"opened", "device"}
Heard == {"typed", "spoken"} \cup Canned

ASSUME MemoryAssumption ==
    /\ \A e \in Exchange : Says(e) \subseteq Thing /\ Kinds(e) \subseteq Heard
    /\ ToldAtMost \in Nat \ {0} /\ KnownAtMost \in Nat \ {0} /\ MaxMoves \in Nat
    /\ Thing \cap {"said", "reply"} = {}

\* Rows of memories: the two of an exchange, and the facts learned from it.
Row == Exchange \X (Thing \cup {"said", "reply"})
Said(e) == <<e, "said">>
Reply(e) == <<e, "reply">>
Of(r) == r[1]

VARIABLES
    row,        \* "none", "live", "forgotten" (expires_at has passed), "gone"
    link,       \* related_memory_ids
    quote,      \* what the reply of an exchange tells
    ex,         \* the request or turn, and its background tasks
    strip,      \* a delete_memory between its two statements
    finished,   \* workflows that have completed
    news,       \* those of them later than briefing_marks.last_seen_at
    moves,
    \* history
    told,       \* work in the briefing of a model whose reply he has got
    missed,     \* work that no model told, and how it came to that
    forgot,     \* exchanges he took back by way of his message, while it was
                \* there, or all at once
    tardy,      \* exchanges that were being learned from when taken back
    together,   \* exchanges that were learned from at once
    restored,   \* things that a restore brought back as facts
    unlisted,   \* facts that an exchange did not see, there being too many
    loose       \* exchanges purged, or deleted when the process died

vars == <<row, link, quote, ex, strip, finished, news, moves,
          told, missed, forgot, tardy, together, restored, unlisted, loose>>

Fresh == [at |-> "new", kind |-> "none", shown |-> {}, known |-> {}, left |-> {}, news |-> {}]

Init ==
    /\ row = [r \in Row |-> "none"]
    /\ link = [r \in Row |-> {}]
    /\ quote = [e \in Exchange |-> {}]
    /\ ex = [e \in Exchange |-> Fresh]
    /\ strip = FALSE
    /\ finished = {} /\ news = <<>>
    /\ moves = 0
    /\ told = {} /\ missed = [how \in {"late", "crowded"} \cup Canned |-> {}]
    /\ forgot = {} /\ tardy = {} /\ together = {} /\ restored = {} /\ loose = {}
    /\ unlisted = [e \in Exchange |-> {}]

-----------------------------------------------------------------------------
At(e, places) == ex[e].at \in places
Live == {r \in Row : row[r] = "live"}
Expired == {r \in Row : row[r] = "forgotten"}
Kept == Live \cup Expired

Tells(r) ==
    CASE r[2] = "said" -> Says(Of(r))
      [] r[2] = "reply" -> quote[Of(r)]
      [] OTHER -> {r[2]}

\* recall_turns: the conversation that is replayed.
RecalledTurns == UNION {Tells(r) : r \in {q \in Live : q[2] \notin Thing}}

\* list_facts
LiveFacts == {r \in Live : r[2] \in Thing}

\* recall_facts
RecalledFacts == UNION {Tells(r) : r \in LiveFacts}

Recalled == RecalledTurns \cup RecalledFacts

\* recent_work: the latest of them.
Briefing ==
    LET n == Len(news) IN
    {news[i] : i \in (IF n > ToldAtMost THEN n - ToldAtMost + 1 ELSE 1)..n}

Unheard == {news[i] : i \in DOMAIN news}

Learning(e) == At(e, {"stored", "known", "facts"})
Move == moves < MaxMoves /\ moves' = moves + 1
NewsAside == UNCHANGED <<finished, news, told, missed>>
RowsAside == UNCHANGED <<row, link, quote>>
TakenAside == UNCHANGED <<forgot, tardy, restored, loose>>

(* An exchange *)

\* Mutant: told when the briefing is built, not when the reply is out.
GatherAndMark(e) ==
    /\ At(e, {"new"})
    /\ \E k \in Kinds(e) :
          ex' = [ex EXCEPT ![e] = [Fresh EXCEPT !.at = "gathered", !.kind = k,
                                                !.shown = Recalled]]
    /\ news' = <<>>
    /\ UNCHANGED <<strip, finished, moves, told, missed, together, unlisted>>
    /\ RowsAside /\ TakenAside

\* The reads of one asyncio.gather, or of the page's call for the session.
Gather(e) ==
    /\ At(e, {"new"})
    /\ \E k \in Kinds(e) :
          ex' = [ex EXCEPT ![e] = [Fresh EXCEPT !.at = "gathered", !.kind = k,
                                                !.shown = Recalled, !.news = Briefing]]
    /\ missed' = [missed EXCEPT !["crowded"] = @ \cup (Unheard \ Briefing)]
    /\ UNCHANGED <<strip, finished, news, moves, told, together, unlisted>> /\ RowsAside /\ TakenAside

\* Stopped, no provider, no such attachment, or the model failed.
Refuse(e) ==
    /\ At(e, {"gathered"})
    /\ ex' = [ex EXCEPT ![e] = [Fresh EXCEPT !.at = "done"]]
    /\ UNCHANGED <<strip, moves, together, unlisted>> /\ RowsAside /\ NewsAside /\ TakenAside

\* store_exchange: both rows, each with the other's id, in one statement.
StoreExchange(e) ==
    /\ row' = [row EXCEPT ![Said(e)] = "live", ![Reply(e)] = "live"]
    /\ link' = [link EXCEPT ![Said(e)] = {Reply(e)}, ![Reply(e)] = {Said(e)}]

\* The model has answered, or a sentence with his own words in it, whoever
\* would have told the news; the reply goes out once it is stored.
Store(e) ==
    /\ At(e, {"gathered"})
    /\ \E q \in SUBSET (ex[e].shown \cup Says(e)) :
          /\ ex[e].kind \in Canned => q \subseteq Says(e)
          /\ quote' = [quote EXCEPT ![e] = q]
    /\ StoreExchange(e)
    /\ ex' = [ex EXCEPT ![e].at = "stored", ![e].shown = {}]
    /\ IF ex[e].kind \in Canned
          THEN /\ missed' = [missed EXCEPT ![ex[e].kind] = @ \cup ex[e].news]
               /\ UNCHANGED told
          ELSE /\ told' = told \cup ex[e].news
               /\ UNCHANGED missed
    /\ UNCHANGED <<strip, finished, news, moves, together, unlisted>> /\ TakenAside

\* What follows learning: a spoken exchange marks nothing.
AfterLearning(e) ==
    IF ex[e].kind # "spoken" /\ ex[e].news # {} THEN "mark" ELSE "done"

Learned(e) ==
    [ex EXCEPT ![e] = IF AfterLearning(e) = "mark"
                         THEN [@ EXCEPT !.at = "mark", !.known = {}, !.left = {}]
                         ELSE [Fresh EXCEPT !.at = "done"]]

\* list_facts with its limit: the latest ones (here any so many).
Listings ==
    IF Cardinality(LiveFacts) <= KnownAtMost THEN {LiveFacts}
    ELSE {some \in SUBSET LiveFacts : Cardinality(some) = KnownAtMost}

\* learn_from_exchange lists the facts it shows to the model, if the message
\* had a model at all.
ListKnown(e) ==
    /\ At(e, {"stored"}) /\ ex[e].kind # "opened"
    /\ \E known \in Listings :
          /\ ex' = [ex EXCEPT ![e].at = "known", ![e].known = known]
          /\ unlisted' = [unlisted EXCEPT ![e] = @ \cup (LiveFacts \ known)]
    /\ LET others == {o \in Exchange \ {e} : At(o, {"known", "facts"})} IN
       together' = IF others = {} THEN together ELSE together \cup others \cup {e}
    /\ UNCHANGED <<strip, moves>> /\ RowsAside /\ NewsAside /\ TakenAside

\* Switched off, no provider (a site was opened), or the model failed.
LearnNothing(e) ==
    /\ At(e, {"stored", "known"})
    /\ ex' = Learned(e)
    /\ UNCHANGED <<strip, moves, together, unlisted>> /\ RowsAside /\ NewsAside /\ TakenAside

\* Mutant: what the model says is stored as it comes.
AsItComes(things, known) == things

\* Never store a fact twice.
Unseen(things, known) == things \ {r[2] : r \in known}

\* What a model may read out of it: it sees the exchange and the known facts.
Readings(e) == SUBSET (quote[e] \cup Says(e) \cup UNION {Tells(r) : r \in ex[e].known})

\* The model has read it: the superseded facts among those it was shown
\* are retired in one UPDATE, whatever has become of them by now.
Retire(e) ==
    /\ At(e, {"known"})
    /\ \E old \in SUBSET ex[e].known :
          row' = [r \in Row |-> IF r \in old \cap Kept THEN "forgotten" ELSE row[r]]
    /\ \E things \in Readings(e) :
          ex' = [ex EXCEPT ![e].at = "facts", ![e].known = {},
                           ![e].left = Unseen(things, ex[e].known)]
    /\ UNCHANGED <<link, quote, strip, moves, together, unlisted>> /\ NewsAside /\ TakenAside

\* store_memory, linked to the message whether that still exists or not.
StoreFact(e) ==
    /\ At(e, {"facts"})
    /\ \E x \in ex[e].left :
          /\ row' = [row EXCEPT ![<<e, x>>] = "live"]
          /\ link' = [link EXCEPT ![<<e, x>>] = {Said(e)}]
          /\ ex' = [ex EXCEPT ![e].left = @ \ {x}]
    /\ UNCHANGED <<quote, strip, moves, together, unlisted>> /\ NewsAside /\ TakenAside

LearnEnds(e) ==
    /\ At(e, {"facts"}) /\ ex[e].left = {}
    /\ ex' = Learned(e)
    /\ UNCHANGED <<strip, moves, together, unlisted>> /\ RowsAside /\ NewsAside /\ TakenAside

MarkSeen(e) ==
    /\ At(e, {"mark"})
    /\ news' = <<>>
    /\ ex' = [ex EXCEPT ![e] = [Fresh EXCEPT !.at = "done"]]
    /\ UNCHANGED <<strip, finished, moves, told, missed, together, unlisted>>
    /\ RowsAside /\ TakenAside

\* A workflow completes.
Finish(w) ==
    /\ Move /\ w \notin finished
    /\ finished' = finished \cup {w}
    /\ news' = Append(news, w)
    /\ LET briefed == {e \in Exchange : ~At(e, {"new", "done"}) /\ ex[e].news # {}} IN
       missed' = [missed EXCEPT !["late"] = IF briefed = {} THEN @ ELSE @ \cup {w}]
    /\ UNCHANGED <<ex, strip, told, together, unlisted>> /\ RowsAside /\ TakenAside

(* The owner and his memories *)

\* Mutant: the half that was tapped.
ThatRow(r) == {q \in Kept : q = r}

\* _WHOLE_EXCHANGE
WholeExchange(r) == {q \in Kept : q = r \/ r \in link[q]}

TakenBack(es) ==
    /\ forgot' = forgot \cup es
    /\ tardy' = tardy \cup {e \in es : Learning(e)}

\* The exchange whose message this is, as long as it is there.
ByMessage(r) == {e \in Exchange : r = Said(e) /\ r \in Kept}

\* forget_memory
Forget(r) ==
    LET those == WholeExchange(r) IN
    /\ Move /\ those # {}
    /\ row' = [q \in Row |-> IF q \in those THEN "forgotten" ELSE row[q]]
    /\ TakenBack(ByMessage(r))
    /\ UNCHANGED <<link, quote, ex, strip, together, restored, unlisted, loose>> /\ NewsAside

\* restore_memory
Restore(r) ==
    LET those == WholeExchange(r) IN
    /\ Move /\ those # {}
    /\ row' = [q \in Row |-> IF q \in those THEN "live" ELSE row[q]]
    /\ forgot' = forgot \ {Of(q) : q \in those}
    /\ restored' = restored \cup {q[2] : q \in {p \in those : p[2] \in Thing}}
    /\ UNCHANGED <<link, quote, ex, strip, tardy, together, unlisted, loose>> /\ NewsAside

\* delete_memory, first statement (bound: one deletion at a time)
Delete(r) ==
    LET those == WholeExchange(r) IN
    /\ Move /\ those # {} /\ ~strip
    /\ row' = [q \in Row |-> IF q \in those THEN "gone" ELSE row[q]]
    /\ link' = [q \in Row |-> IF q \in those THEN {} ELSE link[q]]
    /\ strip' = TRUE
    /\ forgot' = forgot \cup ByMessage(r)
    /\ tardy' = tardy \cup {e \in Exchange : Said(e) \in those /\ Learning(e)}
    /\ UNCHANGED <<quote, ex, together, restored, unlisted, loose>> /\ NewsAside

\* Mutant: the ids of what was deleted stay where they are.
LinksAsTheyAre == link

\* delete_memory, second statement
Stripped == [q \in Row |-> link[q] \cap Kept]

Strip ==
    /\ strip
    /\ strip' = FALSE
    /\ link' = Stripped
    /\ UNCHANGED <<row, quote, ex, moves, together, unlisted>> /\ NewsAside /\ TakenAside

\* forget_all
ForgetAll ==
    /\ Move /\ Live # {}
    /\ row' = [q \in Row |-> IF q \in Live THEN "forgotten" ELSE row[q]]
    /\ TakenBack({Of(q) : q \in Kept})
    /\ UNCHANGED <<link, quote, ex, strip, together, restored, unlisted, loose>> /\ NewsAside

\* purge_forgotten; it strips nothing.
Purge ==
    LET those == Expired IN
    /\ Move /\ those # {}
    /\ row' = [q \in Row |-> IF q \in those THEN "gone" ELSE row[q]]
    /\ link' = [q \in Row |-> IF q \in those THEN {} ELSE link[q]]
    /\ loose' = loose \cup {Of(q) : q \in those}
    /\ UNCHANGED <<quote, ex, strip, forgot, tardy, together, restored, unlisted>> /\ NewsAside

\* The process dies, and what was in it.
Crash ==
    /\ Move
    /\ ex' = [e \in Exchange |->
                IF At(e, {"new", "done"}) THEN ex[e] ELSE [Fresh EXCEPT !.at = "done"]]
    /\ strip' = FALSE
    /\ loose' = IF strip THEN Exchange ELSE loose
    /\ UNCHANGED <<together, unlisted, forgot, tardy, restored>> /\ RowsAside /\ NewsAside

Tap ==
    \/ \E r \in Row : Forget(r) \/ Restore(r) \/ Delete(r)
    \/ ForgetAll \/ Purge

Converse(e) ==
    \/ Gather(e) \/ Refuse(e) \/ Store(e)
    \/ ListKnown(e) \/ LearnNothing(e) \/ Retire(e) \/ StoreFact(e) \/ LearnEnds(e)
    \/ MarkSeen(e)

Next ==
    \/ \E e \in Exchange : Converse(e)
    \/ \E w \in Work : Finish(w)
    \/ Tap \/ Strip \/ Crash

Spec == Init /\ [][Next]_vars

-----------------------------------------------------------------------------
(* Properties *)

\* "JARVIS will not recall this any more" (records.py:62): of an exchange
\* taken back through the owner's message nothing is recalled, neither half
\* nor a fact read out of it, unless the fact was being learned just then.
ForgottenStaysForgotten ==
    \A r \in Live : Of(r) \in forgot => r[2] \in Thing /\ Of(r) \in tardy

\* "Never store a fact twice" (facts.py:257): two live facts that tell the
\* same were learned by two exchanges at once, or one of them was restored, or
\* the older one was not among the facts the later exchange was shown, there
\* being more than the limit of the list.
NoTwins ==
    \A q, r \in LiveFacts :
        q # r /\ q[2] = r[2] => \/ {Of(q), Of(r)} \subseteq together
                                \/ q[2] \in restored
                                \/ q \in unlisted[Of(r)] \/ r \in unlisted[Of(q)]

\* "Leaving them behind would scatter references to rows that no longer
\* exist" (memory.py:215): after a deletion no memory refers to one that is
\* gone, unless it was being learned meanwhile, or a purge, which strips
\* nothing, or a crash came in between.
DeletedLeavesNoReference ==
    ~strip => \A r \in Kept : link[r] \subseteq Kept \/ Of(r) \in tardy \cup loose

\* Finished work is told to the owner, or still waits to be told
\* (status.py:mark_seen), unless it ended between a briefing and its mark, was
\* older than the latest few, or the briefing went to a message that no model
\* answered: one that opened a site, or one handed to his device.
NewsReachesHim ==
    finished \subseteq Unheard \cup told \cup UNION {missed[how] : how \in DOMAIN missed}
=============================================================================
