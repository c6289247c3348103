----------------------------- MODULE Providers ------------------------------
(***************************************************************************)
(* llm/*.py and keys.py: who answers.  A key typed into the dashboard is a *)
(* row of provider_keys and an entry of the cache that each process keeps; *)
(* get_provider reads the cache and the environment and builds a provider, *)
(* or a chain of them that are tried in turn.                              *)
(*                                                                         *)
(* A call is a message with the owner's preference, an agent's question,   *)
(* or the second opinion on a change (dev/auditor.py).  Whether a provider *)
(* answers is a choice; what it answers is not modelled.                   *)
(***************************************************************************)
EXTENDS Integers, Sequences, SequencesExt

CONSTANTS
    Call,               \* calls that may be under way at once
    Process,            \* processes, more than one during a deploy
    Request,            \* requests to set or remove a key
    Primary,            \* LLM_PROVIDER
    Env,                \* providers configured in the environment
    FallbackEnabled,    \* LLM_FALLBACK_ENABLED
    Edited,             \* providers whose key is set or removed (bound)
    MaxKeys             \* changes of keys, and restarts (bound)

Real == <<"gemini", "openai", "claude", "local">>
Stored == {"gemini", "openai", "claude"}

ASSUME ProvidersAssumption ==
    /\ Primary \in ToSet(Real) /\ Env \subseteq ToSet(Real)
    /\ FallbackEnabled \in BOOLEAN
    /\ Edited \subseteq Stored /\ MaxKeys \in Nat /\ Process # {}

VARIABLES
    table,      \* provider_keys: the number of the key, 0 for no row
    cache,      \* _CACHE of each process
    edit,       \* save or remove of routes/settings_keys.py, or a start-up
    changes,
    call,
    \* history
    behind      \* processes that need not have the latest keys, see below

vars == <<table, cache, edit, changes, call, behind>>

NoKeys == [p \in Stored |-> 0]
Nobody == "nobody"
Idle == [at |-> "idle", in |-> CHOOSE i \in Process : TRUE,
         kind |-> "none", want |-> Nobody, mode |-> "none",
         left |-> <<>>, by |-> Nobody,
         plain |-> FALSE,   \* asked once more, without a thinking budget
         \* history: configured when it was made, failed since
         could |-> {}, failed |-> {}]
Quiet == [at |-> "none", in |-> CHOOSE i \in Process : TRUE, boot |-> FALSE,
          rows |-> NoKeys]

Init ==
    /\ table = NoKeys
    /\ cache = [i \in Process |-> NoKeys]
    /\ edit = [r \in Request |-> Quiet]
    /\ changes = 0
    /\ call = [c \in Call |-> Idle]
    /\ behind = {}

-----------------------------------------------------------------------------
(* Choosing *)

\* _build finds a key in the cache, or in the environment.
Configured(i, p) == p \in Env \/ (p \in Stored /\ cache[i][p] # 0)

AllConfigured(i) == {p \in ToSet(Real) : Configured(i, p)}

Others(i) ==
    LET If(p) == IF p # Primary /\ Configured(i, p) THEN <<p>> ELSE <<>>
    IN  If(Real[1]) \o If(Real[2]) \o If(Real[3]) \o If(Real[4])

\* get_provider without a preference: what is tried, in turn.
Usual(i) ==
    CASE AllConfigured(i) = {} -> <<"mock">>
      [] AllConfigured(i) # {} /\ ~Configured(i, Primary) -> Others(i)
      [] Configured(i, Primary) /\ FallbackEnabled -> <<Primary>> \o Others(i)
      [] OTHER -> <<Primary>>

\* Mutant: a named provider is tried first, and then the usual ones.
PreferredFirst(i, want, mode) ==
    IF Configured(i, want) THEN <<want>> \o Usual(i)
    ELSE IF mode = "hard" THEN <<>> ELSE Usual(i)

\* _for_preference: alone, refused, or ignored; <<>> is ProviderUnavailable.
ForPreference(i, want, mode) ==
    IF Configured(i, want) THEN <<want>>
    ELSE IF mode = "hard" THEN <<>> ELSE Usual(i)

-----------------------------------------------------------------------------
(* Calls *)

KeysAside == UNCHANGED <<table, cache, edit, changes, behind>>

\* main.lifespan: a process reads its keys before it serves.
Serving(i) == \A r \in Request : edit[r].boot => edit[r].in # i

Asked(i, kind, want, mode, chain) ==
    [Idle EXCEPT !.at = IF chain = <<>> THEN "failed" ELSE "asking",
                 !.in = i, !.kind = kind, !.want = want, !.mode = mode,
                 !.left = chain, !.could = AllConfigured(i)]

\* A message in which the owner named a provider, or none (preference.read).
Ask(c, i) ==
    /\ call[c].at = "idle" /\ Serving(i)
    /\ \/ call' = [call EXCEPT ![c] = Asked(i, "message", Nobody, "none", Usual(i))]
       \/ \E want \in ToSet(Real), mode \in {"hard", "soft"} :
             call' = [call EXCEPT ![c] =
                        Asked(i, "message", want, mode, ForPreference(i, want, mode))]
    /\ KeysAside

\* keys.probe: the key just saved, or one that is tested.
Probe(c, i) ==
    /\ call[c].at = "idle" /\ Serving(i)
    /\ \E p \in Stored :
          call' = [call EXCEPT ![c] = Asked(i, "probe", p, "hard", ForPreference(i, p, "hard"))]
    /\ KeysAside

\* An agent's question: get_provider(settings), whatever the router chose.
AskAgent(c, i) ==
    /\ call[c].at = "idle" /\ Serving(i)
    /\ call' = [call EXCEPT ![c] = Asked(i, "agent", Nobody, "none", Usual(i))]
    /\ KeysAside

\* The second opinion on a change.  The Auditor names a provider that did not
\* write it, by a string, in which get_provider finds no `provider` to read:
\* the usual ones answer.
Review(c, i) ==
    /\ call[c].at = "idle" /\ Serving(i)
    /\ call' = [call EXCEPT ![c] = Asked(i, "review", Nobody, "none", Usual(i))]
    /\ KeysAside

\* What one request to a provider comes to: a text, which may be empty, or an
\* error that is raised - no connection, no answer in time, a refusal, a body
\* of another shape.
ClaudeAdapter == {"text", "error"}
OpenAIAdapter == {"text", "error"}
LocalAdapter == {"text", "error"}
MockAdapter == {"text"}

\* An error that is not plainly about something else is put down to the
\* thinking budget, and the request is sent once more without it.  The
\* adapter is a new one for each call and remembers nothing.
GeminiAdapter(plain) == {"text", "error"} \cup (IF plain THEN {} ELSE {"again"})

Ends(c) ==
    LET one == Head(call[c].left) IN
    CASE one = "claude" -> ClaudeAdapter
      [] one = "openai" -> OpenAIAdapter
      [] one = "local" -> LocalAdapter
      [] one = "mock" -> MockAdapter
      [] one = "gemini" -> GeminiAdapter(call[c].plain)

Again(c) ==
    /\ call[c].at = "asking" /\ "again" \in Ends(c)
    /\ call' = [call EXCEPT ![c].plain = TRUE]
    /\ KeysAside

\* FallbackProvider.complete
Answer(c) ==
    /\ call[c].at = "asking" /\ "text" \in Ends(c)
    /\ call' = [call EXCEPT ![c].at = "answered", ![c].by = Head(call[c].left)]
    /\ KeysAside

NoAnswer(c) ==
    LET one == Head(call[c].left) IN
    /\ call[c].at = "asking" /\ "error" \in Ends(c)
    /\ call' = [call EXCEPT ![c].left = Tail(@), ![c].failed = @ \cup {one},
                            ![c].plain = FALSE,
                            ![c].at = IF Tail(call[c].left) = <<>> THEN "failed" ELSE @]
    /\ KeysAside

\* What was said is passed on.
Done(c) ==
    /\ call[c].at \in {"answered", "failed"}
    /\ call' = [call EXCEPT ![c] = Idle]
    /\ KeysAside

-----------------------------------------------------------------------------
(* Keys *)

Editing(i) == {r \in Request : edit[r].at # "none" /\ edit[r].in = i}

Reading(i) == [at |-> "read", in |-> i, boot |-> FALSE, rows |-> NoKeys]

\* The statement of keys.store or keys.clear, before its refresh.  Only this
\* process will read the table again; two requests may cross.
Change(r, i) ==
    /\ edit[r].at = "none" /\ Serving(i) /\ changes < MaxKeys
    /\ changes' = changes + 1
    /\ \E p \in Edited, key \in {0, changes'} : table' = [table EXCEPT ![p] = key]
    /\ edit' = [edit EXCEPT ![r] = Reading(i)]
    /\ behind' = (IF table' = table THEN behind ELSE Process)
                    \ (IF Editing(i) = {} THEN {i} ELSE {})
    /\ UNCHANGED <<cache, call>>

\* refresh: the SELECT
Read(r) ==
    /\ edit[r].at = "read"
    /\ edit' = [edit EXCEPT ![r].at = "fill", ![r].rows = table]
    /\ UNCHANGED <<table, cache, changes, call, behind>>

\* refresh swallows a failure; the request carries on as if it had read.
ReadFails(r) ==
    /\ edit[r].at = "read" /\ changes < MaxKeys
    /\ changes' = changes + 1
    /\ edit' = [edit EXCEPT ![r] = Quiet]
    /\ behind' = behind \cup {edit[r].in}
    /\ UNCHANGED <<table, cache, call>>

\* Mutant: rows are filled in over what was there.
FilledOver(old, rows) == [p \in Stored |-> IF rows[p] # 0 THEN rows[p] ELSE old[p]]

\* _CACHE.clear(), then the rows
Filled(old, rows) == rows

Fill(r) ==
    /\ edit[r].at = "fill"
    /\ cache' = [cache EXCEPT ![edit[r].in] = Filled(@, edit[r].rows)]
    /\ edit' = [edit EXCEPT ![r] = Quiet]
    /\ UNCHANGED <<table, changes, call, behind>>

\* The process stops, with what was under way in it, and another takes its
\* place.
Restart(r, i) ==
    /\ edit[r].at = "none" \/ edit[r].in = i
    /\ changes < MaxKeys
    /\ changes' = changes + 1
    /\ cache' = [cache EXCEPT ![i] = NoKeys]
    /\ edit' = [q \in Request |->
                   IF q = r THEN [Reading(i) EXCEPT !.boot = TRUE]
                   ELSE IF edit[q].in = i THEN Quiet ELSE edit[q]]
    /\ behind' = behind \ {i}
    /\ UNCHANGED table

\* The calls of the other processes
Survivors(i) == [c \in Call |-> IF call[c].in = i THEN Idle ELSE call[c]]

KeyStep ==
    \E r \in Request :
        \/ \E i \in Process : Change(r, i)
        \/ Read(r) \/ ReadFails(r) \/ Fill(r)

CallStep(c) ==
    \/ \E i \in Process : Ask(c, i) \/ Probe(c, i) \/ AskAgent(c, i) \/ Review(c, i)
    \/ Again(c) \/ Answer(c) \/ NoAnswer(c) \/ Done(c)

Next ==
    \/ KeyStep
    \/ \E r \in Request, i \in Process :
          Restart(r, i) /\ call' = Survivors(i)
    \/ \E c \in Call : CallStep(c)

Spec == Init /\ [][Next]_vars

-----------------------------------------------------------------------------
(* Properties *)

\* Keys are "refreshed whenever one is written" (keys.py:29): at rest a
\* process goes by the keys on record, unless another process wrote last,
\* the reading failed, or two requests to one process crossed.
CacheAgrees ==
    \A i \in Process : Editing(i) = {} /\ i \notin behind => cache[i] = table

\* "Use Claude only" is answered by Claude or not at all
\* (preference.py:5), whatever fails and whichever keys come and go.  A call
\* that named nobody fails only after every provider configured when it was
\* made has failed, the local model answers only after all others, and a
\* placeholder only when there is none.
AnsweredAsAsked ==
    \A c \in Call :
        /\ call[c].mode = "hard" /\ call[c].at = "answered" => call[c].by = call[c].want
        /\ FallbackEnabled /\ call[c].at # "idle" /\ call[c].want = Nobody =>
              /\ call[c].at = "failed" => call[c].could \subseteq call[c].failed
              /\ call[c].by = "local" /\ Primary # "local" =>
                    call[c].could \ {"local"} \subseteq call[c].failed
              /\ call[c].by = "mock" => call[c].could = {}
=============================================================================
