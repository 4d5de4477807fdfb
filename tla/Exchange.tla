------------------------------ MODULE Exchange ------------------------------
(***************************************************************************)
(* One exchange of a provider adapter with its upstream: the call of Do    *)
(* and, after it, the life of the streamed body it handed over. What an    *)
(* adapter does is its script (modules Scripts...), a sequence of words;   *)
(* this module says what each word does and how it may fail:               *)
(*                                                                         *)
(*   check      the request is examined and may be refused as unsupported  *)
(*   limit      the answer is too long, which is told as unsupported too   *)
(*   lock       the gate of the account or session is taken                *)
(*   fetch      a call that must succeed     ask   its refusal is passed on*)
(*   token      a cached or fetched token    try   a call that may fail    *)
(*   create     a conversation is created    createpass  (refusal passed)  *)
(*   maycreate  created unless one is known  start  created if that works  *)
(*   open       a socket, tab or process is opened; the caller holds it    *)
(*   guarded    from here every return closes what is held                 *)
(*   send       the prompt is posted; the response body is held            *)
(*   sendpass   the same, and a refusal is passed on to the client         *)
(*   submit     the prompt is posted; the response holds no answer         *)
(*   submitpass the same, and a refusal is passed on                       *)
(*   resend     sendpass once more, if the prompt was turned away          *)
(*   resubmit   submit once more, if the prompt was turned away            *)
(*   reply      the answer is asked for and its body held                  *)
(*   replypass  the same, and a refusal is passed on                       *)
(*   remove     from here every end removes the conversation               *)
(*   removeok   from here a complete answer removes it                     *)
(*   collect    the answer is read to its end before Do returns            *)
(*   stream     the answer is handed over; the words after it happen while *)
(*              the client reads                                           *)
(***************************************************************************)
EXTENDS Naturals, Sequences

CONSTANT Scripts    \* the script of every adapter

VARIABLES
    adapter,    \* the adapter of this exchange
    pc,         \* the next word of its script
    out,        \* what the caller has been told so far
    prompts,    \* the fate of every prompt that was posted
    made,       \* the conversation of this turn: none, known, or lost
    cleanup,    \* when the conversation is removed: never, always, complete
    removed,    \* its removal was requested
    held,       \* what is open: the positions of the words that opened it
    guard       \* the part of it that a return closes

vars == <<adapter, pc, out, prompts, made, cleanup, removed, held, guard>>

Adapters == DOMAIN Scripts

Script == Scripts[adapter]
Ends == {"unsupported", "error", "passed", "done", "broken", "cut"}
Resending == {"resend", "resubmit"}
Posting == {"send", "sendpass", "submit", "submitpass"} \cup Resending
Creating == {"create", "createpass", "maycreate"}
Asking == {"fetch", "ask", "token", "reply", "replypass"}
Passing == {"ask", "createpass", "sendpass", "submitpass", "replypass", "resend"}
WithBody == {"send", "sendpass", "resend", "reply", "replypass"}
Opening == {"open"} \cup WithBody
Failing == {"check", "limit", "lock", "open", "collect"} \cup Asking \cup Creating \cup Posting
Words == Failing \cup {"try", "start", "guarded", "remove", "removeok", "stream"}

(***************************************************************************)
(* The discipline of the scripts. An adapter that keeps to it cannot break *)
(* the properties below, whatever fails; TLC looks whether they all do.    *)
(***************************************************************************)
\* The words of s before position n.
Before(s, n) == {s[i] : i \in 1..(n - 1)}

\* One post, repeated at once if at all, after every check and before the end.
PostsOnce(s) ==
    /\ \A n \in DOMAIN s :
        /\ s[n] \in (Posting \ Resending) \cup {"check"} => Before(s, n) \cap Posting = {}
        /\ s[n] = "collect" => Before(s, n) \cap Posting # {}
    /\ Before(s, Len(s) + 1) \cap Posting # {}

\* What is opened is guarded before a word that may fail, or handed over. A
\* repeated post excepted: a response to the first one is then closed.
GuardsInTime(s) ==
    \A n, m \in DOMAIN s :
        m < n /\ s[m] \in Opening /\ s[n] \in Failing /\ "stream" \notin Before(s, n) =>
            \/ \E g \in (m + 1)..(n - 1) : s[g] = "guarded"
            \/ s[m] \in Posting /\ s[n] \in Resending

\* A conversation is registered for removal before anything else can happen.
RemovesAlways(s) ==
    /\ "removeok" \notin Before(s, Len(s) + 1)
    /\ \A n \in DOMAIN s : s[n] \in Creating \cup {"start"} =>
        n < Len(s) /\ s[n + 1] = "remove" /\ "stream" \notin Before(s, n)

\* It is registered before an answer can be complete.
RemovesComplete(s) ==
    /\ "remove" \notin Before(s, Len(s) + 1)
    /\ \A n \in DOMAIN s : s[n] \in Creating \cup {"start"} =>
        \E m \in (n + 1)..Len(s) : s[m] = "removeok" /\ \A i \in n..m : s[i] # "collect"

Temporary == {"emohaa", "spark"}
Closed == {"step", "freebuff"}

\* What the instances satisfy
ScriptsAssumption ==
    \A a \in Adapters :
        /\ Scripts[a] \in Seq(Words)
        /\ PostsOnce(Scripts[a]) /\ GuardsInTime(Scripts[a])
        /\ a \in Temporary => RemovesAlways(Scripts[a])
        /\ a \in Closed => RemovesComplete(Scripts[a])

Word == IF pc <= Len(Script) THEN Script[pc] ELSE "over"
Following == IF pc < Len(Script) THEN Script[pc + 1] ELSE "over"
Active == out \in {"running", "stream"}
Holding == IF Word \in WithBody THEN held \cup {pc} ELSE held
At(words) == Active /\ Word \in words
Last(fate) == prompts # <<>> /\ prompts[Len(prompts)] = fate

Init ==
    /\ adapter \in Adapters
    /\ pc = 1
    /\ out = "running"
    /\ prompts = <<>>
    /\ made = "none"
    /\ cleanup = "never"
    /\ removed = FALSE
    /\ held = {}
    /\ guard = {}

-----------------------------------------------------------------------------
(* How an exchange ends                                                    *)

\* cleanupBody.Close and the error paths of doEmohaa, doSpark; removeStep-
\* Conversation and finishFreebuff after a complete answer.
RemovedAt(result) ==
    /\ made = "known"
    /\ cleanup = "always" \/ (cleanup = "complete" /\ result = "done")

\* A return before the handover runs the deferred closes; the end of a stream
\* closes all that was handed over with it.
Return(result) ==
    /\ out' = IF out = "stream" /\ result = "error" THEN "broken" ELSE result
    /\ held' = IF out = "stream" THEN {} ELSE held \ guard
    /\ removed' = RemovedAt(result)
    /\ UNCHANGED <<adapter, pc, cleanup, guard>>

Go == pc' = pc + 1 /\ UNCHANGED <<adapter, out, cleanup, removed, guard>>

-----------------------------------------------------------------------------
(* Before the prompt                                                       *)

Check ==
    /\ At({"check", "limit"})
    /\ \/ Go /\ UNCHANGED <<prompts, made, held>>
       \/ Return("unsupported") /\ UNCHANGED <<prompts, made>>

\* Faulty variant: the unlock is not deferred, only the stream's end releases.
LockUndeferred ==
    /\ At({"lock"})
    /\ \/ Go /\ held' = held \cup {pc} /\ UNCHANGED <<prompts, made>>
       \/ Return("error") /\ UNCHANGED <<prompts, made>>

\* The gate is waited for with the request's context and released on return.
Lock ==
    /\ At({"lock"})
    /\ \/ /\ pc' = pc + 1
          /\ held' = held \cup {pc}
          /\ guard' = guard \cup {pc}
          /\ UNCHANGED <<adapter, out, prompts, made, cleanup, removed>>
       \/ Return("error") /\ UNCHANGED <<prompts, made>>

Try == At({"try"}) /\ Go /\ UNCHANGED <<prompts, made, held>>

Ask ==
    /\ At(Asking)
    /\ UNCHANGED <<prompts, made>>
    /\ \/ Go /\ held' = Holding
       \/ Return("error")
       \/ Word \in Passing /\ Return("passed")

Create ==
    /\ At(Creating)
    /\ UNCHANGED prompts
    /\ \/ Go /\ made' = "known" /\ UNCHANGED held
       \/ Word = "maycreate" /\ Go /\ UNCHANGED <<made, held>>
       \/ Return("error") /\ UNCHANGED made
       \/ Return("error") /\ made' = "lost"
       \/ Word = "createpass" /\ Return("passed") /\ UNCHANGED made

Start == At({"start"}) /\ Go /\ made' \in {"none", "known", "lost"} /\ UNCHANGED <<prompts, held>>

Open ==
    /\ At({"open"})
    /\ \/ Go /\ held' = held \cup {pc} /\ UNCHANGED <<prompts, made>>
       \/ Return("error") /\ UNCHANGED <<prompts, made>>

Guarded ==
    /\ At({"guarded"})
    /\ pc' = pc + 1
    /\ guard' = held
    /\ UNCHANGED <<adapter, out, prompts, made, cleanup, removed, held>>

Register ==
    /\ At({"remove", "removeok"})
    /\ pc' = pc + 1
    /\ cleanup' = IF Word = "remove" THEN "always" ELSE "complete"
    /\ UNCHANGED <<adapter, out, prompts, made, removed, held, guard>>

-----------------------------------------------------------------------------
(* The prompt and the answer                                               *)

\* Faulty variant: a post whose fate is unknown is repeated as well.
ResendsLost(fate) == fate \in {"again", "lost"}
\* Only a prompt that was turned away with the status that asks for another
\* key, another token or the older endpoint is posted again.
MayResend(fate) == fate = "again"

Skip == At(Resending) /\ Last("taken") /\ Go /\ UNCHANGED <<prompts, made, held>>

\* The new key, token or solution cannot be had.
GiveUp ==
    /\ At(Resending) /\ ~Last("taken")
    /\ UNCHANGED <<prompts, made>>
    /\ Return("error") \/ (Word \in Passing /\ Return("passed"))

Post ==
    /\ At(Posting)
    /\ Word \in Resending => ~Last("taken")
    /\ UNCHANGED made
    /\ \/ /\ Go
          /\ prompts' = Append(prompts, "taken")
          /\ held' = Holding
       \/ /\ prompts' = Append(prompts, "refused")
          /\ Return(IF Word \in Passing THEN "passed" ELSE "error")
       \/ /\ Following \in Resending /\ MayResend("again")
          /\ Go
          /\ prompts' = Append(prompts, "again")
          /\ UNCHANGED held
       \/ /\ prompts' = Append(prompts, "lost")
          /\ IF Following \in Resending /\ MayResend("lost")
             THEN Go /\ UNCHANGED held
             ELSE Return("error")

Collect ==
    /\ At({"collect"})
    /\ UNCHANGED <<prompts, made>>
    /\ Return("done") \/ Return("error")

Handover ==
    /\ At({"stream"})
    /\ out' = "stream"
    /\ pc' = pc + 1
    /\ UNCHANGED <<adapter, prompts, made, cleanup, removed, held, guard>>

\* The client reads the stream to its end, or the upstream breaks it.
Drain ==
    /\ out = "stream" /\ Word = "over"
    /\ UNCHANGED <<prompts, made>>
    /\ Return("done") \/ Return("error")

\* The client closes the stream before its end.
CloseEarly == out = "stream" /\ Return("cut") /\ UNCHANGED <<prompts, made>>

Ended == out \in Ends /\ UNCHANGED vars

Next == \/ Check \/ Lock \/ Try \/ Ask \/ Create \/ Start \/ Open \/ Guarded \/ Register
        \/ Skip \/ GiveUp \/ Post \/ Collect \/ Handover \/ Drain \/ CloseEarly \/ Ended

Spec == Init /\ [][Next]_vars
-----------------------------------------------------------------------------
(* Properties                                                              *)

\* A prompt is posted again only after one the upstream turned away, and an
\* answer belongs to the last of them: no prompt is paid for twice, whatever
\* is lost on the way (dpop.go, tabbit.go, copilot.go; every adapter's Do).
PromptOnce ==
    /\ \A i \in 1..(Len(prompts) - 1) : prompts[i] = "again"
    /\ out = "done" => Last("taken")

\* A request that is refused as unsupported is refused before anything of it
\* was posted, however many calls the adapter makes first: the gateway holds
\* nothing against the source, and the client may safely ask another one.
\* Only the limits on an answer's length come later.
UnsupportedIsEarly == out = "unsupported" /\ Word # "limit" => prompts = <<>>

\* However an exchange ends - refused, failed between two calls, drained or
\* closed early by the client - no socket, browser tab, child process,
\* response body or session gate stays behind.
NothingLeftOpen == out \in Ends => held = {}

\* The temporary conversations of Emohaa and Spark are removed however the
\* turn ends, and never while the client still reads; Step's conversation and
\* Freebuff's run are ended exactly when the answer was complete.
ConversationsRemoved ==
    /\ removed => out \in Ends
    /\ out \in Ends /\ made = "known" =>
          /\ adapter \in Temporary => removed
          /\ adapter \in Closed => (removed <=> out = "done")
=============================================================================
