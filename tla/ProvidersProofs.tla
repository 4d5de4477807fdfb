--------------------------- MODULE ProvidersProofs ---------------------------
(***************************************************************************)
(* Proofs about the provider adapters.  For every table of scripts that    *)
(* keeps to the discipline of ScriptsAssumption: a prompt is posted once,  *)
(* and nothing stays open.  For all sets of calls and keys and all bounds: *)
(* sessions are separate.  For all sets of keys and accounts and all       *)
(* bounds of the browser driver: a turn is submitted at most once, and     *)
(* what is called complete is the whole answer to the gateway's own turn.  *)
(***************************************************************************)
EXTENDS Providers, FiniteSetTheorems, SequenceTheorems, TLAPS

-----------------------------------------------------------------------------
(* An exchange: the inductive invariant                                    *)

Fates == {"taken", "refused", "again", "lost"}

\* The shape of the state.
ShapeInv ==
    /\ adapter \in Call!Adapters
    /\ word \in Nat \ {0}
    /\ Call!Active => word <= Len(Call!Script) + 1
    /\ out \in Call!Ends \cup {"running", "stream"}
    /\ prompts \in Seq(Fates)
    /\ removed \in BOOLEAN
    /\ held \subseteq Nat

\* While the exchange goes on, a prompt was posted exactly if a word that
\* posts has been passed, and the last one was taken or is about to be posted
\* again.
PostInv ==
    /\ \A i \in 1..(Len(prompts) - 1) : prompts[i] = "again"
    /\ Call!Active => \/ prompts = <<>>
                      \/ Call!Last("taken")
                      \/ Call!Last("again") /\ Call!Word \in Call!Resending
    /\ Call!Active => (prompts = <<>> <=> Call!Before(Call!Script, word) \cap Call!Posting = {})
    /\ out = "done" => Call!Last("taken")
    /\ out = "unsupported" /\ Call!Word # "limit" => prompts = <<>>

\* What is open and not guarded was opened after the last guard, and the
\* response to a post only if the post was the last one.
HeldInv ==
    /\ out \in Call!Ends => held = {}
    /\ Call!Active => (out = "running" <=> "stream" \notin Call!Before(Call!Script, word))
    /\ Call!Active => \A m \in held \ guard :
        /\ m \in 1..(word - 1) /\ m \in DOMAIN Call!Script
        /\ Call!Script[m] \in Call!Opening
        /\ \A g \in (m + 1)..(word - 1) : Call!Script[g] # "guarded"
        /\ Call!Script[m] \in Call!Posting => Call!Last("taken")

\* A conversation that is known is registered for its removal, or about to be.
RemoveInv ==
    /\ removed => out \in Call!Ends
    /\ Call!Active /\ chat = "known" /\ adapter \in Call!Temporary =>
        cleanup = "always" \/ (out = "running" /\ Call!Word = "remove")
    /\ adapter \in Call!Closed => cleanup # "always"
    /\ Call!Active /\ chat = "known" /\ adapter \in Call!Closed =>
        Call!Before(Call!Script, word) \cap (Call!Creating \cup {"start"}) # {}
    /\ Call!Active /\ adapter \in Call!Closed =>
        ("removeok" \in Call!Before(Call!Script, word) => cleanup = "complete")
    /\ out \in Call!Ends /\ chat = "known" =>
        /\ adapter \in Call!Temporary => removed
        /\ adapter \in Call!Closed => (removed <=> out = "done")

ExchangeInv == ShapeInv /\ PostInv /\ HeldInv /\ RemoveInv

-----------------------------------------------------------------------------
(* Words and posts                                                         *)

\* Passing a word adds it to the words before.
LEMMA BeforeNext ==
    ASSUME NEW s, NEW n \in Nat \ {0}
    PROVE  Call!Before(s, n + 1) = Call!Before(s, n) \cup {s[n]}
<1>1. 1..((n + 1) - 1) = 1..(n - 1) \cup {n}
  OBVIOUS
<1> QED BY <1>1 DEF Call!Before

\* A word of the script is at its place.
LEMMA WordHere ==
    ASSUME Call!ScriptsAssumption, ShapeInv, Call!Word # "over"
    PROVE  /\ Call!Script \in Seq(Call!Words)
           /\ Len(Call!Script) \in Nat /\ DOMAIN Call!Script = 1..Len(Call!Script)
           /\ word \in DOMAIN Call!Script /\ Call!Word = Call!Script[word]
<1>1. Call!Script \in Seq(Call!Words)
  BY DEF Call!ScriptsAssumption, Call!Script, ShapeInv
<1>2. Len(Call!Script) \in Nat /\ DOMAIN Call!Script = 1..Len(Call!Script)
  BY <1>1
<1>3. word <= Len(Call!Script) /\ Call!Word = Call!Script[word]
  BY DEF Call!Word
<1> QED BY <1>1, <1>2, <1>3 DEF ShapeInv

\* The state after one more post.
LEMMA Posted ==
    ASSUME ShapeInv, NEW fate \in Fates, prompts' = Append(prompts, fate)
    PROVE  /\ prompts' \in Seq(Fates) /\ prompts' # <<>>
           /\ Len(prompts') = Len(prompts) + 1 /\ Len(prompts) \in Nat
           /\ prompts'[Len(prompts')] = fate
           /\ \A i \in 1..Len(prompts) : prompts'[i] = prompts[i]
  BY DEF ShapeInv

\* A step passes a word of the script ...
Goes ==
    /\ Call!Active /\ Call!Word # "over" /\ adapter' = adapter /\ word' = word + 1
    /\ removed' = removed
    /\ out' = IF Call!Word = "stream" THEN "stream" ELSE out
    /\ cleanup' = CASE Call!Word = "remove" -> "always"
                    [] Call!Word = "removeok" -> "complete"
                    [] OTHER -> cleanup
    /\ chat' = "known" => chat = "known" \/ Call!Word \in Call!Creating \cup {"start"}

\* ... or ends the exchange.
Returns(result) ==
    /\ Call!Active /\ result \in Call!Ends
    /\ Call!Word \in Call!Failing \/ out = "stream"
    /\ Call!Word \in Call!Resending => ~Call!Last("taken") \/ out = "stream"
    /\ result = "done" => Call!Word \in {"collect", "over"}
    /\ result = "unsupported" => Call!Word \in {"check", "limit"}
    /\ chat' \in {chat, "lost"}
    /\ Call!Return(result)

LEMMA InitExchange == ASSUME Call!ScriptsAssumption, Call!Init PROVE ExchangeInv
<1>1. prompts \in Seq(Fates) /\ Len(prompts) = 0 /\ prompts = <<>>
  BY DEF Call!Init
<1>2. ShapeInv
  <2>1. adapter \in Call!Adapters /\ word \in Nat \ {0}
            /\ out \in Call!Ends \cup {"running", "stream"}
    BY DEF Call!Init
  <2>2. removed \in BOOLEAN /\ held \subseteq Nat
    BY DEF Call!Init
  <2>3. word <= Len(Call!Script) + 1
    <3>1. Call!Script \in Seq(Call!Words)
      BY <2>1 DEF Call!ScriptsAssumption, Call!Script
    <3>2. Len(Call!Script) \in Nat
      BY <3>1
    <3> QED BY <3>2 DEF Call!Init
  <2> QED BY <1>1, <2>1, <2>2, <2>3 DEF ShapeInv
<1>3. Call!Before(Call!Script, word) = {}
  BY DEF Call!Init, Call!Before
<1>4. PostInv
  BY <1>1, <1>3 DEF Call!Init, PostInv, Call!Active
<1>5. HeldInv
  BY <1>3 DEF Call!Init, HeldInv, Call!Ends
<1>6. RemoveInv
  BY <1>3 DEF Call!Init, RemoveInv, Call!Ends
<1> QED BY <1>2, <1>4, <1>5, <1>6 DEF ExchangeInv

\* What a step that goes on leaves as it is.
LEMMA GoesOn ==
    ASSUME Call!ScriptsAssumption, ShapeInv, Goes
    PROVE  /\ word \in DOMAIN Call!Script /\ Call!Word = Call!Script[word] /\ word \in Nat
           /\ word' = word + 1
           /\ word - 1 \in Nat /\ Len(Call!Script) \in Nat
           /\ DOMAIN Call!Script = 1..Len(Call!Script)
           /\ Call!Script' = Call!Script
           /\ Call!Before(Call!Script, word)' = Call!Before(Call!Script, word) \cup {Call!Word}
           /\ out' \in {"running", "stream"} /\ out \in {"running", "stream"}
           /\ word' \in Nat \ {0} /\ adapter' \in Call!Adapters /\ removed' \in BOOLEAN
           /\ word' <= Len(Call!Script') + 1
<1>1. Call!Word # "over" /\ word \in Nat \ {0} /\ word' = word + 1 /\ adapter' = adapter
  BY DEF Goes, ShapeInv
<1>2. /\ word \in DOMAIN Call!Script /\ Call!Word = Call!Script[word]
      /\ Len(Call!Script) \in Nat /\ DOMAIN Call!Script = 1..Len(Call!Script)
  BY <1>1, WordHere
<1>3. Call!Script' = Call!Script
  BY <1>1 DEF Call!Script
<1>4. Call!Before(Call!Script, word)' = Call!Before(Call!Script, word + 1)
  BY <1>1, <1>3 DEF Call!Before
<1>5. Call!Before(Call!Script, word + 1) = Call!Before(Call!Script, word) \cup {Call!Word}
  BY <1>1, <1>2, BeforeNext
<1>6. out' \in {"running", "stream"} /\ out \in {"running", "stream"}
  BY DEF Goes, Call!Active
<1>7. adapter' \in Call!Adapters /\ removed' \in BOOLEAN
  BY DEF Goes, ShapeInv
<1> QED BY <1>1, <1>2, <1>3, <1>4, <1>5, <1>6, <1>7

\* What a step that ends leaves as it is.
LEMMA EndsHere ==
    ASSUME Call!ScriptsAssumption, ShapeInv, NEW r, Returns(r)
    PROVE  /\ adapter' = adapter /\ word' = word /\ Call!Script' = Call!Script
           /\ Call!Word' = Call!Word
           /\ out' \in Call!Ends /\ ~Call!Active' /\ adapter' \in Call!Adapters
           /\ removed' \in BOOLEAN /\ held' \subseteq Nat
           /\ out' = "done" => r = "done"
           /\ out' = "unsupported" => r = "unsupported"
<1>1. adapter' = adapter /\ word' = word
  BY DEF Returns, Call!Return
<1>2. Call!Script' = Call!Script
  BY <1>1 DEF Call!Script
<1>3. Call!Word' = Call!Word
  BY <1>1, <1>2 DEF Call!Word
<1>4. r \in Call!Ends /\ out' = IF out = "stream" /\ r = "error" THEN "broken" ELSE r
  BY DEF Returns, Call!Return
<1>5. out' \in Call!Ends
  BY <1>4 DEF Call!Ends
<1>6. ~Call!Active'
  BY <1>5 DEF Call!Ends, Call!Active
<1>7. removed' \in BOOLEAN
  BY DEF Returns, Call!Return, Call!RemovedAt
<1>8. held' \subseteq Nat
  BY DEF Returns, Call!Return, ShapeInv
<1>9. adapter' \in Call!Adapters
  BY <1>1 DEF ShapeInv
<1> QED BY <1>1, <1>2, <1>3, <1>4, <1>5, <1>6, <1>7, <1>8, <1>9

-----------------------------------------------------------------------------
(* Prompts                                                                 *)

\* A word that posts nothing, or a repetition that is not needed.
LEMMA PassedBy ==
    ASSUME Call!ScriptsAssumption, ShapeInv, PostInv, Goes, prompts' = prompts,
           Call!Word \notin Call!Posting \/ Call!Last("taken")
    PROVE  PostInv'
<1>1. /\ Call!Before(Call!Script, word)' = Call!Before(Call!Script, word) \cup {Call!Word}
      /\ out' \in {"running", "stream"}
  BY GoesOn
<1>2. Call!Active
  BY DEF Goes
<1>3. Call!Last("taken") <=> Call!Last("taken")'
  BY DEF Call!Last
<1>4. prompts = <<>> \/ Call!Last("taken")
  BY <1>2 DEF PostInv, Call!Posting
<1>5. prompts = <<>> <=> Call!Before(Call!Script, word)' \cap Call!Posting = {}
  <2>1. CASE Call!Last("taken")
    BY <2>1, <1>1, <1>2 DEF PostInv, Call!Last
  <2>2. CASE Call!Word \notin Call!Posting
    BY <2>2, <1>1, <1>2 DEF PostInv
  <2> QED BY <2>1, <2>2
<1> QED BY <1>1, <1>3, <1>4, <1>5 DEF PostInv, Call!Active

\* A post that is taken, or that is to be repeated, goes on.
LEMMA PostGoesOn ==
    ASSUME Call!ScriptsAssumption, ShapeInv, PostInv, Goes,
           Call!Word \in Call!Posting, Call!Word \in Call!Resending => ~Call!Last("taken"),
           NEW fate \in {"taken", "again"}, prompts' = Append(prompts, fate),
           fate = "again" => Call!Following \in Call!Resending
    PROVE  PostInv'
<1>1. /\ Call!Before(Call!Script, word)' = Call!Before(Call!Script, word) \cup {Call!Word}
      /\ out' \in {"running", "stream"} /\ Call!Script' = Call!Script
      /\ word \in DOMAIN Call!Script /\ Call!Word = Call!Script[word]
      /\ word \in Nat /\ word' = word + 1 /\ Len(Call!Script) \in Nat
  BY GoesOn
<1>2. /\ prompts' # <<>> /\ Len(prompts') = Len(prompts) + 1 /\ Len(prompts) \in Nat
      /\ prompts'[Len(prompts')] = fate
      /\ \A i \in 1..Len(prompts) : prompts'[i] = prompts[i]
  BY Posted DEF Fates
<1>3. prompts = <<>> \/ Call!Last("again")
  <2>1. CASE Call!Word \in Call!Resending
    BY <2>1 DEF PostInv, Goes
  <2>2. CASE Call!Word \notin Call!Resending
    <3>1. Call!Before(Call!Script, word) \cap Call!Posting = {}
      BY <2>2, <1>1 DEF Call!ScriptsAssumption, Call!PostsOnce, ShapeInv, Call!Script
    <3> QED BY <3>1 DEF PostInv, Goes
  <2> QED BY <2>1, <2>2
<1>4. \A i \in 1..(Len(prompts') - 1) : prompts'[i] = "again"
  <2> SUFFICES ASSUME NEW i \in 1..Len(prompts) PROVE prompts[i] = "again"
    BY <1>2
  <2>1. CASE i = Len(prompts)
    BY <2>1, <1>3 DEF Call!Last
  <2>2. CASE i # Len(prompts)
    <3>1. i \in 1..(Len(prompts) - 1)
      BY <2>2, <1>2
    <3> QED BY <3>1 DEF PostInv
  <2> QED BY <2>1, <2>2
<1>5. fate = "again" => Call!Word' \in Call!Resending
  <2>1. "over" \notin Call!Resending
    BY DEF Call!Resending
  <2> QED BY <1>1, <2>1 DEF Call!Following, Call!Word
<1>6. Call!Last("taken")' \/ (Call!Last("again")' /\ Call!Word' \in Call!Resending)
  BY <1>2, <1>5 DEF Call!Last
<1>7. Call!Before(Call!Script, word)' \cap Call!Posting # {}
  BY <1>1
<1> QED BY <1>1, <1>2, <1>4, <1>6, <1>7 DEF PostInv, Call!Active

\* A post that is refused or lost ends the exchange.
LEMMA PostEnds ==
    ASSUME Call!ScriptsAssumption, ShapeInv, PostInv, NEW r \in {"error", "passed"}, Returns(r),
           Call!Word \in Call!Posting, Call!Word \in Call!Resending => ~Call!Last("taken"),
           NEW fate \in {"refused", "lost"}, prompts' = Append(prompts, fate)
    PROVE  PostInv'
<1>1. /\ out' \in Call!Ends /\ ~Call!Active' /\ out' # "done" /\ out' # "unsupported"
  BY EndsHere
<1>2. /\ prompts' # <<>> /\ Len(prompts') = Len(prompts) + 1 /\ Len(prompts) \in Nat
      /\ \A i \in 1..Len(prompts) : prompts'[i] = prompts[i]
  BY Posted DEF Fates
<1>3. prompts = <<>> \/ Call!Last("again")
  <2>1. CASE Call!Word \in Call!Resending
    BY <2>1 DEF PostInv, Returns
  <2>2. CASE Call!Word \notin Call!Resending
    <3>1. word \in DOMAIN Call!Script /\ Call!Word = Call!Script[word]
      BY WordHere DEF Call!Posting, Call!Resending
    <3>2. Call!Before(Call!Script, word) \cap Call!Posting = {}
      BY <2>2, <3>1 DEF Call!ScriptsAssumption, Call!PostsOnce, ShapeInv, Call!Script
    <3> QED BY <3>2 DEF PostInv, Returns
  <2> QED BY <2>1, <2>2
<1>4. \A i \in 1..(Len(prompts') - 1) : prompts'[i] = "again"
  <2> SUFFICES ASSUME NEW i \in 1..Len(prompts) PROVE prompts[i] = "again"
    BY <1>2
  <2>1. CASE i = Len(prompts)
    BY <2>1, <1>3 DEF Call!Last
  <2>2. CASE i # Len(prompts)
    <3>1. i \in 1..(Len(prompts) - 1)
      BY <2>2, <1>2
    <3> QED BY <3>1 DEF PostInv
  <2> QED BY <2>1, <2>2
<1> QED BY <1>1, <1>4 DEF PostInv

\* The other ends.
LEMMA EndKeepsPosts ==
    ASSUME Call!ScriptsAssumption, ShapeInv, PostInv, NEW r, Returns(r), prompts' = prompts
    PROVE  PostInv'
<1>1. /\ Call!Word' = Call!Word /\ ~Call!Active'
      /\ out' = "done" => r = "done"
      /\ out' = "unsupported" => r = "unsupported"
  BY EndsHere
<1>2. r = "done" => Call!Last("taken")
  <2> SUFFICES ASSUME Call!Word \in {"collect", "over"} PROVE Call!Last("taken")
    BY DEF Returns
  <2>1. Call!Before(Call!Script, word) \cap Call!Posting # {}
    <3>1. CASE Call!Word = "collect"
      <4>1. word \in DOMAIN Call!Script /\ Call!Script[word] = "collect"
        BY <3>1, WordHere
      <4> QED BY <4>1 DEF Call!ScriptsAssumption, Call!PostsOnce, ShapeInv, Call!Script
    <3>2. CASE Call!Word = "over"
      <4>1. Call!Script \in Seq(Call!Words)
                /\ Call!Before(Call!Script, Len(Call!Script) + 1) \cap Call!Posting # {}
        BY DEF Call!ScriptsAssumption, Call!PostsOnce, ShapeInv, Call!Script
      <4>2. Len(Call!Script) \in Nat /\ word \in Nat
        BY <4>1 DEF ShapeInv
      <4>3. CASE word <= Len(Call!Script)
        <5>1. word \in DOMAIN Call!Script /\ Call!Script[word] = "over"
          BY <4>1, <4>2, <4>3, <3>2 DEF Call!Word, ShapeInv
        <5>2. "over" \in Call!Words
          BY <5>1, <4>1
        <5> QED BY <5>2
                DEF Call!Words, Call!Failing, Call!Asking, Call!Creating, Call!Posting,
                    Call!Resending
      <4>4. CASE word > Len(Call!Script)
        <5>1. 1..((Len(Call!Script) + 1) - 1) \subseteq 1..(word - 1)
          BY <4>2, <4>4
        <5>2. Call!Before(Call!Script, Len(Call!Script) + 1) \subseteq Call!Before(Call!Script,
                  word)
          BY <5>1 DEF Call!Before
        <5> QED BY <5>2, <4>1
      <4> QED BY <4>2, <4>3, <4>4
    <3> QED BY <3>1, <3>2
  <2>2. Call!Word \notin Call!Resending
    BY DEF Call!Resending
  <2> QED BY <2>1, <2>2 DEF PostInv, Returns
<1>3. r = "unsupported" /\ Call!Word # "limit" => prompts = <<>>
  <2> SUFFICES ASSUME Call!Word = "check" PROVE prompts = <<>>
    BY DEF Returns
  <2>1. word \in DOMAIN Call!Script /\ Call!Script[word] = "check"
    BY WordHere
  <2>2. Call!Before(Call!Script, word) \cap Call!Posting = {}
    BY <2>1 DEF Call!ScriptsAssumption, Call!PostsOnce, ShapeInv, Call!Script
  <2> QED BY <2>2 DEF PostInv, Returns
<1>4. Call!Last("taken")' <=> Call!Last("taken")
  BY DEF Call!Last
<1> QED BY <1>1, <1>2, <1>3, <1>4 DEF PostInv

-----------------------------------------------------------------------------
(* What is open                                                            *)

\* A word opens something, guards it, or leaves it alone.
LEMMA GoKeepsHeld ==
    ASSUME Call!ScriptsAssumption, ShapeInv, HeldInv, Goes, Call!Last("taken") =>
           Call!Last("taken")',
           \A m \in held' \ guard' :
               \/ m \in held \ guard /\ Call!Word # "guarded"
               \/ m = word /\ Call!Word \in Call!Opening
                    /\ (Call!Word \in Call!Posting => Call!Last("taken")')
    PROVE  HeldInv'
<1>1. /\ word \in DOMAIN Call!Script /\ Call!Word = Call!Script[word] /\ word \in Nat
      /\ word' = word + 1
      /\ word - 1 \in Nat /\ Call!Script' = Call!Script
      /\ Call!Before(Call!Script, word)' = Call!Before(Call!Script, word) \cup {Call!Word}
      /\ out' \in {"running", "stream"} /\ Len(Call!Script) \in Nat
      /\ DOMAIN Call!Script = 1..Len(Call!Script)
  BY GoesOn
<1>2. out' \notin Call!Ends
  BY <1>1 DEF Call!Ends
<1>3. out' = "running" <=> "stream" \notin Call!Before(Call!Script, word)'
  BY <1>1 DEF HeldInv, Goes, Call!Active
<1>4. ASSUME NEW m \in held' \ guard'
      PROVE  /\ m \in 1..(word' - 1) /\ m \in DOMAIN Call!Script
             /\ Call!Script[m] \in Call!Opening
             /\ \A g \in (m + 1)..(word' - 1) : Call!Script[g] # "guarded"
             /\ Call!Script[m] \in Call!Posting => Call!Last("taken")'
  <2>1. CASE m = word /\ Call!Word \in Call!Opening
                 /\ (Call!Word \in Call!Posting => Call!Last("taken")')
    BY <2>1, <1>1
  <2>2. CASE m \in held \ guard /\ Call!Word # "guarded"
    <3>1. /\ m \in 1..(word - 1) /\ m \in DOMAIN Call!Script
          /\ Call!Script[m] \in Call!Opening
          /\ \A g \in (m + 1)..(word - 1) : Call!Script[g] # "guarded"
          /\ Call!Script[m] \in Call!Posting => Call!Last("taken")
      BY <2>2 DEF HeldInv, Goes
    <3>2. \A g \in (m + 1)..(word' - 1) : g \in (m + 1)..(word - 1) \/ g = word
      BY <1>1, <3>1
    <3>3. \A g \in (m + 1)..(word' - 1) : Call!Script[g] # "guarded"
      BY <3>1, <3>2, <2>2, <1>1
    <3>4. m \in 1..(word' - 1)
      BY <3>1, <1>1
    <3> QED BY <3>1, <3>3, <3>4
  <2> QED BY <2>1, <2>2, <1>4
<1> QED BY <1>1, <1>2, <1>3, <1>4 DEF HeldInv

\* A word that fails finds everything guarded.
LEMMA EndClosesAll ==
    ASSUME Call!ScriptsAssumption, ShapeInv, HeldInv, NEW r, Returns(r)
    PROVE  held' = {} /\ HeldInv'
<1>1. out' \in Call!Ends /\ ~Call!Active'
  BY EndsHere
<1>2. out' # "running"
  BY <1>1 DEF Call!Ends
<1>3. held' = {}
  <2>1. CASE out = "stream"
    BY <2>1 DEF Returns, Call!Return
  <2>2. CASE out # "stream"
    <3>1. out = "running" /\ Call!Word \in Call!Failing /\ held' = held \ guard
      BY <2>2 DEF Returns, Call!Return, Call!Active
    <3>2. Call!Word # "over"
      BY <3>1 DEF Call!Failing, Call!Asking, Call!Creating, Call!Posting, Call!Resending
    <3>3. word \in DOMAIN Call!Script /\ Call!Word = Call!Script[word]
      BY <3>2, WordHere
    <3>4. "stream" \notin Call!Before(Call!Script, word)
      BY <3>1 DEF HeldInv, Call!Active
    <3>5. ASSUME NEW m \in held \ guard PROVE FALSE
      <4>1. /\ m \in 1..(word - 1) /\ m \in DOMAIN Call!Script
            /\ Call!Script[m] \in Call!Opening
            /\ \A g \in (m + 1)..(word - 1) : Call!Script[g] # "guarded"
            /\ Call!Script[m] \in Call!Posting => Call!Last("taken")
        BY <3>1 DEF HeldInv, Call!Active
      <4>2. m < word
        BY <4>1 DEF ShapeInv
      <4>3. Call!GuardsInTime(Call!Script)
        BY DEF Call!ScriptsAssumption, ShapeInv, Call!Script
      <4>4. Call!Script[m] \in Call!Posting /\ Call!Script[word] \in Call!Resending
        BY <4>1, <4>2, <4>3, <3>1, <3>3, <3>4 DEF Call!GuardsInTime
      <4> QED BY <4>1, <4>4, <3>3, <2>2 DEF Returns
    <3> QED BY <3>1, <3>5
  <2> QED BY <2>1, <2>2
<1> QED BY <1>1, <1>2, <1>3 DEF HeldInv

-----------------------------------------------------------------------------
(* Conversations                                                           *)

\* A word that goes on keeps a known conversation registered.
LEMMA GoKeepsRemoval ==
    ASSUME Call!ScriptsAssumption, ShapeInv, HeldInv, RemoveInv, Goes
    PROVE  RemoveInv'
<1>1. /\ word \in DOMAIN Call!Script /\ Call!Word = Call!Script[word] /\ word \in Nat
      /\ word' = word + 1
      /\ word - 1 \in Nat /\ Call!Script' = Call!Script
      /\ Call!Before(Call!Script, word)' = Call!Before(Call!Script, word) \cup {Call!Word}
      /\ out' \in {"running", "stream"} /\ out \in {"running", "stream"}
      /\ Len(Call!Script) \in Nat /\ DOMAIN Call!Script = 1..Len(Call!Script)
  BY GoesOn
<1>2. out' \notin Call!Ends /\ out \notin Call!Ends /\ Call!Active
  BY <1>1 DEF Call!Ends, Call!Active
<1>3. /\ adapter' = adapter /\ removed' = removed /\ adapter \in Call!Adapters
      /\ out' = IF Call!Word = "stream" THEN "stream" ELSE out
      /\ cleanup' = CASE Call!Word = "remove" -> "always"
                      [] Call!Word = "removeok" -> "complete"
                      [] OTHER -> cleanup
      /\ chat' = "known" => chat = "known" \/ Call!Word \in Call!Creating \cup {"start"}
  BY DEF Goes, ShapeInv
<1>4. \A w \in Call!Before(Call!Script, Len(Call!Script) + 1) \cup {Call!Word} :
          w = Call!Word \/ w \in Call!Before(Call!Script, Len(Call!Script) + 1)
  OBVIOUS
<1>5. Call!Word \in Call!Before(Call!Script, Len(Call!Script) + 1)
  BY <1>1 DEF Call!Before
<1>6. ASSUME chat' = "known", adapter \in Call!Temporary
      PROVE  cleanup' = "always" \/ (out' = "running" /\ Call!Word' = "remove")
  <2>1. Call!RemovesAlways(Call!Script)
    BY <1>3, <1>6 DEF Call!ScriptsAssumption, Call!Script
  <2>2. Call!Word # "removeok"
    BY <2>1, <1>5 DEF Call!RemovesAlways
  <2>3. CASE Call!Word \in Call!Creating \cup {"start"}
    <3>1. word < Len(Call!Script) /\ Call!Script[word + 1] = "remove"
              /\ "stream" \notin Call!Before(Call!Script, word)
      BY <2>1, <2>3, <1>1 DEF Call!RemovesAlways
    <3>2. Call!Word' = "remove"
      BY <3>1, <1>1 DEF Call!Word
    <3>3. Call!Word \notin {"stream", "remove"}
      BY <2>3 DEF Call!Creating
    <3>4. CASE out = "running"
      BY <3>2, <3>3, <3>4, <1>3
    <3>5. CASE out = "stream"
      BY <3>1, <3>5 DEF HeldInv, Call!Active
    <3> QED BY <3>4, <3>5, <1>1
  <2>4. CASE Call!Word \notin Call!Creating \cup {"start"}
    <3>1. cleanup = "always" \/ Call!Word = "remove"
      BY <2>4, <1>2, <1>3, <1>6 DEF RemoveInv
    <3> QED BY <3>1, <2>2, <1>3
  <2> QED BY <2>3, <2>4
<1>7. ASSUME adapter \in Call!Closed
      PROVE  /\ cleanup' # "always"
             /\ chat' = "known" =>
                  Call!Before(Call!Script, word)' \cap (Call!Creating \cup {"start"}) # {}
             /\ "removeok" \in Call!Before(Call!Script, word)' => cleanup' = "complete"
  <2>1. Call!RemovesComplete(Call!Script)
    BY <1>3, <1>7 DEF Call!ScriptsAssumption, Call!Script
  <2>2. Call!Word # "remove"
    BY <2>1, <1>5 DEF Call!RemovesComplete
  <2>3. cleanup' = IF Call!Word = "removeok" THEN "complete" ELSE cleanup
    BY <2>2, <1>3
  <2>4. cleanup # "always"
    BY <1>7 DEF RemoveInv
  <2>5. chat' = "known" =>
            Call!Before(Call!Script, word)' \cap (Call!Creating \cup {"start"}) # {}
    BY <1>1, <1>2, <1>3, <1>7 DEF RemoveInv
  <2>6. "removeok" \in Call!Before(Call!Script, word)' => cleanup' = "complete"
    BY <2>3, <1>1, <1>2, <1>7 DEF RemoveInv
  <2> QED BY <2>3, <2>4, <2>5, <2>6
<1>8. removed' => out' \in Call!Ends
  BY <1>2, <1>3 DEF RemoveInv
<1> QED BY <1>2, <1>3, <1>6, <1>7, <1>8 DEF RemoveInv

\* However an exchange ends, its conversation is dealt with.
LEMMA EndRemoves ==
    ASSUME Call!ScriptsAssumption, ShapeInv, RemoveInv, NEW r, Returns(r)
    PROVE  RemoveInv'
<1>1. /\ adapter' = adapter /\ word' = word /\ Call!Script' = Call!Script
      /\ out' \in Call!Ends /\ ~Call!Active'
      /\ out' = "done" => r = "done"
  BY EndsHere
<1>2. /\ removed' <=> /\ chat = "known"
                      /\ cleanup = "always" \/ (cleanup = "complete" /\ r = "done")
      /\ cleanup' = cleanup /\ chat' \in {chat, "lost"} /\ Call!Active
      /\ r = "done" => out' = "done"
      /\ r = "done" => Call!Word \in {"collect", "over"}
  BY DEF Returns, Call!Return, Call!RemovedAt
<1>3. ASSUME chat' = "known", adapter \in Call!Temporary PROVE removed'
  <2>1. chat = "known"
    BY <1>2, <1>3
  <2>2. ~(out = "running" /\ Call!Word = "remove")
    BY DEF Returns, Call!Failing, Call!Asking, Call!Creating, Call!Posting, Call!Resending
  <2> QED BY <2>1, <2>2, <1>2, <1>3 DEF RemoveInv
<1>4. ASSUME chat' = "known", adapter \in Call!Closed PROVE removed' <=> out' = "done"
  <2>1. chat = "known" /\ cleanup # "always"
    BY <1>2, <1>4 DEF RemoveInv
  <2>2. ASSUME r = "done" PROVE cleanup = "complete"
    <3>1. PICK n \in 1..(word - 1) : Call!Script[n] \in Call!Creating \cup {"start"}
      BY <2>1, <1>2, <1>4 DEF RemoveInv, Call!Before
    <3>2. /\ Call!Script \in Seq(Call!Words) /\ Call!RemovesComplete(Call!Script)
      BY <1>4 DEF Call!ScriptsAssumption, Call!Script, ShapeInv
    <3>3. Len(Call!Script) \in Nat /\ DOMAIN Call!Script = 1..Len(Call!Script) /\ word \in Nat
      BY <3>2 DEF ShapeInv
    <3>4. (word \in DOMAIN Call!Script /\ Call!Script[word] = "collect")
              \/ word > Len(Call!Script)
      <4>1. CASE word <= Len(Call!Script)
        <5>1. word \in DOMAIN Call!Script /\ Call!Script[word] = Call!Word
                  /\ Call!Script[word] \in Call!Words
          BY <4>1, <3>2, <3>3 DEF Call!Word, ShapeInv
        <5>2. Call!Word # "over"
          BY <5>1
             DEF Call!Words, Call!Failing, Call!Asking, Call!Creating, Call!Posting,
                 Call!Resending
        <5> QED BY <5>1, <5>2, <1>2, <2>2
      <4> QED BY <4>1, <3>3
    <3>5. n \in DOMAIN Call!Script
      BY <3>1, <3>3, <1>2 DEF ShapeInv
    <3>6. PICK m \in (n + 1)..Len(Call!Script) :
              Call!Script[m] = "removeok" /\ \A i \in n..m : Call!Script[i] # "collect"
      BY <3>1, <3>2, <3>5 DEF Call!RemovesComplete
    <3>7. m < word
      BY <3>1, <3>3, <3>4, <3>6
    <3>8. "removeok" \in Call!Before(Call!Script, word)
      BY <3>1, <3>3, <3>6, <3>7 DEF Call!Before
    <3> QED BY <3>8, <1>2, <1>4 DEF RemoveInv
  <2> QED BY <2>1, <2>2, <1>1, <1>2
<1>5. adapter \in Call!Closed => cleanup # "always"
  BY DEF RemoveInv
<1> QED BY <1>1, <1>2, <1>3, <1>4, <1>5 DEF RemoveInv

-----------------------------------------------------------------------------
(* The steps                                                               *)

\* A word that posts nothing.
LEMMA WordKeeps ==
    ASSUME Call!ScriptsAssumption, ExchangeInv, Goes, prompts' = prompts,
           Call!Word \notin Call!Posting \/ Call!Last("taken"), held' \subseteq Nat,
           \A m \in held' \ guard' :
               \/ m \in held \ guard /\ Call!Word # "guarded"
               \/ m = word /\ Call!Word \in Call!Opening \ Call!Posting
    PROVE  ExchangeInv'
<1>1. ShapeInv /\ PostInv /\ HeldInv /\ RemoveInv
  BY DEF ExchangeInv
<1>2. PostInv'
  BY <1>1, PassedBy
<1>3. HeldInv'
  <2>1. Call!Last("taken") => Call!Last("taken")'
    BY DEF Call!Last
  <2> QED BY <1>1, <2>1, GoKeepsHeld
<1>4. RemoveInv'
  BY <1>1, GoKeepsRemoval
<1>5. ShapeInv'
  <2>1. /\ word' \in Nat \ {0} /\ adapter' \in Call!Adapters /\ removed' \in BOOLEAN
        /\ word' <= Len(Call!Script') + 1 /\ out' \in {"running", "stream"}
    BY <1>1, GoesOn
  <2>2. prompts' \in Seq(Fates)
    BY <1>1 DEF ShapeInv
  <2> QED BY <2>1, <2>2 DEF ShapeInv
<1> QED BY <1>2, <1>3, <1>4, <1>5 DEF ExchangeInv

\* An end at which nothing is posted.
LEMMA EndKeeps ==
    ASSUME Call!ScriptsAssumption, ExchangeInv, NEW r, Returns(r), prompts' = prompts
    PROVE  ExchangeInv'
<1>1. ShapeInv /\ PostInv /\ HeldInv /\ RemoveInv
  BY DEF ExchangeInv
<1>2. PostInv'
  BY <1>1, EndKeepsPosts
<1>3. HeldInv'
  BY <1>1, EndClosesAll
<1>4. RemoveInv'
  BY <1>1, EndRemoves
<1>5. ShapeInv'
  <2>1. /\ word' = word /\ adapter' \in Call!Adapters /\ removed' \in BOOLEAN
        /\ held' \subseteq Nat
        /\ out' \in Call!Ends /\ ~Call!Active'
    BY <1>1, EndsHere
  <2>2. prompts' \in Seq(Fates) /\ word' \in Nat \ {0}
    BY <1>1, <2>1 DEF ShapeInv
  <2> QED BY <2>1, <2>2 DEF ShapeInv
<1> QED BY <1>2, <1>3, <1>4, <1>5 DEF ExchangeInv

\* A word that may fail, before the handover or after it.
LEMMA MayEnd ==
    ASSUME Call!Active, Call!Word \in Call!Failing, Call!Word \notin Call!Resending
           \/ ~Call!Last("taken"),
           NEW r \in Call!Ends, r # "done" \/ Call!Word = "collect",
           r # "unsupported" \/ Call!Word \in {"check", "limit"},
           chat' \in {chat, "lost"}, Call!Return(r)
    PROVE  Returns(r)
  BY DEF Returns

LEMMA CheckKeeps == ASSUME Call!ScriptsAssumption, ExchangeInv, Call!Check PROVE ExchangeInv'
<1>1. Call!Active /\ Call!Word \in {"check", "limit"}
  BY DEF Call!Check, Call!At
<1>2. Call!Word \in Call!Failing /\ Call!Word \notin Call!Posting
  BY <1>1 DEF Call!Failing, Call!Posting, Call!Resending
<1>3. CASE Call!Go /\ UNCHANGED <<prompts, chat, held>>
  <2>1. Goes
    BY <1>1, <1>3 DEF Goes, Call!Go
  <2>2. held' \subseteq Nat /\ held' \ guard' = held \ guard
    BY <1>3 DEF Call!Go, ExchangeInv, ShapeInv
  <2>3. prompts' = prompts /\ Call!Word # "guarded"
    BY <1>1, <1>3
  <2> QED BY <2>1, <2>2, <2>3, <1>2, WordKeeps
<1>4. CASE Call!Return("unsupported") /\ UNCHANGED <<prompts, chat>>
  <2>1. Returns("unsupported")
    BY <1>1, <1>2, <1>4, MayEnd DEF Call!Ends, Call!Posting
  <2> QED BY <2>1, <1>4, EndKeeps
<1> QED BY <1>3, <1>4 DEF Call!Check

LEMMA LockWordKeeps == ASSUME Call!ScriptsAssumption, ExchangeInv, Call!Lock PROVE ExchangeInv'
<1>1. Call!Active /\ Call!Word = "lock" /\ word \in Nat /\ held \subseteq Nat
  BY DEF Call!Lock, Call!At, ExchangeInv, ShapeInv
<1>2. Call!Word \in Call!Failing /\ Call!Word \notin Call!Posting
  BY <1>1 DEF Call!Failing, Call!Posting, Call!Resending
<1>3. CASE /\ word' = word + 1 /\ held' = held \cup {word} /\ guard' = guard \cup {word}
           /\ UNCHANGED <<adapter, out, prompts, chat, cleanup, removed>>
  <2>1. Goes
    BY <1>1, <1>3 DEF Goes
  <2>2. held' \subseteq Nat /\ held' \ guard' \subseteq held \ guard
    BY <1>1, <1>3
  <2>3. prompts' = prompts /\ Call!Word # "guarded"
    BY <1>1, <1>3
  <2> QED BY <2>1, <2>2, <2>3, <1>2, WordKeeps
<1>4. CASE Call!Return("error") /\ UNCHANGED <<prompts, chat>>
  <2>1. Returns("error")
    BY <1>1, <1>2, <1>4, MayEnd DEF Call!Ends, Call!Posting
  <2> QED BY <2>1, <1>4, EndKeeps
<1> QED BY <1>3, <1>4 DEF Call!Lock

LEMMA TryKeeps == ASSUME Call!ScriptsAssumption, ExchangeInv, Call!Try PROVE ExchangeInv'
<1>1. Call!Active /\ Call!Word = "try" /\ Call!Go /\ UNCHANGED <<prompts, chat, held>>
  BY DEF Call!Try, Call!At
<1>2. Goes
  BY <1>1 DEF Goes, Call!Go
<1>3. held' \subseteq Nat /\ held' \ guard' = held \ guard
  BY <1>1 DEF Call!Go, ExchangeInv, ShapeInv
<1>4. prompts' = prompts /\ Call!Word # "guarded" /\ Call!Word \notin Call!Posting
  BY <1>1 DEF Call!Posting, Call!Resending
<1> QED BY <1>2, <1>3, <1>4, WordKeeps

LEMMA AskWordKeeps == ASSUME Call!ScriptsAssumption, ExchangeInv, Call!Ask PROVE ExchangeInv'
<1>1. Call!Active /\ Call!Word \in Call!Asking /\ UNCHANGED <<prompts, chat>> /\ word \in Nat
          /\ held \subseteq Nat
  BY DEF Call!Ask, Call!At, ExchangeInv, ShapeInv
<1>2. Call!Word \in Call!Failing /\ Call!Word \notin Call!Posting
  BY <1>1 DEF Call!Failing, Call!Asking, Call!Posting, Call!Resending
<1>3. Call!Word \notin {"over", "stream", "remove", "removeok", "guarded"}
  BY <1>1 DEF Call!Asking
<1>4. CASE Call!Go /\ held' = Call!Holding
  <2>1. Goes
    BY <1>1, <1>3, <1>4 DEF Goes, Call!Go
  <2>2. held' \subseteq Nat
    BY <1>1, <1>4 DEF Call!Holding
  <2>3. \A m \in held' \ guard' : m \in held \ guard \/ (m = word /\ Call!Word \in Call!Opening)
    <3>1. guard' = guard
      BY <1>4 DEF Call!Go
    <3>2. Call!Word \in Call!WithBody => Call!Word \in Call!Opening
      BY DEF Call!Opening
    <3> QED BY <3>1, <3>2, <1>4 DEF Call!Holding
  <2> QED BY <2>1, <2>2, <2>3, <1>1, <1>2, <1>3, WordKeeps
<1>5. ASSUME NEW r \in {"error", "passed"}, Call!Return(r) PROVE ExchangeInv'
  <2>1. Returns(r)
    BY <1>1, <1>2, <1>5, MayEnd DEF Call!Ends, Call!Posting
  <2> QED BY <2>1, <1>1, EndKeeps
<1> QED BY <1>4, <1>5 DEF Call!Ask

LEMMA CreateKeeps == ASSUME Call!ScriptsAssumption, ExchangeInv, Call!Create PROVE ExchangeInv'
<1>1. Call!Active /\ Call!Word \in Call!Creating /\ UNCHANGED prompts
  BY DEF Call!Create, Call!At
<1>2. Call!Word \in Call!Failing /\ Call!Word \notin Call!Posting
  BY <1>1 DEF Call!Failing, Call!Creating, Call!Posting, Call!Resending
<1>3. Call!Word \notin {"over", "stream", "remove", "removeok", "guarded"}
  BY <1>1 DEF Call!Creating
<1>4. CASE Call!Go /\ UNCHANGED held
  <2>1. Goes
    BY <1>1, <1>3, <1>4 DEF Goes, Call!Go
  <2>2. held' \subseteq Nat /\ held' \ guard' = held \ guard
    BY <1>4 DEF Call!Go, ExchangeInv, ShapeInv
  <2> QED BY <2>1, <2>2, <1>1, <1>2, <1>3, WordKeeps
<1>5. ASSUME NEW r \in {"error", "passed"}, Call!Return(r), chat' \in {chat, "lost"}
      PROVE  ExchangeInv'
  <2>1. Returns(r)
    BY <1>1, <1>2, <1>5, MayEnd DEF Call!Ends, Call!Posting
  <2> QED BY <2>1, <1>1, EndKeeps
<1> QED BY <1>4, <1>5 DEF Call!Create

LEMMA StartKeeps == ASSUME Call!ScriptsAssumption, ExchangeInv, Call!Start PROVE ExchangeInv'
<1>1. Call!Active /\ Call!Word = "start" /\ Call!Go /\ UNCHANGED <<prompts, held>>
  BY DEF Call!Start, Call!At
<1>2. Goes
  BY <1>1 DEF Goes, Call!Go
<1>3. held' \subseteq Nat /\ held' \ guard' = held \ guard
  BY <1>1 DEF Call!Go, ExchangeInv, ShapeInv
<1>4. prompts' = prompts /\ Call!Word # "guarded" /\ Call!Word \notin Call!Posting
  BY <1>1 DEF Call!Posting, Call!Resending
<1> QED BY <1>2, <1>3, <1>4, WordKeeps

LEMMA OpenKeeps == ASSUME Call!ScriptsAssumption, ExchangeInv, Call!Open PROVE ExchangeInv'
<1>1. Call!Active /\ Call!Word = "open" /\ UNCHANGED <<prompts, chat>> /\ word \in Nat
          /\ held \subseteq Nat
  BY DEF Call!Open, Call!At, ExchangeInv, ShapeInv
<1>2. Call!Word \in Call!Failing /\ Call!Word \notin Call!Posting /\ Call!Word \in Call!Opening
  BY <1>1 DEF Call!Failing, Call!Posting, Call!Resending, Call!Opening
<1>3. CASE Call!Go /\ held' = held \cup {word}
  <2>1. Goes
    BY <1>1, <1>3 DEF Goes, Call!Go
  <2>2. held' \subseteq Nat /\ \A m \in held' \ guard' : m \in held \ guard \/ m = word
    BY <1>1, <1>3 DEF Call!Go
  <2> QED BY <2>1, <2>2, <1>1, <1>2, WordKeeps
<1>4. CASE Call!Return("error")
  <2>1. Returns("error")
    BY <1>1, <1>2, <1>4, MayEnd DEF Call!Ends, Call!Posting
  <2> QED BY <2>1, <1>1, EndKeeps
<1> QED BY <1>3, <1>4 DEF Call!Open

LEMMA GuardedKeeps == ASSUME Call!ScriptsAssumption, ExchangeInv, Call!Guarded PROVE ExchangeInv'
<1>1. /\ Call!Active /\ Call!Word = "guarded" /\ held' = held /\ guard' = held /\ word' = word + 1
      /\ UNCHANGED <<adapter, out, prompts, chat, cleanup, removed>>
  BY DEF Call!Guarded, Call!At
<1>2. Goes
  BY <1>1 DEF Goes
<1>3. held' \subseteq Nat /\ held' \ guard' = {}
  BY <1>1 DEF ExchangeInv, ShapeInv
<1>4. prompts' = prompts /\ Call!Word \notin Call!Posting
  BY <1>1 DEF Call!Posting, Call!Resending
<1> QED BY <1>2, <1>3, <1>4, WordKeeps

LEMMA RegisterKeeps ==
  ASSUME Call!ScriptsAssumption, ExchangeInv, Call!Register
  PROVE  ExchangeInv'
<1>1. /\ Call!Active /\ Call!Word \in {"remove", "removeok"} /\ word' = word + 1
      /\ cleanup' = IF Call!Word = "remove" THEN "always" ELSE "complete"
      /\ UNCHANGED <<adapter, out, prompts, chat, removed, held, guard>>
  BY DEF Call!Register, Call!At
<1>2. Goes
  BY <1>1 DEF Goes
<1>3. held' \subseteq Nat /\ held' \ guard' = held \ guard
  BY <1>1 DEF ExchangeInv, ShapeInv
<1>4. prompts' = prompts /\ Call!Word # "guarded" /\ Call!Word \notin Call!Posting
  BY <1>1 DEF Call!Posting, Call!Resending
<1> QED BY <1>2, <1>3, <1>4, WordKeeps

LEMMA SkipKeeps == ASSUME Call!ScriptsAssumption, ExchangeInv, Call!Skip PROVE ExchangeInv'
<1>1. /\ Call!Active /\ Call!Word \in Call!Resending /\ Call!Last("taken") /\ Call!Go
      /\ UNCHANGED <<prompts, chat, held>>
  BY DEF Call!Skip, Call!At
<1>2. Call!Word \notin {"over", "stream", "remove", "removeok", "guarded"}
  BY <1>1 DEF Call!Resending
<1>3. Goes
  BY <1>1, <1>2 DEF Goes, Call!Go
<1>4. held' \subseteq Nat /\ held' \ guard' = held \ guard
  BY <1>1 DEF Call!Go, ExchangeInv, ShapeInv
<1> QED BY <1>1, <1>2, <1>3, <1>4, WordKeeps

LEMMA GiveUpKeeps == ASSUME Call!ScriptsAssumption, ExchangeInv, Call!GiveUp PROVE ExchangeInv'
<1>1. /\ Call!Active /\ Call!Word \in Call!Resending /\ ~Call!Last("taken")
      /\ UNCHANGED <<prompts, chat>>
  BY DEF Call!GiveUp, Call!At
<1>2. Call!Word \in Call!Failing
  BY <1>1 DEF Call!Failing, Call!Posting
<1>3. ASSUME NEW r \in {"error", "passed"}, Call!Return(r) PROVE ExchangeInv'
  <2>1. Returns(r)
    BY <1>1, <1>2, <1>3, MayEnd DEF Call!Ends
  <2> QED BY <2>1, <1>1, EndKeeps
<1> QED BY <1>3 DEF Call!GiveUp

LEMMA PostKeeps == ASSUME Call!ScriptsAssumption, ExchangeInv, Call!Post PROVE ExchangeInv'
<1>1. /\ Call!Active /\ Call!Word \in Call!Posting
           /\ (Call!Word \in Call!Resending => ~Call!Last("taken"))
      /\ chat' = chat /\ word \in Nat /\ held \subseteq Nat
      /\ ShapeInv /\ PostInv /\ HeldInv /\ RemoveInv
  BY DEF Call!Post, Call!At, ExchangeInv, ShapeInv
<1>2. Call!Word \in Call!Failing
          /\ Call!Word \notin {"over", "stream", "remove", "removeok", "guarded"}
  BY <1>1 DEF Call!Failing, Call!Posting, Call!Resending
<1>3. ~Call!Last("taken")
  <2>1. CASE Call!Word \in Call!Resending
    BY <2>1, <1>1
  <2>2. CASE Call!Word \notin Call!Resending
    <3>1. word \in DOMAIN Call!Script /\ Call!Word = Call!Script[word]
      BY <1>1, <1>2, WordHere
    <3>2. Call!Before(Call!Script, word) \cap Call!Posting = {}
      BY <2>2, <3>1, <1>1 DEF Call!ScriptsAssumption, Call!PostsOnce, ShapeInv, Call!Script
    <3> QED BY <3>2, <1>1 DEF PostInv, Call!Last
  <2> QED BY <2>1, <2>2
<1>4. ASSUME NEW fate \in {"taken", "again"}, prompts' = Append(prompts, fate), Call!Go,
             fate = "again" => Call!Following \in Call!Resending,
             held' = IF fate = "taken" THEN Call!Holding ELSE held
      PROVE  ExchangeInv'
  <2>1. Goes
    BY <1>1, <1>2, <1>4 DEF Goes, Call!Go
  <2>2. PostInv'
    BY <2>1, <1>1, <1>4, PostGoesOn
  <2>3. /\ prompts' \in Seq(Fates) /\ prompts' # <<>> /\ prompts'[Len(prompts')] = fate
    BY <1>1, <1>4, Posted DEF Fates
  <2>4. fate = "taken" => Call!Last("taken")'
    BY <2>3 DEF Call!Last
  <2>5. \A m \in held' \ guard' :
            m \in held \ guard \/ (m = word /\ Call!Word \in Call!Opening /\ fate = "taken")
    <3>1. guard' = guard
      BY <1>4 DEF Call!Go
    <3>2. Call!Word \in Call!WithBody => Call!Word \in Call!Opening
      BY DEF Call!Opening
    <3> QED BY <3>1, <3>2, <1>4 DEF Call!Holding
  <2>6. HeldInv'
    BY <2>1, <2>4, <2>5, <1>1, <1>2, <1>3, GoKeepsHeld
  <2>7. RemoveInv'
    BY <2>1, <1>1, GoKeepsRemoval
  <2>8. /\ word' \in Nat \ {0} /\ adapter' \in Call!Adapters /\ removed' \in BOOLEAN
        /\ word' <= Len(Call!Script') + 1 /\ out' \in {"running", "stream"}
    BY <2>1, <1>1, GoesOn
  <2>9. held' \subseteq Nat
    BY <1>1, <1>4 DEF Call!Holding
  <2>10. ShapeInv'
    BY <2>3, <2>8, <2>9 DEF ShapeInv
  <2> QED BY <2>2, <2>6, <2>7, <2>10 DEF ExchangeInv
<1>5. ASSUME NEW fate \in {"refused", "lost"}, prompts' = Append(prompts, fate),
             NEW r \in {"error", "passed"}, Call!Return(r)
      PROVE  ExchangeInv'
  <2>1. Returns(r)
    BY <1>1, <1>2, <1>3, <1>5, MayEnd DEF Call!Ends
  <2>2. PostInv'
    BY <2>1, <1>1, <1>5, PostEnds
  <2>3. prompts' \in Seq(Fates)
    BY <1>1, <1>5, Posted DEF Fates
  <2>4. HeldInv'
    BY <2>1, <1>1, EndClosesAll
  <2>5. RemoveInv'
    BY <2>1, <1>1, EndRemoves
  <2>6. /\ word' = word /\ adapter' \in Call!Adapters /\ removed' \in BOOLEAN
        /\ held' \subseteq Nat
        /\ out' \in Call!Ends /\ ~Call!Active'
    BY <2>1, <1>1, EndsHere
  <2>7. ShapeInv'
    BY <2>3, <2>6, <1>1 DEF ShapeInv
  <2> QED BY <2>2, <2>4, <2>5, <2>7 DEF ExchangeInv
<1>6. ~Call!MayResend("lost")
  BY DEF Call!MayResend
<1> QED BY <1>4, <1>5, <1>6 DEF Call!Post

LEMMA CollectKeeps == ASSUME Call!ScriptsAssumption, ExchangeInv, Call!Collect PROVE ExchangeInv'
<1>1. Call!Active /\ Call!Word = "collect" /\ UNCHANGED <<prompts, chat>>
  BY DEF Call!Collect, Call!At
<1>2. Call!Word \in Call!Failing /\ Call!Word \notin Call!Resending
  BY <1>1 DEF Call!Failing, Call!Resending
<1>3. ASSUME NEW r \in {"done", "error"}, Call!Return(r) PROVE ExchangeInv'
  <2>1. Returns(r)
    BY <1>1, <1>2, <1>3, MayEnd DEF Call!Ends
  <2> QED BY <2>1, <1>1, EndKeeps
<1> QED BY <1>3 DEF Call!Collect

LEMMA HandoverKeeps ==
  ASSUME Call!ScriptsAssumption, ExchangeInv, Call!Handover
  PROVE  ExchangeInv'
<1>1. /\ Call!Active /\ Call!Word = "stream" /\ out' = "stream" /\ word' = word + 1
      /\ UNCHANGED <<adapter, prompts, chat, cleanup, removed, held, guard>>
  BY DEF Call!Handover, Call!At
<1>2. Goes
  BY <1>1 DEF Goes
<1>3. held' \subseteq Nat /\ held' \ guard' = held \ guard
  BY <1>1 DEF ExchangeInv, ShapeInv
<1>4. prompts' = prompts /\ Call!Word # "guarded" /\ Call!Word \notin Call!Posting
  BY <1>1 DEF Call!Posting, Call!Resending
<1> QED BY <1>2, <1>3, <1>4, WordKeeps

LEMMA StreamEnds ==
    ASSUME Call!ScriptsAssumption, ExchangeInv, Call!Drain \/ Call!CloseEarly PROVE ExchangeInv'
<1>1. out = "stream" /\ UNCHANGED <<prompts, chat>> /\ Call!Active
  BY DEF Call!Drain, Call!CloseEarly, Call!Active
<1>2. ASSUME NEW r \in {"done", "error", "cut"}, Call!Return(r), r = "done" => Call!Word = "over"
      PROVE  ExchangeInv'
  <2>1. Returns(r)
    BY <1>1, <1>2 DEF Returns, Call!Ends
  <2> QED BY <2>1, <1>1, EndKeeps
<1> QED BY <1>2 DEF Call!Drain, Call!CloseEarly

LEMMA ExchangeStep ==
  ASSUME Call!ScriptsAssumption, ExchangeInv, [Call!Next]_(Call!vars)
  PROVE  ExchangeInv'
<1>1. CASE UNCHANGED Call!vars
  <2>1. Call!Script' = Call!Script /\ Call!Word' = Call!Word /\ Call!Active' = Call!Active
    BY <1>1 DEF Call!vars, Call!Script, Call!Word, Call!Active
  <2>2. Call!Last("taken")' = Call!Last("taken") /\ Call!Last("again")' = Call!Last("again")
    BY <1>1 DEF Call!vars, Call!Last
  <2>3. ShapeInv'
    BY <1>1, <2>1 DEF Call!vars, ExchangeInv, ShapeInv
  <2>4. PostInv'
    BY <1>1, <2>1, <2>2 DEF Call!vars, ExchangeInv, PostInv
  <2>5. HeldInv'
    BY <1>1, <2>1, <2>2 DEF Call!vars, ExchangeInv, HeldInv
  <2>6. RemoveInv'
    BY <1>1, <2>1 DEF Call!vars, ExchangeInv, RemoveInv
  <2> QED BY <2>3, <2>4, <2>5, <2>6 DEF ExchangeInv
<1>2. CASE Call!Check \/ Call!Lock \/ Call!Try \/ Call!Ask \/ Call!Create \/ Call!Start
               \/ Call!Open
  BY <1>2, CheckKeeps, LockWordKeeps, TryKeeps, AskWordKeeps, CreateKeeps, StartKeeps, OpenKeeps
<1>3. CASE Call!Guarded \/ Call!Register \/ Call!Skip \/ Call!GiveUp \/ Call!Post
  BY <1>3, GuardedKeeps, RegisterKeeps, SkipKeeps, GiveUpKeeps, PostKeeps
<1>4. CASE Call!Collect \/ Call!Handover \/ Call!Drain \/ Call!CloseEarly
  BY <1>4, CollectKeeps, HandoverKeeps, StreamEnds
<1> QED BY <1>1, <1>2, <1>3, <1>4 DEF Call!Next, Call!Ended


(* An adapter whose script keeps to the discipline posts a prompt again    *)
(* only when the upstream turned it away (MayResend), answers only with    *)
(* what the last post brought, and refuses a request only before it posts  *)
(* anything, limits on the length of an answer excepted.                   *)
THEOREM PromptsArePostedOnce ==
    ASSUME Call!ScriptsAssumption
    PROVE  Call!Spec => []PromptOnce
<1>1. Call!Init => ExchangeInv
  BY InitExchange
<1>2. ExchangeInv /\ [Call!Next]_(Call!vars) => ExchangeInv'
  BY ExchangeStep
<1>3. ExchangeInv => PromptOnce
  BY DEF ExchangeInv, PostInv, PromptOnce, Call!PromptOnce, Call!UnsupportedIsEarly
<1> QED BY <1>1, <1>2, <1>3, PTL DEF Call!Spec

(* However the exchange of such an adapter ends, everything it opened is   *)
(* closed, and its temporary conversation is removed (Return, RemovedAt).  *)
THEOREM NothingStaysOpen ==
    ASSUME Call!ScriptsAssumption
    PROVE  Call!Spec => []NothingLeftOpen
<1>1. Call!Init => ExchangeInv
  BY InitExchange
<1>2. ExchangeInv /\ [Call!Next]_(Call!vars) => ExchangeInv'
  BY ExchangeStep
<1>3. ExchangeInv => NothingLeftOpen
  BY DEF ExchangeInv, HeldInv, RemoveInv, NothingLeftOpen, Call!NothingLeftOpen,
         Call!ConversationsRemoved
<1> QED BY <1>1, <1>2, <1>3, PTL DEF Call!Spec

-----------------------------------------------------------------------------
(* Sessions behind a gate: the inductive invariant                         *)

\* Where a turn is in its life.
StageInv ==
  \A t \in Turns :
    /\ turn[t].pc = "idle" => turn[t].obj = Gated!None /\ turn[t].at = <<0, 0>>
    /\ turn[t].pc \notin {"idle", "over"} => turn[t].obj \in Gated!Objects
    /\ turn[t].obj = Gated!None => turn[t].chat = Gated!None
    /\ turn[t].pc \in {"idle", "wait"} => turn[t].chat = Gated!None /\ ~turn[t].released
    /\ turn[t].pc = "create" => Gated!Creates

\* A turn that talks has the gate of its object and will release it.
GateInv ==
  /\ \A t \in Turns : Gated!Talking(t) => gate[turn[t].obj] /\ ~turn[t].released
  /\ \A t \in Turns : turn[t].pc \in {"ended", "loose"} => turn[t].released
  /\ Gated!OneTurnAtATime

\* The object of a key was made for a turn of the key, since its last clear.
TableInv ==
  \A k \in Keys : table[k] # Gated!None =>
    /\ \E u \in Turns : turn[u].obj = table[k]
    /\ \A u \in Turns : turn[u].obj = table[k] =>
         turn[u].key = k /\ turn[u].at[1] = changed[k][1]

\* The turns of an object have its key and asked for it between the same two
\* clears; an object without a key has one turn.
ObjectInv ==
  \A t, u \in Turns : turn[t].obj = turn[u].obj /\ turn[t].obj # Gated!None =>
    /\ turn[t].key = turn[u].key /\ turn[t].at[1] = turn[u].at[1]
    /\ turn[t].key = Private => t = u

\* No turn asked later than now.
TimeInv ==
  \A t \in Turns : /\ turn[t].at[1] <= Gated!Now(turn[t].key)[1]
                   /\ turn[t].at[2] <= Gated!Now(turn[t].key)[2]

OwnerInv == TableInv /\ ObjectInv /\ TimeInv

\* Turn t can read or write the chat c.
Holds(t, c) ==
  turn[t].obj # Gated!None /\ (turn[t].chat = c \/ session[turn[t].obj].chat = c)

\* Every id that is kept names a chat that was begun.
IdInv ==
  /\ \A t \in Turns : turn[t].chat \in 0..Len(chats)
  /\ \A o \in Gated!Objects : session[o].chat \in 0..Len(chats)

\* A chat is held with the key it was begun for and not before the last clear
\* that its holder knows, and by the turns of one object only.
ChatInv ==
  \A c \in 1..Len(chats) : \A t \in Turns : Holds(t, c) =>
    /\ chats[c].key = turn[t].key /\ chats[c].at[1] >= turn[t].at[1]
    /\ \A u \in Turns : Holds(u, c) => turn[u].obj = turn[t].obj

\* Local ids: an object has a chat, no older than the last expiry its turns
\* know; a session that is not expired, than the last one there was.
LocalInv ==
  kind = "local" =>
    /\ \A t \in Turns : turn[t].obj # Gated!None =>
         /\ session[turn[t].obj].chat # Gated!None
         /\ chats[session[turn[t].obj].chat].at[2] >= turn[t].at[2]
    /\ \A t \in Turns : turn[t].chat # Gated!None => chats[turn[t].chat].at[2] >= turn[t].at[2]
    /\ \A k \in Keys : table[k] # Gated!None /\ ~session[table[k]].expired =>
         chats[session[table[k]].chat].at[2] >= changed[k][2]

\* The turns that have begun a chat if they ever do.
Past(t) == CASE kind = "local" -> turn[t].pc # "idle"
             [] kind = "told" -> turn[t].chat # Gated!None
             [] OTHER -> turn[t].pc \notin {"idle", "wait", "create"}

CountInv == Len(chats) <= Cardinality({t \in Turns : Past(t)})

GatedInv ==
  /\ Gated!TypeOK /\ StageInv /\ GateInv /\ OwnerInv
  /\ IdInv /\ ChatInv /\ LocalInv /\ CountInv

-----------------------------------------------------------------------------
(* The instance counts as FiniteSets does.                                 *)
LEMMA SameCount ==
  \A X : (Gated!IsFiniteSet(X) <=> IsFiniteSet(X)) /\ Gated!Cardinality(X) = Cardinality(X)
<1>1. \A X : Gated!IsFiniteSet(X) <=> IsFiniteSet(X)
  BY DEF Gated!IsFiniteSet, IsFiniteSet
<1>2. ASSUME NEW X PROVE Gated!Cardinality(X) = Cardinality(X)
  BY DEF Gated!Cardinality, Cardinality
<1> QED BY <1>1, <1>2

-----------------------------------------------------------------------------
(* The initial state                                                       *)

LEMMA InitSessions == ASSUME Gated!SessionsAssumption, Gated!Init PROVE GatedInv
<1> USE DEF Gated!None, Gated!Objects
<1>1. 0 \notin Turns /\ Cardinality(Turns) \in Nat
  BY SameCount, FS_CardinalityType DEF Gated!SessionsAssumption
<1>2. \A t \in Turns : turn[t] = Gated!NoTurn
  BY DEF Gated!Init
<1>3. chats = <<>> /\ Len(chats) = 0
  BY DEF Gated!Init
<1>4. Gated!TypeOK
  <2>1. kind \in Kinds /\ table \in [Keys -> Turns \cup {0}] /\ gate \in [Turns -> BOOLEAN]
    BY DEF Gated!Init
  <2>2. session \in [Turns -> Gated!Entries]
    BY SameCount, <1>1 DEF Gated!Init, Gated!EmptyEntry, Gated!MaxChats, Gated!Entries
  <2>3. Gated!Known = {}
    BY DEF Gated!Init, Gated!Known
  <2>4. Cardinality(Gated!Known) <= MaxSessions
    BY SameCount, <2>3, FS_EmptySet DEF Gated!SessionsAssumption
  <2>5. turn \in [Turns -> Gated!Calls]
    BY SameCount, <1>1 DEF Gated!Init, Gated!NoTurn, Gated!MaxChats, Gated!PCs, Gated!Times, Gated!Calls
  <2>6. chats \in Seq([key : Keys \cup {Private}, at : Gated!Times])
    BY <1>3
  <2>7. changed \in [Keys -> Gated!Times]
    BY DEF Gated!Init, Gated!Times
  <2> QED BY SameCount, <2>1, <2>2, <2>4, <2>5, <2>6, <2>7 DEF Gated!TypeOK
<1>5. StageInv
  BY <1>2 DEF StageInv, Gated!NoTurn
<1>6. GateInv
  BY <1>2 DEF GateInv, Gated!NoTurn, Gated!Talking, Gated!OneTurnAtATime
<1>7. OwnerInv
  <2>1. TableInv
    BY DEF Gated!Init, TableInv
  <2>2. ObjectInv
    BY <1>2 DEF ObjectInv, Gated!NoTurn
  <2>3. TimeInv
    BY <1>2 DEF TimeInv, Gated!NoTurn, Gated!Now
  <2> QED BY <2>1, <2>2, <2>3 DEF OwnerInv
<1>8. IdInv
  BY <1>2, <1>3 DEF IdInv, Gated!Init, Gated!NoTurn, Gated!EmptyEntry
<1>9. ChatInv
  BY <1>3 DEF ChatInv
<1>10. LocalInv
  BY <1>2 DEF LocalInv, Gated!Init, Gated!NoTurn
<1>11. CountInv
  <2>1. {t \in Turns : Past(t)} \subseteq Turns
    OBVIOUS
  <2>2. IsFiniteSet({t \in Turns : Past(t)})
    BY SameCount, <2>1, FS_Subset DEF Gated!SessionsAssumption
  <2>3. Cardinality({t \in Turns : Past(t)}) \in Nat
    BY <2>2, FS_CardinalityType
  <2> QED BY <1>3, <2>3 DEF CountInv
<1> QED BY <1>4, <1>5, <1>6, <1>7, <1>8, <1>9, <1>10, <1>11 DEF GatedInv

-----------------------------------------------------------------------------
(* Counting chats                                                          *)

\* The number of turns past the point where they begin a chat.
LEMMA PastIsFinite ==
  ASSUME Gated!SessionsAssumption, NEW P \in SUBSET Turns
  PROVE  IsFiniteSet(P) /\ Cardinality(P) \in Nat /\ Cardinality(P) <= Cardinality(Turns)
<1>1. IsFiniteSet(P) /\ Cardinality(P) <= Cardinality(Turns)
  BY SameCount, FS_Subset DEF Gated!SessionsAssumption
<1> QED BY <1>1, FS_CardinalityType

\* No chat is begun and no turn goes back.
LEMMA CountKept ==
  ASSUME Gated!SessionsAssumption, CountInv, Len(chats) \in Nat, Len(chats') = Len(chats),
         \A t \in Turns : Past(t) => Past(t)'
  PROVE  CountInv'
<1> DEFINE P == {t \in Turns : Past(t)}
           Q == {t \in Turns : Past(t)'}
<1>1. P \in SUBSET Q /\ P \in SUBSET Turns /\ Q \in SUBSET Turns
  OBVIOUS
<1>2. IsFiniteSet(Q) /\ Cardinality(P) \in Nat /\ Cardinality(Q) \in Nat
  BY <1>1, PastIsFinite
<1>3. Cardinality(P) <= Cardinality(Q)
  BY <1>1, <1>2, FS_Subset
<1>4. Len(chats) <= Cardinality(P)
  BY DEF CountInv
<1>5. Len(chats') <= Cardinality(Q)
  BY <1>2, <1>3, <1>4
<1> QED BY <1>5 DEF CountInv

\* A chat is begun by a turn that had not begun one.
LEMMA CountAdded ==
  ASSUME Gated!SessionsAssumption, CountInv, Len(chats) \in Nat, Len(chats') = Len(chats) + 1,
         NEW t \in Turns, ~Past(t), Past(t)',
         \A u \in Turns : Past(u) => Past(u)'
  PROVE  CountInv'
<1> DEFINE P == {u \in Turns : Past(u)}
           Q == {u \in Turns : Past(u)'}
<1>1. P \cup {t} \in SUBSET Q /\ P \in SUBSET Turns /\ Q \in SUBSET Turns /\ t \notin P
  OBVIOUS
<1>2. IsFiniteSet(P) /\ IsFiniteSet(Q) /\ Cardinality(P) \in Nat /\ Cardinality(Q) \in Nat
  BY <1>1, PastIsFinite
<1>3. Cardinality(P \cup {t}) = Cardinality(P) + 1
  BY <1>1, <1>2, FS_AddElement
<1>4. Cardinality(P \cup {t}) <= Cardinality(Q)
  BY <1>1, <1>2, FS_Subset
<1>5. Len(chats) <= Cardinality(P)
  BY DEF CountInv
<1>6. Len(chats') <= Cardinality(Q)
  BY <1>2, <1>3, <1>4, <1>5
<1> QED BY <1>6 DEF CountInv

-----------------------------------------------------------------------------
(* Steps that leave the conversations alone                                *)

\* The objects, keys, times and chats of the turns stay as they are.
SameChats ==
  /\ \A u \in Turns : /\ turn'[u].obj = turn[u].obj
                      /\ \/ turn'[u].key = turn[u].key
                         \/ turn[u].pc = "idle" /\ turn'[u].key \in Keys \cup {Private}
                      /\ turn'[u].at = turn[u].at /\ turn'[u].chat = turn[u].chat
                      /\ turn[u].pc # "idle" => turn'[u].pc # "idle"
                      /\ turn'[u].pc \in {"idle", "wait", "create"} =>
                           turn[u].pc \in {"idle", "wait", "create"}
  /\ \A o \in Gated!Objects : /\ session'[o].chat = session[o].chat
                              /\ session'[o].expired = session[o].expired
  /\ UNCHANGED <<kind, table, chats, changed>>

LEMMA SameChatsKeeps ==
  ASSUME Gated!SessionsAssumption, GatedInv, SameChats
  PROVE  OwnerInv' /\ IdInv' /\ ChatInv' /\ LocalInv' /\ CountInv'
<1>1. /\ OwnerInv /\ IdInv /\ ChatInv /\ LocalInv /\ CountInv /\ Gated!TypeOK
  BY DEF GatedInv
<1>2. /\ \A u \in Turns : turn[u].obj \in Gated!Objects \cup {Gated!None}
      /\ \A k \in Keys : table[k] \in Gated!Objects \cup {Gated!None}
      /\ Len(chats) \in Nat
  BY <1>1 DEF Gated!TypeOK, Gated!Calls
<1>9. \A u \in Turns : turn[u].obj # Gated!None => turn'[u].key = turn[u].key
  BY DEF GatedInv, StageInv, SameChats
<1>3. OwnerInv'
  <2>1. TableInv'
    BY <1>1, <1>9 DEF OwnerInv, TableInv, SameChats
  <2>2. ObjectInv'
    BY <1>1, <1>9 DEF OwnerInv, ObjectInv, SameChats
  <2>3. TimeInv'
    <3>1. \A k \in Keys : changed[k] \in Gated!Times
      BY <1>1 DEF Gated!TypeOK
    <3>2. \A u \in Turns : turn[u].key \in Keys \cup {Private}
      BY <1>1 DEF Gated!TypeOK, Gated!Calls
    <3> SUFFICES ASSUME NEW u \in Turns
                 PROVE  (/\ turn[u].at[1] <= Gated!Now(turn[u].key)[1]
                         /\ turn[u].at[2] <= Gated!Now(turn[u].key)[2])'
      BY DEF TimeInv
    <3>3. CASE turn'[u].key = turn[u].key
      <4>1. Gated!Now(turn[u].key)' = Gated!Now(turn[u].key)
        BY <3>3 DEF Gated!Now, SameChats
      <4> QED BY <4>1, <1>1 DEF OwnerInv, TimeInv, SameChats
    <3>4. CASE turn[u].pc = "idle" /\ turn'[u].key \in Keys \cup {Private}
      <4>1. turn'[u].at = <<0, 0>>
        BY <3>4 DEF GatedInv, StageInv, SameChats
      <4>2. changed' = changed
        BY DEF SameChats
      <4>3. Gated!Now(turn[u].key)'[1] \in Nat /\ Gated!Now(turn[u].key)'[2] \in Nat
        <5>1. CASE turn'[u].key = Private
          BY <5>1 DEF Gated!Now
        <5>2. CASE turn'[u].key \in Keys
          <6>1. Gated!Now(turn[u].key)' = changed[turn'[u].key]
            BY <5>2, <4>2 DEF Gated!Now, Gated!SessionsAssumption
          <6> QED BY <6>1, <5>2, <3>1 DEF Gated!Times
        <5> QED BY <5>1, <5>2, <3>4
      <4> QED BY <4>1, <4>3
    <3> QED BY <3>3, <3>4 DEF SameChats
  <2> QED BY <2>1, <2>2, <2>3 DEF OwnerInv
<1>4. IdInv'
  BY <1>1 DEF IdInv, SameChats
<1>5. \A t \in Turns : \A c : Holds(t, c)' <=> Holds(t, c)
  BY <1>2 DEF Holds, SameChats
<1>6. ChatInv'
  <2> SUFFICES ASSUME NEW c \in 1..Len(chats), NEW t \in Turns, Holds(t, c)
               PROVE  /\ chats[c].key = turn'[t].key /\ chats[c].at[1] >= turn'[t].at[1]
                      /\ \A u \in Turns : Holds(u, c) => turn'[u].obj = turn'[t].obj
    BY <1>5 DEF ChatInv, SameChats
  <2>1. turn'[t].key = turn[t].key
    BY <1>9 DEF Holds
  <2> QED BY <2>1, <1>1 DEF ChatInv, SameChats
<1>7. LocalInv'
  BY <1>1, <1>2, SMTT(30) DEF LocalInv, SameChats
<1>8. CountInv'
  <2>1. \A u \in Turns : Past(u) => Past(u)'
    BY DEF Past, SameChats
  <2> QED BY <2>1, <1>1, <1>2, CountKept DEF SameChats
<1> QED BY <1>3, <1>4, <1>6, <1>7, <1>8

\* A turn ends, in one of the ways it may, or goes on without a new chat.
LEMMA TurnMoves ==
  ASSUME Gated!SessionsAssumption, GatedInv, NEW t \in Turns, NEW p \in Gated!PCs,
         NEW r \in BOOLEAN,
         turn' = [turn EXCEPT ![t].pc = p, ![t].released = r],
         session' = session \/ session' = [session EXCEPT ![turn[t].obj].parent = t],
         turn[t].pc \notin {"idle", "wait", "over"}, p \notin {"idle", "wait", "create"},
         UNCHANGED <<kind, table, chats, changed>>,
         \/ Gated!Talking(t) /\ p = "stream" /\ r = turn[t].released /\ gate' = gate
         \/ p \in {"over", "ended", "loose"} /\ r = TRUE /\ gate' = Gated!Release(t)
         \/ turn[t].pc \in {"ended", "loose"} /\ p = "over" /\ gate' = gate
  PROVE  GatedInv'
<1>1. Gated!TypeOK /\ StageInv /\ GateInv
  BY DEF GatedInv
<1>2. /\ \A u \in Turns \ {t} : turn'[u] = turn[u]
      /\ turn'[t] = [turn[t] EXCEPT !.pc = p, !.released = r]
      /\ turn[t].obj \in Gated!Objects
  BY <1>1 DEF Gated!TypeOK, StageInv
<1>3. /\ turn'[t].pc = p /\ turn'[t].released = r /\ turn'[t].key = turn[t].key
      /\ turn'[t].obj = turn[t].obj /\ turn'[t].at = turn[t].at /\ turn'[t].chat = turn[t].chat
  BY <1>1, <1>2 DEF Gated!TypeOK
<1>4. \A o \in Gated!Objects : /\ session'[o].chat = session[o].chat
                               /\ session'[o].expired = session[o].expired
                               /\ session'[o] \in Gated!Entries
  <2>1. session \in [Gated!Objects -> Gated!Entries]
    BY <1>1 DEF Gated!TypeOK
  <2>2. CASE session' = session
    BY <2>1, <2>2
  <2>3. CASE session' = [session EXCEPT ![turn[t].obj].parent = t]
    <3>1. PICK o : o = turn[t].obj
      OBVIOUS
    <3>2. session' = [session EXCEPT ![o].parent = t]
      BY <2>3, <3>1
    <3> QED BY <2>1, <3>2 DEF Gated!Entries
  <2> QED BY <2>2, <2>3
<1>5. SameChats
  BY <1>2, <1>3, <1>4 DEF SameChats
<1>6. Gated!TypeOK'
  <2>1. turn' \in [Turns -> Gated!Calls]
    <3>1. turn \in [Turns -> Gated!Calls]
      BY <1>1 DEF Gated!TypeOK
    <3>2. \A u \in Turns :
            turn'[u] = IF u = t THEN [turn[t] EXCEPT !.pc = p, !.released = r] ELSE turn[u]
      BY <1>2
    <3>3. turn' = [u \in Turns |-> turn'[u]]
      BY <3>1
    <3>4. [turn[t] EXCEPT !.pc = p, !.released = r] \in Gated!Calls
      BY <3>1 DEF Gated!Calls
    <3> QED BY <3>1, <3>2, <3>3, <3>4
  <2>2. session' \in [Gated!Objects -> Gated!Entries]
    <3>1. DOMAIN session' = Gated!Objects /\ session' = [o \in Gated!Objects |-> session'[o]]
      BY <1>1 DEF Gated!TypeOK
    <3> QED BY <3>1, <1>4
  <2>3. gate' \in [Gated!Objects -> BOOLEAN]
    BY <1>1 DEF Gated!TypeOK, Gated!Release
  <2>4. Gated!Known' = Gated!Known
    BY DEF Gated!Known
  <2> QED BY <1>1, <2>1, <2>2, <2>3, <2>4 DEF Gated!TypeOK
<1>7. StageInv'
  <2> SUFFICES ASSUME NEW u \in Turns
               PROVE  (/\ turn[u].pc = "idle" => turn[u].obj = Gated!None /\ turn[u].at = <<0, 0>>
                       /\ turn[u].pc \notin {"idle", "over"} => turn[u].obj \in Gated!Objects
                       /\ turn[u].obj = Gated!None => turn[u].chat = Gated!None
                       /\ turn[u].pc \in {"idle", "wait"} =>
                            turn[u].chat = Gated!None /\ ~turn[u].released
                       /\ turn[u].pc = "create" => Gated!Creates)'
    BY DEF StageInv
  <2>1. Gated!Creates' = Gated!Creates
    BY DEF Gated!Creates
  <2>2. CASE u = t
    BY <2>2, <1>1, <1>2, <1>3 DEF StageInv
  <2>3. CASE u # t
    BY <2>1, <2>3, <1>1, <1>2, ZenonT(30) DEF StageInv
  <2> QED BY <2>2, <2>3
<1>8. GateInv'
  <2>1. Gated!OneTurnAtATime'
    <3>1. \A u \in Turns : Gated!Talking(u)' => Gated!Talking(u)
      BY <1>2, <1>3 DEF Gated!Talking
    <3>2. \A u \in Turns : turn'[u].obj = turn[u].obj
      BY <1>2, <1>3
    <3>3. Gated!OneTurnAtATime
      BY <1>1 DEF GateInv
    <3> QED BY <3>1, <3>2, <3>3 DEF Gated!OneTurnAtATime
  <2>2. ASSUME NEW u \in Turns, Gated!Talking(u)'
        PROVE  gate'[turn'[u].obj] /\ ~turn'[u].released
    <3>1. Gated!Talking(u) /\ turn'[u].obj = turn[u].obj /\ turn'[u].released = turn[u].released
      BY <2>2, <1>2, <1>3 DEF Gated!Talking
    <3>2. gate[turn[u].obj] /\ ~turn[u].released /\ turn[u].obj \in Gated!Objects
      BY <3>1, <1>1 DEF GateInv, StageInv, Gated!Talking
    <3>3. CASE gate' = gate
      BY <3>1, <3>2, <3>3
    <3>4. CASE gate' = Gated!Release(t) /\ r = TRUE
      <4>1. u # t
        BY <3>1, <3>2, <3>4, <1>3
      <4>2. ~turn[t].released => Gated!Talking(t)
        <5>1. turn[t].pc \in Gated!PCs
          BY <1>1 DEF Gated!TypeOK, Gated!Calls
        <5>2. turn[t].pc \in {"ended", "loose"} => turn[t].released
          BY <1>1 DEF GateInv
        <5> QED BY <5>1, <5>2 DEF Gated!Talking, Gated!PCs
      <4>3. CASE turn[t].released
        BY <4>3, <3>1, <3>2, <3>4 DEF Gated!Release
      <4>4. CASE ~turn[t].released /\ Gated!Talking(t)
        <5>1. turn[u].obj # turn[t].obj
          BY <4>1, <4>4, <3>1, <1>1 DEF GateInv, Gated!OneTurnAtATime
        <5> QED BY <5>1, <4>4, <3>1, <3>2, <3>4, <1>1 DEF Gated!Release, Gated!TypeOK
      <4> QED BY <4>2, <4>3, <4>4
    <3> QED BY <3>3, <3>4
  <2>3. \A u \in Turns : turn'[u].pc \in {"ended", "loose"} => turn'[u].released
    BY <1>1, <1>2, <1>3 DEF GateInv
  <2> QED BY <2>1, <2>2, <2>3 DEF GateInv
<1> QED BY <1>5, <1>6, <1>7, <1>8, SameChatsKeeps DEF GatedInv

LEMMA StepKeeps ==
  ASSUME Gated!SessionsAssumption, GatedInv, NEW t \in Turns,
         \/ Gated!Fail(t) \/ Gated!Refused(t) \/ Gated!Accepted(t) \/ Gated!Drained(t)
              \/ Gated!CloseBody(t)
         \/ Gated!ConverterEnds(t)
  PROVE  GatedInv'
<1>1. turn[t] \in Gated!Calls /\ turn \in [Turns -> Gated!Calls]
  BY DEF GatedInv, Gated!TypeOK
<1>2. turn[t].released \in BOOLEAN
  BY <1>1 DEF Gated!Calls
<1>3. Gated!Answered(t) =>
          session' = session \/ session' = [session EXCEPT ![turn[t].obj].parent = t]
  BY DEF Gated!Answered
<1>4. Gated!Release(t) = Gated!ReleaseOnReturn(t)
  BY DEF Gated!ReleaseOnReturn
<1>5. CASE Gated!Fail(t)
  <2>1. /\ turn[t].pc \in {"create", "post"} /\ gate' = Gated!Release(t) /\ session' = session
        /\ turn' = [turn EXCEPT ![t].pc = "over", ![t].released = TRUE]
        /\ UNCHANGED <<kind, table, chats, changed>>
    BY <1>4, <1>5 DEF Gated!Fail, Gated!End
  <2> QED BY <2>1, TurnMoves DEF Gated!PCs
<1>6. CASE Gated!Refused(t)
  <2>1. /\ turn[t].pc = "post" /\ gate' = Gated!Release(t)
        /\ turn' = [turn EXCEPT ![t].pc = "over", ![t].released = TRUE]
        /\ UNCHANGED <<kind, table, chats, changed>>
    BY <1>4, <1>6 DEF Gated!Refused, Gated!End
  <2>2. Gated!Answered(t)
    BY <1>6 DEF Gated!Refused
  <2> QED BY <2>1, <2>2, <1>3, TurnMoves DEF Gated!PCs
<1>7. CASE Gated!Accepted(t)
  <2>1. /\ turn[t].pc = "post" /\ gate' = gate /\ Gated!Answered(t)
        /\ turn' = [turn EXCEPT ![t].pc = "stream"]
        /\ UNCHANGED <<kind, table, chats, changed>>
    BY <1>7 DEF Gated!Accepted
  <2>2. PICK r \in BOOLEAN : r = turn[t].released
    BY <1>2
  <2>3. turn' = [turn EXCEPT ![t].pc = "stream", ![t].released = r]
    BY <2>1, <2>2, <1>1 DEF Gated!Calls
  <2>4. Gated!Talking(t)
    BY <2>1 DEF Gated!Talking
  <2> QED BY <2>1, <2>2, <2>3, <2>4, <1>3, TurnMoves DEF Gated!PCs
<1>8. CASE Gated!Drained(t)
  <2>1. /\ turn[t].pc = "stream" /\ gate' = Gated!Release(t) /\ session' = session
        /\ turn' = [turn EXCEPT ![t].pc = "ended", ![t].released = TRUE]
        /\ UNCHANGED <<kind, table, chats, changed>>
    BY <1>8 DEF Gated!Drained, Gated!End
  <2> QED BY <2>1, TurnMoves DEF Gated!PCs
<1>9. CASE Gated!CloseBody(t)
  <2>1. PICK p \in {"over", "loose"} : p = IF turn[t].pc = "ended" THEN "over" ELSE "loose"
    OBVIOUS
  <2>2. /\ turn[t].pc \in {"ended", "stream"} /\ gate' = Gated!Release(t) /\ session' = session
        /\ turn' = [turn EXCEPT ![t].pc = p, ![t].released = TRUE]
        /\ UNCHANGED <<kind, table, chats, changed>>
    BY <2>1, <1>9 DEF Gated!CloseBody, Gated!End
  <2>3. p \in Gated!PCs
    BY <2>1 DEF Gated!PCs
  <2> QED BY <2>1, <2>2, <2>3, TurnMoves
<1>10. CASE Gated!ConverterEnds(t)
  <2>1. /\ turn[t].pc = "loose" /\ gate' = gate /\ session' = session
        /\ turn' = [turn EXCEPT ![t].pc = "over"]
        /\ UNCHANGED <<kind, table, chats, changed>>
    BY <1>10 DEF Gated!ConverterEnds
  <2>2. PICK r \in BOOLEAN : r = turn[t].released
    BY <1>2
  <2>3. turn' = [turn EXCEPT ![t].pc = "over", ![t].released = r]
    BY <2>1, <2>2, <1>1 DEF Gated!Calls
  <2> QED BY <2>1, <2>2, <2>3, TurnMoves DEF Gated!PCs
<1> QED BY <1>5, <1>6, <1>7, <1>8, <1>9, <1>10

LEMMA ToldParentKeeps ==
  ASSUME Gated!SessionsAssumption, GatedInv, NEW t \in Turns, Gated!ToldParent(t) PROVE GatedInv'
<1>1. turn \in [Turns -> Gated!Calls]
  BY DEF GatedInv, Gated!TypeOK
<1>2. turn[t].released \in BOOLEAN /\ turn[t].pc \in {"stream", "loose"}
  BY <1>1 DEF Gated!Calls, Gated!ToldParent
<1>3. PICK p \in {"stream", "loose"}, r \in BOOLEAN : p = turn[t].pc /\ r = turn[t].released
  BY <1>2
<1>4. turn' = [turn EXCEPT ![t].pc = p, ![t].released = r]
  BY <1>1, <1>3 DEF Gated!Calls, Gated!ToldParent
<1>5. /\ gate' = gate /\ session' = [session EXCEPT ![turn[t].obj].parent = t]
      /\ UNCHANGED <<kind, table, chats, changed>>
  BY DEF Gated!ToldParent
<1>6. CASE p = "stream"
  <2>1. Gated!Talking(t)
    BY <1>3, <1>6 DEF Gated!Talking
  <2> QED BY <2>1, <1>3, <1>4, <1>5, <1>6, TurnMoves DEF Gated!PCs
<1>7. CASE p = "loose"
  <2>1. r = TRUE
    BY <1>3, <1>7 DEF GatedInv, GateInv
  <2>2. gate' = Gated!Release(t)
    BY <2>1, <1>3, <1>5 DEF Gated!Release
  <2> QED BY <2>1, <2>2, <1>3, <1>4, <1>5, <1>7, TurnMoves DEF Gated!PCs
<1> QED BY <1>3, <1>6, <1>7

LEMMA LeaveKeeps ==
  ASSUME Gated!SessionsAssumption, GatedInv, NEW t \in Turns,
         Gated!LeaveQueue(t) \/ \E k \in Keys \cup {Private} : Gated!Refuse(t, k)
  PROVE  GatedInv'
<1>1. Gated!TypeOK /\ StageInv /\ GateInv /\ turn \in [Turns -> Gated!Calls]
  BY DEF GatedInv, Gated!TypeOK
<1>2. PICK k \in Keys \cup {Private} : turn' = [turn EXCEPT ![t].pc = "over", ![t].key = k]
                                       /\ (k = turn[t].key \/ turn[t].pc = "idle")
  <2>1. CASE Gated!LeaveQueue(t)
    <3>1. turn' = [turn EXCEPT ![t].pc = "over", ![t].key = turn[t].key]
      BY <2>1, <1>1 DEF Gated!LeaveQueue, Gated!Calls
    <3>2. turn[t].key \in Keys \cup {Private}
      BY <1>1 DEF Gated!Calls
    <3> QED BY <3>1, <3>2
  <2>2. CASE \E k \in Keys \cup {Private} : Gated!Refuse(t, k)
    BY <2>2 DEF Gated!Refuse, Gated!Arrives
  <2> QED BY <2>1, <2>2
<1>3. /\ turn[t].pc \in {"idle", "wait"}
      /\ UNCHANGED <<kind, table, session, gate, chats, changed>>
  BY DEF Gated!LeaveQueue, Gated!Refuse, Gated!Arrives
<1>4. /\ \A u \in Turns \ {t} : turn'[u] = turn[u]
      /\ turn'[t] = [turn[t] EXCEPT !.pc = "over", !.key = k]
  BY <1>1, <1>2
<1>5. /\ turn'[t].pc = "over" /\ turn'[t].key = k /\ turn'[t].obj = turn[t].obj
      /\ turn'[t].at = turn[t].at /\ turn'[t].chat = turn[t].chat
      /\ turn'[t].released = turn[t].released
  BY <1>1, <1>4 DEF Gated!Calls
<1>6. SameChats
  <2>1. \A u \in Turns : /\ turn'[u].obj = turn[u].obj
                         /\ \/ turn'[u].key = turn[u].key
                            \/ turn[u].pc = "idle" /\ turn'[u].key \in Keys \cup {Private}
                         /\ turn'[u].at = turn[u].at /\ turn'[u].chat = turn[u].chat
                         /\ turn[u].pc # "idle" => turn'[u].pc # "idle"
                         /\ turn'[u].pc \in {"idle", "wait", "create"} =>
                              turn[u].pc \in {"idle", "wait", "create"}
    BY <1>2, <1>4, <1>5
  <2> QED BY <2>1, <1>3 DEF SameChats
<1>7. Gated!TypeOK'
  <2>1. turn' \in [Turns -> Gated!Calls]
    <3>1. turn' = [u \in Turns |-> IF u = t THEN turn'[t] ELSE turn[u]]
      BY <1>1, <1>2, <1>4
    <3>2. turn'[t] \in Gated!Calls
      BY <1>1, <1>4 DEF Gated!Calls, Gated!PCs
    <3> QED BY <3>1, <3>2, <1>1
  <2>2. Gated!Known' = Gated!Known
    BY <1>3 DEF Gated!Known
  <2> QED BY <2>1, <2>2, <1>1, <1>3 DEF Gated!TypeOK
<1>8. StageInv'
  <2>1. Gated!Creates' = Gated!Creates
    BY <1>3 DEF Gated!Creates
  <2> SUFFICES ASSUME NEW u \in Turns
               PROVE  (/\ turn[u].pc = "idle" => turn[u].obj = Gated!None /\ turn[u].at = <<0, 0>>
                       /\ turn[u].pc \notin {"idle", "over"} => turn[u].obj \in Gated!Objects
                       /\ turn[u].obj = Gated!None => turn[u].chat = Gated!None
                       /\ turn[u].pc \in {"idle", "wait"} =>
                            turn[u].chat = Gated!None /\ ~turn[u].released
                       /\ turn[u].pc = "create" => Gated!Creates)'
    BY DEF StageInv
  <2>2. CASE u = t
    BY <2>2, <1>1, <1>3, <1>5 DEF StageInv
  <2>3. CASE u # t
    BY <2>1, <2>3, <1>1, <1>4 DEF StageInv
  <2> QED BY <2>2, <2>3
<1>9. GateInv'
  <2>1. \A u \in Turns : Gated!Talking(u)' => Gated!Talking(u) /\ u # t
    BY <1>4, <1>5 DEF Gated!Talking
  <2>2. Gated!OneTurnAtATime'
    BY <2>1, <1>1, <1>4 DEF GateInv, Gated!OneTurnAtATime
  <2>3. \A u \in Turns : turn'[u].pc \in {"ended", "loose"} => turn'[u].released
    BY <1>1, <1>4, <1>5 DEF GateInv
  <2> QED BY <2>1, <2>2, <2>3, <1>1, <1>3, <1>4 DEF GateInv
<1> QED BY <1>6, <1>7, <1>8, <1>9, SameChatsKeeps DEF GatedInv

-----------------------------------------------------------------------------
(* Steps of a turn that read or write a chat                               *)

\* Nobody asks, and the operator changes nothing.
SameOwners ==
  /\ \A u \in Turns : /\ turn'[u].obj = turn[u].obj /\ turn'[u].key = turn[u].key
                      /\ turn'[u].at = turn[u].at
  /\ UNCHANGED <<table, changed>>

LEMMA OwnersKept == ASSUME OwnerInv, SameOwners PROVE OwnerInv'
<1>1. TableInv'
  BY DEF OwnerInv, TableInv, SameOwners
<1>2. ObjectInv'
  BY DEF OwnerInv, ObjectInv, SameOwners
<1>3. TimeInv'
  BY DEF OwnerInv, TimeInv, SameOwners, Gated!Now
<1> QED BY <1>1, <1>2, <1>3 DEF OwnerInv

\* The chats begun so far stay, and a new one is the last.
LEMMA ChatBegun ==
  ASSUME Gated!TypeOK, NEW k, chats' = Gated!Begun(k)
  PROVE  /\ Len(chats) \in Nat /\ Len(chats') = Len(chats) + 1
         /\ \A c \in 1..Len(chats) : chats'[c] = chats[c]
         /\ chats'[Len(chats) + 1] = [key |-> k, at |-> Gated!Now(k)]
<1>1. chats \in Seq([key : Keys \cup {Private}, at : Gated!Times])
  BY DEF Gated!TypeOK
<1>2. PICK x : x = [key |-> k, at |-> Gated!Now(k)]
  OBVIOUS
<1>3. chats' = Append(chats, x)
  BY <1>2 DEF Gated!Begun
<1>4. /\ Len(chats) \in Nat /\ Len(chats') = Len(chats) + 1
      /\ \A c \in 1..Len(chats) : chats'[c] = chats[c]
      /\ chats'[Len(chats) + 1] = x
  BY <1>1, <1>3
<1> QED BY <1>2, <1>4

\* A chat is passed on inside its object, or begun there.
LEMMA ChatsFollow ==
  ASSUME Gated!TypeOK, OwnerInv, ChatInv, SameOwners, NEW t \in Turns,
         chats' = chats \/ chats' = Gated!Begun(turn[t].key),
         \A u \in Turns : \A c \in 1..Len(chats') : Holds(u, c)' =>
           \/ /\ c \in 1..Len(chats)
              /\ \E w \in Turns : turn[w].obj = turn[u].obj /\ Holds(w, c)
           \/ /\ chats' = Gated!Begun(turn[t].key) /\ c = Len(chats) + 1
              /\ turn[u].obj = turn[t].obj /\ turn[t].obj # Gated!None
  PROVE  ChatInv'
<1>1. Len(chats) \in Nat /\ \A c \in 1..Len(chats) : chats'[c] = chats[c]
  <2>1. CASE chats' = chats
    <3>1. Len(chats) \in Nat
      BY DEF Gated!TypeOK
    <3> QED BY <3>1, <2>1
  <2>2. CASE chats' = Gated!Begun(turn[t].key)
    BY <2>2, ChatBegun
  <2> QED BY <2>1, <2>2
<1> SUFFICES ASSUME NEW c \in 1..Len(chats'), NEW u \in Turns, Holds(u, c)'
             PROVE  /\ chats'[c].key = turn[u].key /\ chats'[c].at[1] >= turn[u].at[1]
                    /\ \A v \in Turns : Holds(v, c)' => turn[v].obj = turn[u].obj
  BY DEF ChatInv, SameOwners
<1>2. CASE c \in 1..Len(chats)
  <2>1. c # Len(chats) + 1
    BY <1>1, <1>2
  <2>2. PICK w \in Turns : turn[w].obj = turn[u].obj /\ Holds(w, c)
    BY <2>1
  <2>3. /\ chats[c].key = turn[w].key /\ chats[c].at[1] >= turn[w].at[1]
        /\ \A v \in Turns : Holds(v, c) => turn[v].obj = turn[w].obj
    BY <2>2, <1>2 DEF ChatInv
  <2>4. turn[w].key = turn[u].key /\ turn[w].at[1] = turn[u].at[1]
    BY <2>2 DEF OwnerInv, ObjectInv, Holds
  <2>5. ASSUME NEW v \in Turns, Holds(v, c)' PROVE turn[v].obj = turn[u].obj
    <3>1. PICK x \in Turns : turn[x].obj = turn[v].obj /\ Holds(x, c)
      BY <2>1, <2>5
    <3> QED BY <3>1, <2>2, <2>3
  <2> QED BY <2>3, <2>4, <2>5, <1>1, <1>2
<1>3. CASE chats' = Gated!Begun(turn[t].key) /\ c = Len(chats) + 1 /\ turn[u].obj = turn[t].obj
           /\ turn[t].obj # Gated!None
  <2>1. chats'[c] = [key |-> turn[t].key, at |-> Gated!Now(turn[t].key)]
    BY <1>3, ChatBegun
  <2>2. turn[t].key = turn[u].key
    BY <1>3 DEF OwnerInv, ObjectInv
  <2>3. turn[u].at[1] <= Gated!Now(turn[u].key)[1]
    BY DEF OwnerInv, TimeInv
  <2>4. turn[u].at \in Gated!Times /\ Gated!Now(turn[u].key) \in Gated!Times
    <3>1. turn[u].at \in Gated!Times /\ turn[u].key \in Keys \cup {Private}
              /\ changed \in [Keys -> Gated!Times]
      BY DEF Gated!TypeOK, Gated!Calls
    <3>2. <<0, 0>> \in Gated!Times
      BY DEF Gated!Times
    <3> QED BY <3>1, <3>2 DEF Gated!Now
  <2>5. Gated!Now(turn[u].key)[1] >= turn[u].at[1]
    BY <2>3, <2>4 DEF Gated!Times
  <2>6. c \notin 1..Len(chats)
    BY <1>1, <1>3
  <2> QED BY <2>1, <2>2, <2>5, <2>6, <1>3
<1> QED BY <1>2, <1>3

LEMMA GateLockKeeps ==
  ASSUME Gated!SessionsAssumption, GatedInv, NEW t \in Turns, Gated!Lock(t) PROVE GatedInv'
<1>1. /\ Gated!TypeOK /\ StageInv /\ GateInv /\ OwnerInv /\ IdInv /\ ChatInv /\ LocalInv
      /\ CountInv
      /\ turn \in [Turns -> Gated!Calls] /\ session \in [Gated!Objects -> Gated!Entries]
  BY DEF GatedInv, Gated!TypeOK
<1>2. PICK o \in Gated!Objects : o = turn[t].obj
  BY <1>1 DEF StageInv, Gated!Lock
<1>3. PICK p \in {"create", "post"} :
        p = IF Gated!Creates /\ Gated!S(t).chat = Gated!None THEN "create" ELSE "post"
  OBVIOUS
<1>4. /\ turn[t].pc = "wait" /\ ~gate[o] /\ gate' = [gate EXCEPT ![o] = TRUE]
      /\ turn' = [turn EXCEPT ![t].pc = p, ![t].chat = session[o].chat,
                              ![t].parent = session[o].parent]
      /\ UNCHANGED <<kind, table, session, chats, changed>>
      /\ p = "create" => Gated!Creates
  BY <1>2, <1>3 DEF Gated!Lock, Gated!S
<1>5. /\ \A u \in Turns \ {t} : turn'[u] = turn[u]
      /\ turn'[t] = [turn[t] EXCEPT !.pc = p, !.chat = session[o].chat,
                                    !.parent = session[o].parent]
  BY <1>1, <1>4
<1>6. /\ turn'[t].pc = p /\ turn'[t].key = turn[t].key /\ turn'[t].obj = turn[t].obj
      /\ turn'[t].at = turn[t].at /\ turn'[t].chat = session[o].chat
      /\ turn'[t].released = turn[t].released
  BY <1>1, <1>5 DEF Gated!Calls
<1>7. Gated!TypeOK'
  <2>1. turn' \in [Turns -> Gated!Calls]
    <3>1. turn' = [u \in Turns |-> IF u = t THEN turn'[t] ELSE turn[u]]
      BY <1>1, <1>4, <1>5
    <3>2. turn'[t] \in Gated!Calls
      <4>1. p \in Gated!PCs
        BY <1>3 DEF Gated!PCs
      <4>2. session[o].chat \in 0..Gated!MaxChats /\ session[o].parent \in Turns \cup {Gated!None}
        BY <1>1 DEF Gated!Entries
      <4> QED BY <4>1, <4>2, <1>1, <1>5 DEF Gated!Calls
    <3> QED BY <3>1, <3>2, <1>1
  <2>2. Gated!Known' = Gated!Known
    BY <1>4 DEF Gated!Known
  <2>3. gate' \in [Gated!Objects -> BOOLEAN]
    BY <1>1, <1>4 DEF Gated!TypeOK
  <2> QED BY <2>1, <2>2, <2>3, <1>1, <1>4 DEF Gated!TypeOK
<1>8. StageInv'
  <2>1. Gated!Creates' = Gated!Creates
    BY <1>4 DEF Gated!Creates
  <2> SUFFICES ASSUME NEW u \in Turns
               PROVE  (/\ turn[u].pc = "idle" => turn[u].obj = Gated!None /\ turn[u].at = <<0, 0>>
                       /\ turn[u].pc \notin {"idle", "over"} => turn[u].obj \in Gated!Objects
                       /\ turn[u].obj = Gated!None => turn[u].chat = Gated!None
                       /\ turn[u].pc \in {"idle", "wait"} =>
                            turn[u].chat = Gated!None /\ ~turn[u].released
                       /\ turn[u].pc = "create" => Gated!Creates)'
    BY DEF StageInv
  <2>2. CASE u = t
    <3>1. turn[t].obj # Gated!None
      BY <1>2 DEF Gated!Objects, Gated!None, Gated!SessionsAssumption
    <3> QED BY <2>1, <2>2, <3>1, <1>2, <1>4, <1>6
  <2>3. CASE u # t
    BY <2>1, <2>3, <1>1, <1>5 DEF StageInv
  <2> QED BY <2>2, <2>3
<1>9. GateInv'
  <2>1. ASSUME NEW u \in Turns, Gated!Talking(u)', u # t
        PROVE  Gated!Talking(u) /\ turn[u].obj \in Gated!Objects /\ gate[turn[u].obj]
            /\ ~turn[u].released
               /\ turn[u].obj # o
    BY <2>1, <1>1, <1>4, <1>5 DEF Gated!Talking, GateInv, StageInv
  <2>2. ASSUME NEW u \in Turns, Gated!Talking(u)'
        PROVE  gate'[turn'[u].obj] /\ ~turn'[u].released
    <3>1. CASE u = t
      <4>1. ~turn[t].released
        BY <1>1, <1>4 DEF StageInv
      <4>2. gate'[o] = TRUE
        BY <1>1, <1>4 DEF Gated!TypeOK
      <4> QED BY <4>1, <4>2, <3>1, <1>2, <1>6
    <3>2. CASE u # t
      BY <3>2, <2>1, <2>2, <1>1, <1>4, <1>5 DEF Gated!TypeOK
    <3> QED BY <3>1, <3>2
  <2>3. Gated!OneTurnAtATime'
    <3> SUFFICES ASSUME NEW u \in Turns, NEW v \in Turns, u # v, Gated!Talking(u)',
                     Gated!Talking(v)'
                 PROVE  turn'[u].obj # turn'[v].obj
      BY DEF Gated!OneTurnAtATime
    <3>1. CASE u = t
      BY <3>1, <2>1, <1>2, <1>5, <1>6
    <3>2. CASE v = t
      BY <3>2, <2>1, <1>2, <1>5, <1>6
    <3>3. CASE u # t /\ v # t
      BY <3>3, <2>1, <1>1, <1>5 DEF GateInv, Gated!OneTurnAtATime
    <3> QED BY <3>1, <3>2, <3>3
  <2>4. \A u \in Turns : turn'[u].pc \in {"ended", "loose"} => turn'[u].released
    BY <1>1, <1>3, <1>5, <1>6 DEF GateInv
  <2> QED BY <2>2, <2>3, <2>4 DEF GateInv
<1>10. SameOwners
  BY <1>4, <1>5, <1>6 DEF SameOwners
<1>11. OwnerInv'
  BY <1>1, <1>10, OwnersKept
<1>12. IdInv'
  BY <1>1, <1>4, <1>5, <1>6 DEF IdInv
<1>13. ChatInv'
  <2>1. \A u \in Turns : \A c \in 1..Len(chats) : Holds(u, c)' => Holds(u, c)
    BY <1>2, <1>4, <1>5, <1>6, ZenonT(30) DEF Holds
  <2> QED BY <2>1, <1>1, <1>4, <1>10, ChatsFollow
<1>14. LocalInv'
  <2> SUFFICES ASSUME kind = "local" PROVE LocalInv'
    BY <1>4 DEF LocalInv
  <2>1. /\ \A u \in Turns : turn[u].obj # Gated!None =>
              /\ session[turn[u].obj].chat # Gated!None
              /\ chats[session[turn[u].obj].chat].at[2] >= turn[u].at[2]
        /\ \A u \in Turns : turn[u].chat # Gated!None =>
             chats[turn[u].chat].at[2] >= turn[u].at[2]
        /\ \A k \in Keys : table[k] # Gated!None /\ ~session[table[k]].expired =>
              chats[session[table[k]].chat].at[2] >= changed[k][2]
    BY <1>1 DEF LocalInv
  <2>2. turn[t].obj # Gated!None
    BY <1>2 DEF Gated!Objects, Gated!None, Gated!SessionsAssumption
  <2>3. \A u \in Turns : turn'[u].chat # Gated!None =>
            chats[turn'[u].chat].at[2] >= turn'[u].at[2]
    BY <2>1, <2>2, <1>2, <1>5, <1>6, ZenonT(30)
  <2>4. \A u \in Turns : turn'[u].obj = turn[u].obj /\ turn'[u].at = turn[u].at
    BY <1>5, <1>6
  <2> QED BY <2>1, <2>3, <2>4, <1>4 DEF LocalInv
<1>15. CountInv'
  <2>1. \A u \in Turns : Past(u) => Past(u)'
    <3> SUFFICES ASSUME NEW u \in Turns, Past(u) PROVE Past(u)'
      OBVIOUS
    <3>1. CASE u = t
      <4>1. turn[t].chat = Gated!None
        BY <1>1, <1>4 DEF StageInv
      <4> QED BY <4>1, <3>1, <1>3, <1>4, <1>6 DEF Past
    <3>2. CASE u # t
      BY <3>2, <1>4, <1>5 DEF Past
    <3> QED BY <3>1, <3>2
  <2>2. Len(chats) \in Nat
    BY <1>1 DEF Gated!TypeOK
  <2> QED BY <2>1, <2>2, <1>1, <1>4, CountKept
<1> QED BY <1>7, <1>8, <1>9, <1>11, <1>12, <1>13, <1>14, <1>15 DEF GatedInv

LEMMA CallUpdated ==
  ASSUME NEW x \in Gated!Calls, NEW p \in Gated!PCs, NEW c \in 0..Gated!MaxChats,
         NEW q \in Turns \cup {Gated!None}
  PROVE  [x EXCEPT !.pc = p, !.chat = c, !.parent = q] \in Gated!Calls
  BY DEF Gated!Calls

LEMMA EntryUpdated ==
  ASSUME NEW x \in Gated!Entries, NEW c \in 0..Gated!MaxChats, NEW q \in Turns \cup {Gated!None}
  PROVE  [x EXCEPT !.chat = c, !.parent = q] \in Gated!Entries
  BY DEF Gated!Entries

\* A turn stores a chat in its session: its own, the session's or a new one.
LEMMA ChatStored ==
  ASSUME Gated!SessionsAssumption, GatedInv, NEW t \in Turns, NEW o \in Gated!Objects,
         o = turn[t].obj,
         NEW p, NEW c, NEW q \in Turns \cup {Gated!None}, NEW e \in Turns \cup {Gated!None},
         turn' = [turn EXCEPT ![t].pc = p, ![t].chat = c, ![t].parent = q],
         session' = [session EXCEPT ![o].chat = c, ![o].parent = e],
         \/ turn[t].pc = "create" /\ p = "post" /\ kind # "told"
         \/ turn[t].pc \in {"stream", "loose"} /\ p = turn[t].pc /\ kind = "told",
         kind # "local", c # Gated!None,
         chats' = chats \/ chats' = Gated!Begun(turn[t].key),
         chats' # chats => ~Past(t),
         \/ c \in {turn[t].chat, session[o].chat}
         \/ c = Gated!NextChat /\ chats' = Gated!Begun(turn[t].key),
         UNCHANGED <<kind, table, gate, changed>>
  PROVE  GatedInv'
<1>1. /\ Gated!TypeOK /\ StageInv /\ GateInv /\ OwnerInv /\ IdInv /\ ChatInv /\ CountInv
      /\ turn \in [Turns -> Gated!Calls] /\ session \in [Gated!Objects -> Gated!Entries]
      /\ Len(chats) \in Nat
  BY DEF GatedInv, Gated!TypeOK
<1>2. /\ \A u \in Turns \ {t} : turn'[u] = turn[u]
      /\ turn'[t] = [turn[t] EXCEPT !.pc = p, !.chat = c, !.parent = q]
      /\ \A x \in Gated!Objects \ {o} : session'[x] = session[x]
      /\ session'[o] = [session[o] EXCEPT !.chat = c, !.parent = e]
  BY <1>1
<1>3. /\ turn'[t].pc = p /\ turn'[t].key = turn[t].key /\ turn'[t].obj = turn[t].obj
      /\ turn'[t].at = turn[t].at /\ turn'[t].chat = c
      /\ turn'[t].released = turn[t].released
      /\ session'[o].chat = c /\ session'[o].expired = session[o].expired
  BY <1>1, <1>2 DEF Gated!Calls, Gated!Entries
<1>4. o # Gated!None
  BY DEF Gated!Objects, Gated!None, Gated!SessionsAssumption
<1>5. SameOwners
  BY <1>2, <1>3 DEF SameOwners
<1>6. OwnerInv'
  BY <1>1, <1>5, OwnersKept
<1>7. /\ Len(chats') \in Nat /\ Len(chats) <= Len(chats')
      /\ chats' = Gated!Begun(turn[t].key) => Len(chats') = Len(chats) + 1
      /\ chats' # chats => Len(chats') = Len(chats) + 1
  <2>1. CASE chats' = Gated!Begun(turn[t].key)
    <3>1. Len(chats') = Len(chats) + 1
      BY <2>1, <1>1, ChatBegun
    <3> QED BY <3>1, <1>1
  <2>2. CASE chats' = chats /\ chats' # Gated!Begun(turn[t].key)
    BY <2>2, <1>1
  <2> QED BY <2>1, <2>2
<1>8. c \in 0..Len(chats')
  BY <1>1, <1>7 DEF IdInv, Gated!NextChat
<1>9. IdInv'
  <2>1. \A u \in Turns : turn'[u].chat \in 0..Len(chats')
    BY <1>1, <1>2, <1>3, <1>7, <1>8 DEF IdInv
  <2>2. \A x \in Gated!Objects : session'[x].chat \in 0..Len(chats')
    BY <1>1, <1>2, <1>3, <1>7, <1>8 DEF IdInv
  <2> QED BY <2>1, <2>2 DEF IdInv
<1>10. CountInv'
  <2>1. Past(t)'
    BY <1>3 DEF Past
  <2>2. \A u \in Turns : Past(u) => Past(u)'
    <3>1. \A u \in Turns \ {t} : Past(u) => Past(u)'
      BY <1>2 DEF Past
    <3> QED BY <3>1, <2>1
  <2>3. CASE chats' = chats
    BY <2>2, <2>3, <1>1, CountKept
  <2>4. CASE chats' # chats
    BY <2>1, <2>2, <2>4, <1>1, <1>7, CountAdded
  <2> QED BY <2>3, <2>4
<1>11. Gated!TypeOK'
  <2>1. chats' \in Seq([key : Keys \cup {Private}, at : Gated!Times])
    <3>1. CASE chats' = chats
      BY <3>1, <1>1 DEF Gated!TypeOK
    <3>2. CASE chats' = Gated!Begun(turn[t].key)
      <4>1. turn[t].key \in Keys \cup {Private} /\ changed \in [Keys -> Gated!Times]
        BY <1>1 DEF Gated!TypeOK, Gated!Calls
      <4>2. Gated!Now(turn[t].key) \in Gated!Times
        BY <4>1 DEF Gated!Now, Gated!Times
      <4>3. [key |-> turn[t].key, at |-> Gated!Now(turn[t].key)] \in [key :
                Keys \cup {Private}, at : Gated!Times]
        BY <4>1, <4>2
      <4>4. chats \in Seq([key : Keys \cup {Private}, at : Gated!Times])
        BY <1>1 DEF Gated!TypeOK
      <4> QED BY <4>3, <4>4, <3>2 DEF Gated!Begun
    <3> QED BY <3>1, <3>2
  <2>2. Len(chats') <= Gated!MaxChats /\ Gated!MaxChats \in Nat
    <3>1. Gated!MaxChats' = Gated!MaxChats
      BY DEF Gated!MaxChats
    <3>2. {u \in Turns : Past(u)'} \in SUBSET Turns
      OBVIOUS
    <3>3. Cardinality({u \in Turns : Past(u)'}) \in Nat
              /\ Cardinality({u \in Turns : Past(u)'}) <= Gated!MaxChats
      BY SameCount, <3>2, PastIsFinite DEF Gated!MaxChats
    <3>4. Len(chats') <= Cardinality({u \in Turns : Past(u)'})
      BY <1>10 DEF CountInv
    <3>5. Gated!MaxChats \in Nat
      BY SameCount, FS_CardinalityType DEF Gated!MaxChats, Gated!SessionsAssumption
    <3> QED BY <3>3, <3>4, <3>5, <1>7
  <2>3. c \in 0..Gated!MaxChats
    BY <2>2, <1>7, <1>8
  <2>4. turn' \in [Turns -> Gated!Calls]
    <3>1. turn' = [u \in Turns |-> IF u = t THEN turn'[t] ELSE turn[u]]
      BY <1>1, <1>2
    <3>2. p \in Gated!PCs
      BY DEF Gated!PCs
    <3>3. turn'[t] \in Gated!Calls
      <4>1. turn[t] \in Gated!Calls
                /\ turn'[t] = [turn[t] EXCEPT !.pc = p, !.chat = c, !.parent = q]
        BY <1>1, <1>2
      <4>2. q \in Turns \cup {Gated!None}
        OBVIOUS
      <4>3. [turn[t] EXCEPT !.pc = p, !.chat = c, !.parent = q] \in Gated!Calls
        BY ONLY <4>1, <4>2, <2>3, <3>2, CallUpdated
      <4> QED BY <4>1, <4>3
    <3> QED BY <3>1, <3>3, <1>1
  <2>5. session' \in [Gated!Objects -> Gated!Entries]
    <3>1. session' = [x \in Gated!Objects |-> IF x = o THEN session'[o] ELSE session[x]]
      BY <1>1, <1>2
    <3>2. session'[o] \in Gated!Entries
      <4>1. session[o] \in Gated!Entries
                /\ session'[o] = [session[o] EXCEPT !.chat = c, !.parent = e]
        BY <1>1, <1>2
      <4>2. e \in Turns \cup {Gated!None}
        OBVIOUS
      <4>3. [session[o] EXCEPT !.chat = c, !.parent = e] \in Gated!Entries
        BY ONLY <4>1, <4>2, <2>3, EntryUpdated
      <4> QED BY <4>1, <4>3
    <3> QED BY <3>1, <3>2, <1>1
  <2>6. Gated!Known' = Gated!Known
    BY DEF Gated!Known
  <2> QED BY <2>1, <2>4, <2>5, <2>6, <1>1 DEF Gated!TypeOK
<1>12. StageInv'
  <2>1. Gated!Creates' = Gated!Creates
    BY DEF Gated!Creates
  <2> SUFFICES ASSUME NEW u \in Turns
               PROVE  (/\ turn[u].pc = "idle" => turn[u].obj = Gated!None /\ turn[u].at = <<0, 0>>
                       /\ turn[u].pc \notin {"idle", "over"} => turn[u].obj \in Gated!Objects
                       /\ turn[u].obj = Gated!None => turn[u].chat = Gated!None
                       /\ turn[u].pc \in {"idle", "wait"} =>
                            turn[u].chat = Gated!None /\ ~turn[u].released
                       /\ turn[u].pc = "create" => Gated!Creates)'
    BY DEF StageInv
  <2>2. CASE u = t
    BY <2>1, <2>2, <1>3, <1>4
  <2>3. CASE u # t
    BY <2>1, <2>3, <1>1, <1>2 DEF StageInv
  <2> QED BY <2>2, <2>3
<1>13. GateInv'
  <2>1. \A u \in Turns : /\ Gated!Talking(u)' => Gated!Talking(u)
                         /\ turn'[u].obj = turn[u].obj /\ turn'[u].released = turn[u].released
                         /\ turn'[u].pc \in {"ended", "loose"} =>
                              turn[u].pc \in {"ended", "loose"}
    BY <1>2, <1>3 DEF Gated!Talking
  <2>2. Gated!OneTurnAtATime'
    BY <2>1, <1>1 DEF GateInv, Gated!OneTurnAtATime
  <2> QED BY <2>1, <2>2, <1>1 DEF GateInv
<1>14. ChatInv'
  <2> SUFFICES ASSUME NEW u \in Turns, NEW d \in 1..Len(chats'), Holds(u, d)'
               PROVE  \/ /\ d \in 1..Len(chats)
                         /\ \E w \in Turns : turn[w].obj = turn[u].obj /\ Holds(w, d)
                      \/ /\ chats' = Gated!Begun(turn[t].key) /\ d = Len(chats) + 1
                         /\ turn[u].obj = turn[t].obj /\ turn[t].obj # Gated!None
    BY <1>1, <1>5, ChatsFollow
  <2>1. turn[u].obj # Gated!None /\ (turn'[u].chat = d \/ session'[turn[u].obj].chat = d)
    <3>1. turn'[u].obj = turn[u].obj
      BY <1>5 DEF SameOwners
    <3> QED BY <3>1 DEF Holds
  <2>2. turn[u].obj \in Gated!Objects
    BY <2>1, <1>1 DEF Gated!Calls
  <2>3. CASE turn[u].obj = o /\ c = d
    <3>1. CASE c \in {turn[t].chat, session[o].chat}
      <4>1. Holds(t, d)
        BY <2>3, <3>1, <1>4 DEF Holds
      <4>2. d \in 1..Len(chats)
        BY <2>3, <3>1, <1>1 DEF IdInv
      <4> QED BY <4>1, <4>2, <2>3
    <3>2. CASE c = Gated!NextChat /\ chats' = Gated!Begun(turn[t].key)
      BY <2>3, <3>2, <1>4 DEF Gated!NextChat
    <3> QED BY <3>1, <3>2
  <2>4. CASE ~(turn[u].obj = o /\ c = d)
    <3>1. turn[u].chat = d \/ session[turn[u].obj].chat = d
      BY <2>1, <2>2, <2>4, <1>2, <1>3, ZenonT(30)
    <3>2. Holds(u, d)
      BY <3>1, <2>1 DEF Holds
    <3>3. d \in 1..Len(chats)
      BY <3>1, <2>2, <1>1 DEF IdInv
    <3> QED BY <3>2, <3>3
  <2> QED BY <2>3, <2>4
<1>15. LocalInv'
  BY DEF LocalInv
<1> QED BY <1>6, <1>9, <1>10, <1>11, <1>12, <1>13, <1>14, <1>15 DEF GatedInv

LEMMA CreatedKeeps ==
  ASSUME Gated!SessionsAssumption, GatedInv, NEW t \in Turns, Gated!Created(t) PROVE GatedInv'
<1>1. /\ turn \in [Turns -> Gated!Calls] /\ session \in [Gated!Objects -> Gated!Entries]
      /\ Len(chats) \in Nat
      /\ StageInv
  BY DEF GatedInv, Gated!TypeOK
<1>2. turn[t].pc = "create" /\ Gated!Creates
  BY <1>1 DEF Gated!Created, StageInv
<1>3. PICK o \in Gated!Objects : o = turn[t].obj
  BY <1>1, <1>2 DEF StageInv
<1>4. kind # "local" /\ kind # "told"
  BY <1>2 DEF Gated!Creates
<1>5. turn[t].parent \in Turns \cup {Gated!None} /\ session[o].parent \in Turns \cup {Gated!None}
  BY <1>1 DEF Gated!Calls, Gated!Entries
<1>6. PICK c : c = IF kind # "made" /\ session[o].chat # Gated!None THEN session[o].chat
               ELSE Gated!NextChat
  OBVIOUS
<1>7. PICK q : q = CASE kind # "parent" -> turn[t].parent
                     [] kind # "made" /\ session[o].chat # Gated!None -> session[o].parent
                     [] OTHER -> Gated!None
  OBVIOUS
<1>8. PICK e : e = IF kind = "parent" THEN q ELSE session[o].parent
  OBVIOUS
<1>9. q \in Turns \cup {Gated!None} /\ e \in Turns \cup {Gated!None}
  BY <1>5, <1>7, <1>8
<1>10. /\ chats' = Gated!Begun(turn[t].key)
       /\ turn' = [turn EXCEPT ![t].pc = "post", ![t].chat = c, ![t].parent = q]
       /\ UNCHANGED <<kind, table, gate, changed>>
  BY <1>3, <1>6, <1>7 DEF Gated!Created, Gated!S
<1>11. session' = [session EXCEPT ![o].chat = c, ![o].parent = e]
  BY <1>1, <1>3, <1>6, <1>7, <1>8 DEF Gated!Created, Gated!S, Gated!Entries
<1>12. c # Gated!None
  BY <1>1, <1>6 DEF Gated!NextChat, Gated!None
<1>13. ~Past(t)
  BY <1>2, <1>4 DEF Past
<1>14. c \in {turn[t].chat, session[o].chat} \/ c = Gated!NextChat
  BY <1>6
<1> QED BY <1>2, <1>3, <1>4, <1>9, <1>10, <1>11, <1>12, <1>13, <1>14, ChatStored

LEMMA ToldChatKeeps ==
  ASSUME Gated!SessionsAssumption, GatedInv, NEW t \in Turns, Gated!ToldChat(t) PROVE GatedInv'
<1>1. /\ turn \in [Turns -> Gated!Calls] /\ session \in [Gated!Objects -> Gated!Entries]
      /\ Len(chats) \in Nat
      /\ StageInv
  BY DEF GatedInv, Gated!TypeOK
<1>2. turn[t].pc \in {"stream", "loose"} /\ kind = "told"
  BY DEF Gated!ToldChat
<1>3. PICK o \in Gated!Objects : o = turn[t].obj
  BY <1>1, <1>2 DEF StageInv
<1>4. PICK q \in Turns \cup {Gated!None}, e \in Turns \cup {Gated!None},
               p \in {"stream", "loose"} :
        q = turn[t].parent /\ e = session[o].parent /\ p = turn[t].pc
  BY <1>1, <1>2 DEF Gated!Calls, Gated!Entries
<1>5. PICK c : c = IF turn[t].chat = Gated!None THEN Gated!NextChat ELSE turn[t].chat
  OBVIOUS
<1>6. /\ chats' = IF turn[t].chat = Gated!None THEN Gated!Begun(turn[t].key) ELSE chats
      /\ turn' = [turn EXCEPT ![t].chat = c]
      /\ session' = [session EXCEPT ![o].chat = c]
      /\ UNCHANGED <<kind, table, gate, changed>>
  BY <1>3, <1>5 DEF Gated!ToldChat
<1>7. turn' = [turn EXCEPT ![t].pc = p, ![t].chat = c, ![t].parent = q]
  BY <1>1, <1>4, <1>6 DEF Gated!Calls
<1>8. session' = [session EXCEPT ![o].chat = c, ![o].parent = e]
  BY <1>1, <1>4, <1>6 DEF Gated!Entries
<1>9. c # Gated!None
  BY <1>1, <1>5 DEF Gated!NextChat, Gated!None
<1>10. chats' # chats => ~Past(t)
  BY <1>2, <1>6 DEF Past
<1>11. c \in {turn[t].chat, session[o].chat}
           \/ (c = Gated!NextChat /\ chats' = Gated!Begun(turn[t].key))
  BY <1>5, <1>6
<1>12. chats' = chats \/ chats' = Gated!Begun(turn[t].key)
  BY <1>6
<1>13. /\ kind # "local"
       /\ turn[t].pc \in {"stream", "loose"} /\ p = turn[t].pc /\ kind = "told"
  BY <1>2, <1>4
<1>14. UNCHANGED <<kind, table, gate, changed>>
  BY <1>6
<1> QED BY <1>3, <1>7, <1>8, <1>9, <1>10, <1>11, <1>12, <1>13, <1>14, ChatStored

-----------------------------------------------------------------------------
(* The operator                                                            *)

LEMMA ClearedKeeps ==
  ASSUME Gated!SessionsAssumption, GatedInv, NEW k \in Keys, Gated!ClearSession(k) PROVE GatedInv'
<1>1. /\ Gated!TypeOK /\ StageInv /\ GateInv /\ OwnerInv /\ IdInv /\ ChatInv /\ LocalInv
      /\ CountInv
      /\ table \in [Keys -> Gated!Objects \cup {Gated!None}] /\ changed \in [Keys -> Gated!Times]
      /\ turn \in [Turns -> Gated!Calls]
  BY DEF GatedInv, Gated!TypeOK
<1>2. /\ table' = [table EXCEPT ![k] = Gated!None]
      /\ changed' = [changed EXCEPT ![k] = <<changed[k][1] + 1, changed[k][2]>>]
      /\ UNCHANGED <<kind, session, gate, turn, chats>>
  BY <1>1 DEF Gated!ClearSession, Gated!Forgotten
<1>3. /\ \A j \in Keys \ {k} : table'[j] = table[j] /\ changed'[j] = changed[j]
      /\ table'[k] = Gated!None /\ changed'[k] = <<changed[k][1] + 1, changed[k][2]>>
      /\ changed[k][1] \in Nat /\ changed[k][2] \in Nat
  BY <1>1, <1>2 DEF Gated!Times
<1>4. Gated!TypeOK'
  <2>1. table' \in [Keys -> Gated!Objects \cup {Gated!None}] /\ changed' \in [Keys -> Gated!Times]
    BY <1>1, <1>2, <1>3 DEF Gated!Times
  <2>2. Gated!Known' \subseteq Gated!Known /\ Gated!Known \subseteq Keys
    BY <1>3 DEF Gated!Known
  <2>3. /\ IsFiniteSet(Gated!Known) /\ Cardinality(Gated!Known') <= Cardinality(Gated!Known)
        /\ IsFiniteSet(Gated!Known')
    <3>1. IsFiniteSet(Gated!Known)
      BY SameCount, <2>2, FS_Subset DEF Gated!SessionsAssumption
    <3> QED BY <3>1, <2>2, FS_Subset
  <2>4. Cardinality(Gated!Known) \in Nat /\ Cardinality(Gated!Known') \in Nat
    BY <2>3, FS_CardinalityType
  <2>5. Cardinality(Gated!Known') <= MaxSessions
    BY SameCount, <2>3, <2>4, <1>1 DEF Gated!TypeOK, Gated!SessionsAssumption
  <2> QED BY SameCount, <2>1, <2>5, <1>1, <1>2 DEF Gated!TypeOK
<1>5. StageInv'
  BY <1>1, <1>2 DEF StageInv, Gated!Creates
<1>6. GateInv'
  BY <1>1, <1>2 DEF GateInv, Gated!Talking, Gated!OneTurnAtATime
<1>7. OwnerInv'
  <2>1. TableInv'
    BY <1>1, <1>2, <1>3 DEF OwnerInv, TableInv
  <2>2. ObjectInv'
    BY <1>1, <1>2 DEF OwnerInv, ObjectInv
  <2>3. TimeInv'
    <3> SUFFICES ASSUME NEW u \in Turns
                 PROVE  (/\ turn[u].at[1] <= Gated!Now(turn[u].key)[1]
                         /\ turn[u].at[2] <= Gated!Now(turn[u].key)[2])'
      BY DEF TimeInv
    <3>1. /\ turn[u].at[1] <= Gated!Now(turn[u].key)[1]
          /\ turn[u].at[2] <= Gated!Now(turn[u].key)[2]
          /\ turn[u].at[1] \in Nat /\ turn[u].at[2] \in Nat
          /\ turn[u].key \in Keys \cup {Private}
      BY <1>1 DEF OwnerInv, TimeInv, Gated!Calls, Gated!Times
    <3>2. CASE turn[u].key = k
      <4>1. Gated!Now(turn[u].key) = changed[k] /\ Gated!Now(turn[u].key)' = changed'[k]
        BY <3>2, <1>2 DEF Gated!Now, Gated!SessionsAssumption
      <4> QED BY <4>1, <3>1, <1>2, <1>3
    <3>3. CASE turn[u].key # k
      <4>1. Gated!Now(turn[u].key)' = Gated!Now(turn[u].key)
        BY <3>1, <3>3, <1>2, <1>3 DEF Gated!Now
      <4> QED BY <4>1, <3>1, <1>2
    <3> QED BY <3>2, <3>3
  <2> QED BY <2>1, <2>2, <2>3 DEF OwnerInv
<1>8. IdInv'
  BY <1>1, <1>2 DEF IdInv
<1>9. ChatInv'
  BY <1>1, <1>2 DEF ChatInv, Holds
<1>10. LocalInv'
  BY <1>1, <1>2, <1>3 DEF LocalInv
<1>11. CountInv'
  <2>1. Len(chats) \in Nat
    BY <1>1 DEF Gated!TypeOK
  <2>2. \A u \in Turns : Past(u)' = Past(u)
    BY <1>2 DEF Past
  <2> QED BY <2>1, <2>2, <1>1, <1>2, CountKept
<1> QED BY <1>4, <1>5, <1>6, <1>7, <1>8, <1>9, <1>10, <1>11 DEF GatedInv

LEMMA ExpireKeeps ==
  ASSUME Gated!SessionsAssumption, GatedInv, NEW k \in Keys, Gated!ExpireSession(k)
  PROVE  GatedInv'
<1>1. /\ Gated!TypeOK /\ StageInv /\ GateInv /\ OwnerInv /\ IdInv /\ ChatInv /\ LocalInv
      /\ CountInv
      /\ table \in [Keys -> Gated!Objects \cup {Gated!None}] /\ changed \in [Keys -> Gated!Times]
      /\ turn \in [Turns -> Gated!Calls] /\ session \in [Gated!Objects -> Gated!Entries]
  BY DEF GatedInv, Gated!TypeOK
<1>2. PICK o \in Gated!Objects : o = table[k]
  BY <1>1 DEF Gated!ExpireSession, Gated!MayChange
<1>3. /\ session' = [session EXCEPT ![o].expired = TRUE]
      /\ changed' = [changed EXCEPT ![k] = <<changed[k][1], changed[k][2] + 1>>]
      /\ UNCHANGED <<kind, table, gate, turn, chats>>
  BY <1>1, <1>2 DEF Gated!ExpireSession
<1>4. /\ \A j \in Keys \ {k} : changed'[j] = changed[j]
      /\ changed'[k] = <<changed[k][1], changed[k][2] + 1>>
      /\ changed[k][1] \in Nat /\ changed[k][2] \in Nat
  BY <1>1, <1>3 DEF Gated!Times
<1>5. /\ session' \in [Gated!Objects -> Gated!Entries]
      /\ \A x \in Gated!Objects : session'[x].chat = session[x].chat
      /\ \A x \in Gated!Objects \ {o} : session'[x].expired = session[x].expired
      /\ session'[o].expired
  BY <1>1, <1>3 DEF Gated!Entries
<1>6. Gated!TypeOK'
  <2>1. changed' \in [Keys -> Gated!Times]
    BY <1>1, <1>3, <1>4 DEF Gated!Times
  <2>2. Gated!Known' = Gated!Known
    BY <1>3 DEF Gated!Known
  <2> QED BY <2>1, <2>2, <1>1, <1>3, <1>5 DEF Gated!TypeOK
<1>7. StageInv'
  BY <1>1, <1>3 DEF StageInv, Gated!Creates
<1>8. GateInv'
  BY <1>1, <1>3 DEF GateInv, Gated!Talking, Gated!OneTurnAtATime
<1>9. OwnerInv'
  <2>1. TableInv'
    <3>1. \A j \in Keys : changed'[j][1] = changed[j][1]
      BY <1>4
    <3> QED BY <3>1, <1>1, <1>3 DEF OwnerInv, TableInv
  <2>2. ObjectInv'
    BY <1>1, <1>3 DEF OwnerInv, ObjectInv
  <2>3. TimeInv'
    <3> SUFFICES ASSUME NEW u \in Turns
                 PROVE  (/\ turn[u].at[1] <= Gated!Now(turn[u].key)[1]
                         /\ turn[u].at[2] <= Gated!Now(turn[u].key)[2])'
      BY DEF TimeInv
    <3>1. /\ turn[u].at[1] <= Gated!Now(turn[u].key)[1]
          /\ turn[u].at[2] <= Gated!Now(turn[u].key)[2]
          /\ turn[u].at[1] \in Nat /\ turn[u].at[2] \in Nat
          /\ turn[u].key \in Keys \cup {Private}
      BY <1>1 DEF OwnerInv, TimeInv, Gated!Calls, Gated!Times
    <3>2. CASE turn[u].key = k
      <4>1. Gated!Now(turn[u].key) = changed[k] /\ Gated!Now(turn[u].key)' = changed'[k]
        BY <3>2, <1>3 DEF Gated!Now, Gated!SessionsAssumption
      <4> QED BY <4>1, <3>1, <1>3, <1>4
    <3>3. CASE turn[u].key # k
      <4>1. Gated!Now(turn[u].key)' = Gated!Now(turn[u].key)
        BY <3>1, <3>3, <1>3, <1>4 DEF Gated!Now
      <4> QED BY <4>1, <3>1, <1>3
    <3> QED BY <3>2, <3>3
  <2> QED BY <2>1, <2>2, <2>3 DEF OwnerInv
<1>10. IdInv'
  BY <1>1, <1>3, <1>5 DEF IdInv
<1>11. ChatInv'
  <2>1. \A u \in Turns : turn[u].obj # Gated!None => turn[u].obj \in Gated!Objects
    BY <1>1 DEF Gated!Calls
  <2>2. \A u \in Turns : \A c : Holds(u, c)' <=> Holds(u, c)
    BY <2>1, <1>3, <1>5 DEF Holds
  <2> QED BY <2>2, <1>1, <1>3 DEF ChatInv
<1>12. LocalInv'
  <2> SUFFICES ASSUME kind = "local" PROVE LocalInv'
    BY <1>3 DEF LocalInv
  <2>1. \A u \in Turns : turn[u].obj # Gated!None => turn[u].obj \in Gated!Objects
    BY <1>1 DEF Gated!Calls
  <2>2. /\ \A u \in Turns : turn[u].obj # Gated!None =>
             /\ session'[turn[u].obj].chat # Gated!None
             /\ chats[session'[turn[u].obj].chat].at[2] >= turn[u].at[2]
        /\ \A u \in Turns : turn[u].chat # Gated!None =>
             chats[turn[u].chat].at[2] >= turn[u].at[2]
    BY <2>1, <1>1, <1>5 DEF LocalInv
  <2>3. ASSUME NEW j \in Keys, table[j] # Gated!None, ~session'[table[j]].expired
        PROVE  chats[session'[table[j]].chat].at[2] >= changed'[j][2]
    <3>1. table[j] \in Gated!Objects /\ table[j] # o /\ j # k
      BY <2>3, <1>1, <1>2, <1>5
    <3>2. /\ session'[table[j]].chat = session[table[j]].chat /\ ~session[table[j]].expired
          /\ changed'[j] = changed[j]
      BY <3>1, <2>3, <1>4, <1>5
    <3>3. chats[session[table[j]].chat].at[2] >= changed[j][2]
      BY <3>2, <2>3, <1>1 DEF LocalInv
    <3> QED BY <3>2, <3>3
  <2> QED BY <2>2, <2>3, <1>3 DEF LocalInv
<1>13. CountInv'
  <2>1. Len(chats) \in Nat
    BY <1>1 DEF Gated!TypeOK
  <2>2. \A u \in Turns : Past(u)' = Past(u)
    BY <1>3 DEF Past
  <2> QED BY <2>1, <2>2, <1>1, <1>3, CountKept
<1> QED BY <1>6, <1>7, <1>8, <1>9, <1>10, <1>11, <1>12, <1>13 DEF GatedInv

-----------------------------------------------------------------------------
(* A turn looks its session up                                             *)

\* The objects in use belong to turns, and one of them has none yet.
LEMMA FreeObject ==
  ASSUME Gated!SessionsAssumption, GatedInv, NEW t \in Turns, turn[t].pc = "idle"
  PROVE  /\ Gated!Unused \in Gated!Objects
         /\ \A u \in Turns : turn[u].obj # Gated!Unused
         /\ \A k \in Keys : table[k] # Gated!Unused
<1>1. PICK f : f = [u \in Turns \ {t} |-> turn[u].obj]
  OBVIOUS
<1>2. PICK R : R = {f[u] : u \in Turns \ {t}}
  OBVIOUS
<1>3. /\ IsFiniteSet(Turns \ {t}) /\ IsFiniteSet(Turns) /\ Cardinality(Turns) \in Nat
      /\ Cardinality(Turns \ {t}) = Cardinality(Turns) - 1
  BY SameCount, FS_RemoveElement, FS_CardinalityType DEF Gated!SessionsAssumption
<1>4. f \in [Turns \ {t} -> R]
  BY <1>1, <1>2
<1>5. f \in Surjection(Turns \ {t}, R)
  BY <1>2, <1>4 DEF Surjection
<1>6. IsFiniteSet(R) /\ Cardinality(R) <= Cardinality(Turns \ {t})
  BY <1>3, <1>5, FS_Surjection
<1>7. Cardinality(R) \in Nat
  BY <1>6, FS_CardinalityType
<1>8. ~(Turns \subseteq R)
  <2> SUFFICES ASSUME Turns \subseteq R PROVE FALSE
    OBVIOUS
  <2>1. Cardinality(Turns) <= Cardinality(R)
    BY <1>6, FS_Subset
  <2> QED BY <2>1, <1>3, <1>6, <1>7
<1>9. PICK o \in Turns : o \notin R
  BY <1>8
<1>10. \A u \in Turns : turn[u].obj # o
  <2>1. turn[t].obj = Gated!None /\ o # Gated!None
    BY <1>9 DEF GatedInv, StageInv, Gated!None, Gated!SessionsAssumption
  <2>2. \A u \in Turns \ {t} : turn[u].obj \in R
    BY <1>1, <1>2
  <2> QED BY <2>1, <2>2, <1>9
<1>11. \A k \in Keys : table[k] # o
  <2>1. o # Gated!None
    BY <1>9 DEF Gated!None, Gated!SessionsAssumption
  <2> QED BY <2>1, <1>10 DEF GatedInv, OwnerInv, TableInv
<1>12. \E x \in Gated!Objects : /\ \A u \in Turns : turn[u].obj # x
                                /\ \A k \in Keys : table[k] # x
  BY <1>9, <1>10, <1>11 DEF Gated!Objects
<1> QED BY <1>12 DEF Gated!Unused

\* Turn t takes object o for key k: the key's, or one that nobody has.
Taken(t, k, o) ==
  /\ turn[t].pc = "idle"
  /\ k \in Keys => table[k] \in {Gated!None, o}
  /\ \/ k \in Keys /\ table[k] = o
     \/ /\ \A u \in Turns : turn[u].obj # o
        /\ \A j \in Keys : table[j] # o
  /\ turn' = [turn EXCEPT ![t].pc = "wait", ![t].key = k, ![t].obj = o, ![t].at = Gated!Now(k)]
  /\ table' = IF k = Private THEN table ELSE [table EXCEPT ![k] = o]
  /\ UNCHANGED <<kind, gate, changed>>

LEMMA TakenTurn ==
  ASSUME Gated!SessionsAssumption, GatedInv, NEW t \in Turns, NEW k \in Keys \cup {Private},
         NEW o \in Gated!Objects, Taken(t, k, o)
  PROVE  /\ \A u \in Turns \ {t} : turn'[u] = turn[u]
         /\ turn'[t].pc = "wait" /\ turn'[t].key = k /\ turn'[t].obj = o
         /\ turn'[t].at = Gated!Now(k)
         /\ turn'[t].chat = Gated!None /\ turn'[t].released = FALSE
         /\ turn[t].obj = Gated!None /\ o # Gated!None
         /\ turn' \in [Turns -> Gated!Calls]
         /\ Gated!Now(k) \in Gated!Times
<1>1. turn \in [Turns -> Gated!Calls] /\ changed \in [Keys -> Gated!Times] /\ StageInv
  BY DEF GatedInv, Gated!TypeOK
<1>2. turn[t].obj = Gated!None /\ turn[t].chat = Gated!None /\ turn[t].released = FALSE
  BY <1>1 DEF Taken, StageInv, Gated!Calls
<1>3. o # Gated!None
  BY DEF Gated!Objects, Gated!None, Gated!SessionsAssumption
<1>4. PICK n : n = Gated!Now(k)
  OBVIOUS
<1>5. n \in Gated!Times
  BY <1>1, <1>4 DEF Gated!Now, Gated!Times
<1>6. turn' = [turn EXCEPT ![t].pc = "wait", ![t].key = k, ![t].obj = o, ![t].at = n]
  BY <1>4 DEF Taken
<1>7. /\ \A u \in Turns \ {t} : turn'[u] = turn[u]
      /\ turn'[t] = [turn[t] EXCEPT !.pc = "wait", !.key = k, !.obj = o, !.at = n]
      /\ turn' = [u \in Turns |-> IF u = t THEN turn'[t] ELSE turn[u]]
  BY <1>1, <1>6
<1>8. turn[t] \in Gated!Calls
  BY <1>1
<1>9. turn'[t] \in Gated!Calls
  BY <1>5, <1>7, <1>8 DEF Gated!Calls, Gated!PCs
<1>10. /\ turn'[t].pc = "wait" /\ turn'[t].key = k /\ turn'[t].obj = o /\ turn'[t].at = n
       /\ turn'[t].chat = turn[t].chat /\ turn'[t].released = turn[t].released
  BY <1>7, <1>8 DEF Gated!Calls
<1>11. turn' \in [Turns -> Gated!Calls]
  BY <1>1, <1>7, <1>9
<1> QED BY <1>2, <1>3, <1>4, <1>5, <1>7, <1>10, <1>11

\* The object belongs to the key, and to no other.
LEMMA TakenObject ==
  ASSUME Gated!SessionsAssumption, GatedInv, NEW t \in Turns, NEW k \in Keys \cup {Private},
         NEW o \in Gated!Objects, Taken(t, k, o)
  PROVE  /\ \A u \in Turns : turn'[u].obj = o =>
              turn'[u].key = k /\ turn'[u].at[1] = Gated!Now(k)[1] /\ (k = Private => u = t)
         /\ \A j \in Keys \ {k} : table'[j] = table[j] /\ table[j] # o
         /\ k \in Keys => table'[k] = o
         /\ table' \in [Keys -> Gated!Objects \cup {Gated!None}]
<1>1. TableInv /\ table \in [Keys -> Gated!Objects \cup {Gated!None}]
  BY DEF GatedInv, OwnerInv, Gated!TypeOK
<1>2. /\ \A u \in Turns \ {t} : turn'[u] = turn[u]
      /\ turn'[t].key = k /\ turn'[t].at = Gated!Now(k) /\ turn[t].obj = Gated!None
      /\ o # Gated!None
  BY TakenTurn
<1>3. Private \notin Keys
  BY DEF Gated!SessionsAssumption
<1>4. k \in Keys => Gated!Now(k) = changed[k]
  BY <1>3 DEF Gated!Now
<1>5. /\ k \in Keys => table'[k] = o
      /\ \A j \in Keys \ {k} : table'[j] = table[j]
      /\ table' \in [Keys -> Gated!Objects \cup {Gated!None}]
  <2>1. CASE k = Private
    BY <2>1, <1>1, <1>3 DEF Taken
  <2>2. CASE k \in Keys
    <3>1. table' = [table EXCEPT ![k] = o]
      BY <2>2, <1>3 DEF Taken
    <3> QED BY <3>1, <2>2, <1>1
  <2> QED BY <2>1, <2>2
<1>6. ASSUME NEW u \in Turns, turn'[u].obj = o
      PROVE  turn'[u].key = k /\ turn'[u].at[1] = Gated!Now(k)[1] /\ (k = Private => u = t)
  <2>1. CASE u = t
    BY <2>1, <1>2
  <2>2. CASE u # t
    <3>1. turn[u].obj = o /\ turn'[u] = turn[u]
      BY <2>2, <1>6, <1>2
    <3>2. k \in Keys /\ table[k] = o
      BY <3>1 DEF Taken
    <3>3. turn[u].key = k /\ turn[u].at[1] = changed[k][1]
      BY <3>1, <3>2, <1>1, <1>2 DEF TableInv
    <3> QED BY <3>1, <3>2, <3>3, <1>3, <1>4
  <2> QED BY <2>1, <2>2
<1>7. ASSUME NEW j \in Keys \ {k}, table[j] = o PROVE FALSE
  <2>1. k \in Keys /\ table[k] = o
    BY <1>7 DEF Taken
  <2>2. PICK u \in Turns : turn[u].obj = o
    BY <2>1, <1>1, <1>2 DEF TableInv
  <2>3. turn[u].key = k /\ turn[u].key = j
    BY <2>1, <2>2, <1>1, <1>2, <1>7 DEF TableInv
  <2> QED BY <2>3
<1> QED BY <1>5, <1>6, <1>7

LEMMA TakenOwners ==
  ASSUME Gated!SessionsAssumption, GatedInv, NEW t \in Turns, NEW k \in Keys \cup {Private},
         NEW o \in Gated!Objects, Taken(t, k, o)
  PROVE  OwnerInv'
<1>1. TableInv /\ ObjectInv /\ TimeInv /\ changed' = changed
  BY DEF GatedInv, OwnerInv, Taken
<1>2. /\ \A u \in Turns \ {t} : turn'[u] = turn[u]
      /\ turn'[t].key = k /\ turn'[t].at = Gated!Now(k) /\ turn'[t].obj = o
      /\ turn[t].obj = Gated!None /\ o # Gated!None /\ Gated!Now(k) \in Gated!Times
  BY TakenTurn
<1>3. /\ \A u \in Turns : turn'[u].obj = o =>
           turn'[u].key = k /\ turn'[u].at[1] = Gated!Now(k)[1] /\ (k = Private => u = t)
      /\ \A j \in Keys \ {k} : table'[j] = table[j] /\ table[j] # o
      /\ k \in Keys => table'[k] = o
  BY TakenObject
<1>4. \A j : Gated!Now(j)' = Gated!Now(j)
  BY <1>1 DEF Gated!Now
<1>5. TableInv'
  <2> SUFFICES ASSUME NEW j \in Keys, table'[j] # Gated!None
               PROVE  /\ \E u \in Turns : turn'[u].obj = table'[j]
                      /\ \A u \in Turns : turn'[u].obj = table'[j] =>
                           turn'[u].key = j /\ turn'[u].at[1] = changed'[j][1]
    BY DEF TableInv
  <2>1. CASE j = k
    <3>1. Gated!Now(k) = changed'[k]
      BY <2>1, <1>1 DEF Gated!Now, Gated!SessionsAssumption
    <3> QED BY <2>1, <3>1, <1>2, <1>3
  <2>2. CASE j # k
    <3>1. table'[j] = table[j] /\ table[j] # o
      BY <2>2, <1>3
    <3>2. PICK u \in Turns : turn[u].obj = table[j]
      BY <3>1, <1>1 DEF TableInv
    <3>3. turn'[u].obj = table'[j]
      BY <3>1, <3>2, <1>2
    <3>4. ASSUME NEW v \in Turns, turn'[v].obj = table'[j]
          PROVE  turn'[v].key = j /\ turn'[v].at[1] = changed'[j][1]
      <4>1. v # t /\ turn'[v] = turn[v]
        BY <3>1, <3>4, <1>2
      <4> QED BY <4>1, <3>1, <3>4, <1>1 DEF TableInv
    <3> QED BY <3>3, <3>4
  <2> QED BY <2>1, <2>2
<1>6. ObjectInv'
  <2> SUFFICES ASSUME NEW u \in Turns, NEW v \in Turns, turn'[u].obj = turn'[v].obj,
                      turn'[u].obj # Gated!None
               PROVE  /\ turn'[u].key = turn'[v].key /\ turn'[u].at[1] = turn'[v].at[1]
                      /\ turn'[u].key = Private => u = v
    BY DEF ObjectInv
  <2>1. CASE turn'[u].obj = o
    BY <2>1, <1>3
  <2>2. CASE turn'[u].obj # o
    <3>1. turn'[u] = turn[u] /\ turn'[v] = turn[v]
      BY <2>2, <1>2
    <3> QED BY <3>1, <1>1 DEF ObjectInv
  <2> QED BY <2>1, <2>2
<1>7. TimeInv'
  <2> SUFFICES ASSUME NEW u \in Turns
               PROVE  (/\ turn[u].at[1] <= Gated!Now(turn[u].key)[1]
                       /\ turn[u].at[2] <= Gated!Now(turn[u].key)[2])'
    BY DEF TimeInv
  <2>1. CASE u = t
    <3>1. Gated!Now(turn[u].key)' = Gated!Now(k)
      BY <2>1, <1>1, <1>2 DEF Gated!Now
    <3> QED BY <2>1, <3>1, <1>2 DEF Gated!Times
  <2>2. CASE u # t
    <3>1. turn'[u] = turn[u]
      BY <2>2, <1>2
    <3>2. Gated!Now(turn[u].key)' = Gated!Now(turn[u].key)
      BY <3>1, <1>1 DEF Gated!Now
    <3> QED BY <3>1, <3>2, <1>1 DEF TimeInv
  <2> QED BY <2>1, <2>2
<1> QED BY <1>5, <1>6, <1>7 DEF OwnerInv


\* What session() puts into the object: a session with a new local id, an
\* empty one, or the one that is there.
FreshSession(k, s) == kind = "local" /\ s = Gated!NewSession /\ chats' = Gated!Begun(k)
BlankSession(s) == kind # "local" /\ s = Gated!EmptyEntry /\ chats' = chats
SameSession(k, o, s) == /\ k \in Keys /\ table[k] = o /\ s = session[o] /\ ~s.expired
                        /\ chats' = chats

LEMMA AskedKeeps ==
  ASSUME Gated!SessionsAssumption, GatedInv, NEW t \in Turns, NEW k \in Keys \cup {Private},
         NEW o \in Gated!Objects, NEW s, Taken(t, k, o), ~Gated!Full(k),
         session' = [session EXCEPT ![o] = s],
         FreshSession(k, s) \/ BlankSession(s) \/ SameSession(k, o, s)
  PROVE  GatedInv'
<1>1. /\ Gated!TypeOK /\ StageInv /\ GateInv /\ OwnerInv /\ IdInv /\ ChatInv /\ LocalInv
      /\ CountInv
      /\ turn \in [Turns -> Gated!Calls] /\ session \in [Gated!Objects -> Gated!Entries]
      /\ table \in [Keys -> Gated!Objects \cup {Gated!None}] /\ changed \in [Keys -> Gated!Times]
      /\ Len(chats) \in Nat
  BY DEF GatedInv, Gated!TypeOK
<1>2. /\ \A u \in Turns \ {t} : turn'[u] = turn[u]
      /\ turn'[t].pc = "wait" /\ turn'[t].key = k /\ turn'[t].obj = o
      /\ turn'[t].at = Gated!Now(k)
      /\ turn'[t].chat = Gated!None /\ turn'[t].released = FALSE
      /\ turn[t].obj = Gated!None /\ o # Gated!None
      /\ turn' \in [Turns -> Gated!Calls]
      /\ Gated!Now(k) \in Gated!Times
  BY TakenTurn
<1>3. /\ \A u \in Turns : turn'[u].obj = o =>
           turn'[u].key = k /\ turn'[u].at[1] = Gated!Now(k)[1] /\ (k = Private => u = t)
      /\ \A j \in Keys \ {k} : table'[j] = table[j] /\ table[j] # o
      /\ k \in Keys => table'[k] = o
      /\ table' \in [Keys -> Gated!Objects \cup {Gated!None}]
  BY TakenObject
<1>4. OwnerInv'
  BY TakenOwners
<1>5. turn[t].pc = "idle" /\ kind' = kind /\ gate' = gate /\ changed' = changed
  BY DEF Taken
<1>6. /\ \A x \in Gated!Objects \ {o} : session'[x] = session[x]
      /\ session'[o] = s
  BY <1>1
<1>7. /\ FreshSession(k, s) => s.chat = Len(chats) + 1 /\ ~s.expired
      /\ BlankSession(s) => s.chat = Gated!None
      /\ SameSession(k, o, s) => s.chat \in 0..Len(chats)
  BY <1>1
     DEF FreshSession, BlankSession, SameSession, Gated!NewSession, Gated!EmptyEntry,
         Gated!NextChat, IdInv
<1>8. /\ Len(chats') \in Nat /\ Len(chats) <= Len(chats')
      /\ \A c \in 1..Len(chats) : chats'[c] = chats[c]
  <2>1. CASE FreshSession(k, s)
    <3>1. /\ Len(chats') = Len(chats) + 1
          /\ \A c \in 1..Len(chats) : chats'[c] = chats[c]
      BY <2>1, <1>1, ChatBegun DEF FreshSession
    <3> QED BY <3>1, <1>1
  <2>2. CASE chats' = chats
    BY <2>2, <1>1
  <2> QED BY <2>1, <2>2 DEF BlankSession, SameSession
<1>9. FreshSession(k, s) => /\ Len(chats') = Len(chats) + 1
                            /\ chats'[Len(chats) + 1].key = k
                            /\ chats'[Len(chats) + 1].at = Gated!Now(k)
  <2> SUFFICES ASSUME FreshSession(k, s)
               PROVE  /\ Len(chats') = Len(chats) + 1
                      /\ chats'[Len(chats) + 1] = [key |-> k, at |-> Gated!Now(k)]
    OBVIOUS
  <2> QED BY <1>1, ChatBegun DEF FreshSession
<1>10. ~FreshSession(k, s) => chats' = chats
  BY DEF BlankSession, SameSession
<1>11. CountInv'
  <2>1. \A u \in Turns \ {t} : Past(u)' = Past(u)
    BY <1>2, <1>5 DEF Past
  <2>2. ~Past(t)
    <3>1. turn[t].chat = Gated!None
      BY <1>1, <1>5 DEF StageInv
    <3> QED BY <3>1, <1>5 DEF Past
  <2>3. \A u \in Turns : Past(u) => Past(u)'
    BY <2>1, <2>2
  <2>4. CASE FreshSession(k, s)
    <3>1. Past(t)'
      BY <2>4, <1>2, <1>5 DEF Past, FreshSession
    <3>2. Len(chats') = Len(chats) + 1
      BY <2>4, <1>9
    <3> QED BY <3>1, <3>2, <2>2, <2>3, <1>1, CountAdded
  <2>5. CASE ~FreshSession(k, s)
    <3>1. Len(chats') = Len(chats)
      BY <2>5, <1>10
    <3> QED BY <3>1, <2>3, <1>1, CountKept
  <2> QED BY <2>4, <2>5
<1>12. s.chat \in 0..Len(chats')
  BY <1>1, <1>7, <1>8, <1>9 DEF Gated!None
<1>13. IdInv'
  <2>1. \A u \in Turns : turn'[u].chat \in 0..Len(chats')
    BY <1>1, <1>2, <1>8 DEF IdInv, Gated!None
  <2>2. \A x \in Gated!Objects : session'[x].chat \in 0..Len(chats')
    BY <1>1, <1>6, <1>8, <1>12 DEF IdInv
  <2> QED BY <2>1, <2>2 DEF IdInv
<1>14. Gated!TypeOK'
  <2>1. chats' \in Seq([key : Keys \cup {Private}, at : Gated!Times])
    <3>1. chats \in Seq([key : Keys \cup {Private}, at : Gated!Times])
      BY <1>1 DEF Gated!TypeOK
    <3>2. CASE FreshSession(k, s)
      <4>1. [key |-> k, at |-> Gated!Now(k)] \in [key : Keys \cup {Private}, at : Gated!Times]
        BY <1>2
      <4>2. chats' = Append(chats, [key |-> k, at |-> Gated!Now(k)])
        BY <3>2 DEF FreshSession, Gated!Begun
      <4> QED BY <4>1, <4>2, <3>1
    <3>3. CASE ~FreshSession(k, s)
      BY <3>1, <3>3, <1>10
    <3> QED BY <3>2, <3>3
  <2>2. Len(chats') <= Gated!MaxChats /\ Gated!MaxChats \in Nat
    <3>1. {u \in Turns : Past(u)'} \in SUBSET Turns
      OBVIOUS
    <3>2. /\ Cardinality({u \in Turns : Past(u)'}) \in Nat
          /\ Cardinality({u \in Turns : Past(u)'}) <= Gated!MaxChats
      BY SameCount, <3>1, PastIsFinite DEF Gated!MaxChats
    <3>3. Len(chats') <= Cardinality({u \in Turns : Past(u)'})
      BY <1>11 DEF CountInv
    <3>4. Gated!MaxChats \in Nat
      BY SameCount, FS_CardinalityType DEF Gated!MaxChats, Gated!SessionsAssumption
    <3> QED BY <3>2, <3>3, <3>4, <1>8
  <2>3. s \in Gated!Entries
    <3>1. CASE FreshSession(k, s) \/ BlankSession(s)
      <4>1. PICK c : c = s.chat
        OBVIOUS
      <4>2. c \in 0..Gated!MaxChats
        BY <4>1, <2>2, <1>8, <1>12
      <4>3. s = [chat |-> c, parent |-> Gated!None, expired |-> FALSE]
        BY <3>1, <4>1 DEF FreshSession, BlankSession, Gated!NewSession, Gated!EmptyEntry
      <4> QED BY ONLY <4>2, <4>3 DEF Gated!Entries
    <3>2. CASE SameSession(k, o, s)
      BY <3>2, <1>1 DEF SameSession
    <3> QED BY <3>1, <3>2
  <2>4. session' \in [Gated!Objects -> Gated!Entries]
    BY <2>3, <1>1
  <2>5. Cardinality(Gated!Known') <= MaxSessions
    <3>1. Gated!Known \subseteq Keys
      BY DEF Gated!Known
    <3>2. IsFiniteSet(Gated!Known)
      BY SameCount, <3>1, FS_Subset DEF Gated!SessionsAssumption
    <3>3. Cardinality(Gated!Known) \in Nat /\ Cardinality(Gated!Known) <= MaxSessions
      BY SameCount, <3>2, <1>1, FS_CardinalityType DEF Gated!TypeOK
    <3>4. CASE k \in Keys /\ table[k] = Gated!None
      <4>1. Gated!Known' = Gated!Known \cup {k} /\ k \notin Gated!Known
        BY <3>4, <1>2, <1>3 DEF Gated!Known
      <4>2. Cardinality(Gated!Known) < MaxSessions
        BY SameCount, <3>3, <3>4 DEF Gated!Full, Gated!SessionsAssumption
      <4>3. Cardinality(Gated!Known') = Cardinality(Gated!Known) + 1
        BY <4>1, <3>2, FS_AddElement
      <4> QED BY <4>2, <4>3, <3>3 DEF Gated!SessionsAssumption
    <3>5. CASE ~(k \in Keys /\ table[k] = Gated!None)
      <4>1. \A j \in Keys : table'[j] # Gated!None <=> table[j] # Gated!None
        BY <3>5, <1>2, <1>3
      <4>2. Gated!Known' = Gated!Known
        BY <4>1 DEF Gated!Known
      <4> QED BY <4>2, <3>3
    <3> QED BY <3>4, <3>5
  <2> QED BY SameCount, <2>1, <2>4, <2>5, <1>1, <1>2, <1>3, <1>5 DEF Gated!TypeOK
<1>15. StageInv'
  <2>1. Gated!Creates' = Gated!Creates
    BY <1>5 DEF Gated!Creates
  <2> SUFFICES ASSUME NEW u \in Turns
               PROVE  (/\ turn[u].pc = "idle" => turn[u].obj = Gated!None /\ turn[u].at = <<0, 0>>
                       /\ turn[u].pc \notin {"idle", "over"} => turn[u].obj \in Gated!Objects
                       /\ turn[u].obj = Gated!None => turn[u].chat = Gated!None
                       /\ turn[u].pc \in {"idle", "wait"} =>
                            turn[u].chat = Gated!None /\ ~turn[u].released
                       /\ turn[u].pc = "create" => Gated!Creates)'
    BY DEF StageInv
  <2>2. CASE u = t
    BY <2>2, <1>2
  <2>3. CASE u # t
    BY <2>1, <2>3, <1>1, <1>2 DEF StageInv
  <2> QED BY <2>2, <2>3
<1>16. GateInv'
  <2>1. \A u \in Turns : /\ Gated!Talking(u)' => Gated!Talking(u) /\ turn'[u] = turn[u]
                         /\ turn'[u].pc \in {"ended", "loose"} => turn'[u] = turn[u]
    BY <1>2 DEF Gated!Talking
  <2>2. Gated!OneTurnAtATime'
    BY <2>1, <1>1 DEF GateInv, Gated!OneTurnAtATime
  <2> QED BY <2>1, <2>2, <1>1, <1>5 DEF GateInv
<1>17. ChatInv'
  <2>1. ASSUME NEW c \in 1..Len(chats), NEW u \in Turns, Holds(u, c)'
        PROVE  \E w \in Turns : /\ Holds(w, c) /\ turn[w].obj = turn'[u].obj
                                /\ turn[w].key = turn'[u].key
                                /\ turn[w].at[1] = turn'[u].at[1]
    <3>1. /\ turn'[u].obj # Gated!None /\ turn'[u].obj \in Gated!Objects
          /\ turn'[u].chat = c \/ session'[turn'[u].obj].chat = c
      BY <2>1, <1>2 DEF Holds, Gated!Calls
    <3>2. c # Gated!None /\ c # Len(chats) + 1
      BY <1>1 DEF Gated!None
    <3>3. CASE turn'[u].obj = o /\ session'[o].chat = c
      <4>1. s.chat = c
        BY <3>3, <1>6
      <4>2. SameSession(k, o, s)
        BY <3>2, <4>1, <1>7
      <4>3. k \in Keys /\ table[k] = o /\ session[o].chat = c
        BY <4>1, <4>2 DEF SameSession
      <4>4. PICK w \in Turns : turn[w].obj = o
        BY <4>3, <1>1, <1>2 DEF OwnerInv, TableInv
      <4>5. turn[w].key = k /\ turn[w].at[1] = changed[k][1]
        BY <4>3, <4>4, <1>1, <1>2 DEF OwnerInv, TableInv
      <4>6. Gated!Now(k) = changed[k]
        BY <4>3 DEF Gated!Now, Gated!SessionsAssumption
      <4>7. Holds(w, c)
        BY <4>3, <4>4, <1>2 DEF Holds
      <4> QED BY <4>4, <4>5, <4>6, <4>7, <3>3, <1>3
    <3>4. CASE ~(turn'[u].obj = o /\ session'[o].chat = c)
      <4>1. u # t
        BY <3>1, <3>2, <3>4, <1>2
      <4>2. turn'[u] = turn[u]
        BY <4>1, <1>2
      <4>3. turn[u].chat = c \/ session[turn[u].obj].chat = c
        BY <3>1, <3>4, <4>2, <1>6
      <4> QED BY <3>1, <4>2, <4>3 DEF Holds
    <3> QED BY <3>3, <3>4
  <2>2. ASSUME NEW c \in 1..Len(chats'), c \notin 1..Len(chats), NEW u \in Turns, Holds(u, c)'
        PROVE  turn'[u].obj = o /\ chats'[c].key = k /\ chats'[c].at = Gated!Now(k)
    <3>1. FreshSession(k, s) /\ c = Len(chats) + 1
      BY <2>2, <1>1, <1>9, <1>10
    <3>2. turn'[u].chat # c
      BY <3>1, <1>1, <1>2 DEF IdInv, Gated!None
    <3>3. turn'[u].obj \in Gated!Objects /\ session'[turn'[u].obj].chat = c
      BY <2>2, <3>2, <1>2 DEF Holds, Gated!Calls
    <3>4. turn'[u].obj = o
      BY <3>1, <3>3, <1>1, <1>6 DEF IdInv
    <3> QED BY <3>1, <3>4, <1>9
  <2> SUFFICES ASSUME NEW c \in 1..Len(chats'), NEW u \in Turns, Holds(u, c)'
               PROVE  /\ chats'[c].key = turn'[u].key /\ chats'[c].at[1] >= turn'[u].at[1]
                      /\ \A v \in Turns : Holds(v, c)' => turn'[v].obj = turn'[u].obj
    BY DEF ChatInv
  <2>3. CASE c \in 1..Len(chats)
    <3>1. PICK w \in Turns : /\ Holds(w, c) /\ turn[w].obj = turn'[u].obj
                             /\ turn[w].key = turn'[u].key /\ turn[w].at[1] = turn'[u].at[1]
      BY <2>1, <2>3
    <3>2. /\ chats[c].key = turn[w].key /\ chats[c].at[1] >= turn[w].at[1]
          /\ \A v \in Turns : Holds(v, c) => turn[v].obj = turn[w].obj
      BY <2>3, <3>1, <1>1 DEF ChatInv
    <3>3. \A v \in Turns : Holds(v, c)' => turn'[v].obj = turn'[u].obj
      BY <2>1, <2>3, <3>1, <3>2
    <3> QED BY <2>3, <3>1, <3>2, <3>3, <1>8
  <2>4. CASE c \notin 1..Len(chats)
    <3>1. turn'[u].obj = o /\ chats'[c].key = k /\ chats'[c].at = Gated!Now(k)
      BY <2>2, <2>4
    <3>2. turn'[u].key = k /\ turn'[u].at[1] = Gated!Now(k)[1] /\ Gated!Now(k)[1] \in Nat
      BY <3>1, <1>2, <1>3 DEF Gated!Times
    <3>3. \A v \in Turns : Holds(v, c)' => turn'[v].obj = o
      BY <2>2, <2>4
    <3> QED BY <3>1, <3>2, <3>3
  <2> QED BY <2>3, <2>4
<1>18. LocalInv'
  <2> SUFFICES ASSUME kind = "local" PROVE LocalInv'
    BY <1>5 DEF LocalInv
  <2>1. FreshSession(k, s) \/ SameSession(k, o, s)
    BY DEF BlankSession
  <2>2. /\ \A u \in Turns : turn[u].obj # Gated!None =>
              /\ session[turn[u].obj].chat # Gated!None
              /\ chats[session[turn[u].obj].chat].at[2] >= turn[u].at[2]
        /\ \A u \in Turns : turn[u].chat # Gated!None =>
             chats[turn[u].chat].at[2] >= turn[u].at[2]
        /\ \A j \in Keys : table[j] # Gated!None /\ ~session[table[j]].expired =>
              chats[session[table[j]].chat].at[2] >= changed[j][2]
    BY <1>1 DEF LocalInv
  <2>3. s.chat # Gated!None /\ chats'[s.chat].at[2] \in Nat
            /\ chats'[s.chat].at[2] >= Gated!Now(k)[2]
    <3>1. CASE FreshSession(k, s)
      <4>1. s.chat = Len(chats) + 1 /\ chats'[s.chat].at = Gated!Now(k)
        BY <3>1, <1>7, <1>9
      <4> QED BY <4>1, <1>1, <1>2 DEF Gated!None, Gated!Times
    <3>2. CASE SameSession(k, o, s)
      <4>1. k \in Keys /\ table[k] = o /\ s = session[o] /\ ~session[o].expired
        BY <3>2 DEF SameSession
      <4>2. PICK w \in Turns : turn[w].obj = o
        BY <4>1, <1>1, <1>2 DEF OwnerInv, TableInv
      <4>3. session[o].chat # Gated!None /\ session[o].chat \in 1..Len(chats)
        BY <4>2, <2>2, <1>1, <1>2 DEF IdInv, Gated!None
      <4>4. chats[session[o].chat].at[2] >= changed[k][2]
        BY <4>1, <2>2, <1>2
      <4>5. Gated!Now(k) = changed[k]
        BY <4>1 DEF Gated!Now, Gated!SessionsAssumption
      <4>6. chats'[s.chat] = chats[session[o].chat]
        BY <4>1, <4>3, <1>8
      <4>7. chats[session[o].chat].at \in Gated!Times
        <5>1. chats \in Seq([key : Keys \cup {Private}, at : Gated!Times])
          BY <1>1 DEF Gated!TypeOK
        <5>2. PICK c \in 1..Len(chats) : c = session[o].chat
          BY <4>3
        <5>3. chats[c] \in [key : Keys \cup {Private}, at : Gated!Times]
          BY <5>1, ElementOfSeq
        <5> QED BY <5>2, <5>3
      <4> QED BY <4>1, <4>3, <4>4, <4>5, <4>6, <4>7 DEF Gated!Times
    <3> QED BY <2>1, <3>1, <3>2
  <2>4. ASSUME NEW u \in Turns, turn'[u].obj # Gated!None
        PROVE  /\ session'[turn'[u].obj].chat # Gated!None
               /\ chats'[session'[turn'[u].obj].chat].at[2] >= turn'[u].at[2]
    <3>1. turn'[u].obj \in Gated!Objects
      BY <2>4, <1>2 DEF Gated!Calls
    <3>2. CASE turn'[u].obj = o
      <4>1. turn'[u].key = k
        BY <3>2, <1>3
      <4>2. turn'[u].at[2] <= Gated!Now(k)[2]
        <5>1. turn'[u].at[2] <= Gated!Now(turn[u].key)'[2]
          BY <1>4 DEF OwnerInv, TimeInv
        <5>2. Gated!Now(turn[u].key)' = Gated!Now(k)
          BY <4>1, <1>5 DEF Gated!Now
        <5> QED BY <5>1, <5>2
      <4>3. turn'[u].at[2] \in Nat /\ Gated!Now(k)[2] \in Nat
        BY <1>2 DEF Gated!Calls, Gated!Times
      <4> QED BY <3>2, <4>2, <4>3, <2>3, <1>6
    <3>3. CASE turn'[u].obj # o
      <4>1. turn'[u] = turn[u] /\ session'[turn[u].obj] = session[turn[u].obj]
        BY <3>1, <3>3, <1>2, <1>6
      <4>2. session[turn[u].obj].chat # Gated!None
        BY <4>1, <2>2, <2>4
      <4>3. session[turn[u].obj].chat \in 1..Len(chats)
        BY <4>1, <4>2, <3>1, <1>1 DEF IdInv, Gated!None
      <4> QED BY <4>1, <4>2, <4>3, <2>2, <2>4, <1>8
    <3> QED BY <3>2, <3>3
  <2>5. ASSUME NEW u \in Turns, turn'[u].chat # Gated!None
        PROVE  chats'[turn'[u].chat].at[2] >= turn'[u].at[2]
    <3>1. turn'[u] = turn[u]
      BY <2>5, <1>2
    <3>2. turn[u].chat \in 1..Len(chats)
      BY <3>1, <2>5, <1>1 DEF IdInv, Gated!None
    <3> QED BY <3>1, <3>2, <2>2, <2>5, <1>8
  <2>6. ASSUME NEW j \in Keys, table'[j] # Gated!None, ~session'[table'[j]].expired
        PROVE  chats'[session'[table'[j]].chat].at[2] >= changed'[j][2]
    <3>1. CASE j = k
      <4>1. table'[j] = o /\ Gated!Now(k) = changed'[j]
        BY <3>1, <1>3, <1>5 DEF Gated!Now, Gated!SessionsAssumption
      <4> QED BY <4>1, <2>3, <1>6
    <3>2. CASE j # k
      <4>1. table'[j] = table[j] /\ table[j] # o /\ table[j] \in Gated!Objects
        BY <3>2, <2>6, <1>1, <1>3
      <4>2. session'[table[j]] = session[table[j]]
        BY <4>1, <1>6
      <4>3. PICK w \in Turns : turn[w].obj = table[j]
        BY <4>1, <2>6, <1>1 DEF OwnerInv, TableInv
      <4>4. session[table[j]].chat \in 1..Len(chats)
        BY <4>1, <4>3, <2>2, <2>6, <1>1 DEF IdInv, Gated!None
      <4>5. chats[session[table[j]].chat].at[2] >= changed[j][2]
        BY <4>1, <4>2, <2>2, <2>6
      <4> QED BY <4>1, <4>2, <4>4, <4>5, <1>5, <1>8
    <3> QED BY <3>1, <3>2
  <2> QED BY <2>4, <2>5, <2>6, <1>5 DEF LocalInv
<1> QED BY <1>4, <1>11, <1>13, <1>14, <1>15, <1>16, <1>17, <1>18 DEF GatedInv

LEMMA LookupKeeps ==
  ASSUME Gated!SessionsAssumption, GatedInv, NEW t \in Turns, NEW k \in Keys \cup {Private},
         Gated!Ask(t, k)
  PROVE  GatedInv'
<1>1. /\ table \in [Keys -> Gated!Objects \cup {Gated!None}]
      /\ session \in [Gated!Objects -> Gated!Entries]
      /\ Len(chats) \in Nat /\ IdInv
  BY DEF GatedInv, Gated!TypeOK
<1>2. turn[t].pc = "idle" /\ ~Gated!Full(k)
  BY DEF Gated!Ask, Gated!Arrives
<1>3. PICK o : o = IF Gated!Lookup(k) = Gated!None THEN Gated!Unused ELSE Gated!Lookup(k)
  OBVIOUS
<1>4. PICK s : s = IF Gated!Lookup(k) = Gated!None THEN Gated!NewSession
               ELSE Gated!Renewed(session[o])
  OBVIOUS
<1>5. /\ turn' = [turn EXCEPT ![t].pc = "wait", ![t].key = k, ![t].obj = o,
           ![t].at = Gated!Now(k)]
      /\ session' = [session EXCEPT ![o] = s]
      /\ table' = IF k = Private THEN table ELSE [table EXCEPT ![k] = o]
      /\ chats' = IF s.chat = Gated!NextChat THEN Gated!Begun(k) ELSE chats
      /\ UNCHANGED <<kind, gate, changed>>
  BY <1>3, <1>4 DEF Gated!Ask
<1>6. /\ Gated!Unused \in Gated!Objects /\ \A u \in Turns : turn[u].obj # Gated!Unused
      /\ \A j \in Keys : table[j] # Gated!Unused
  BY <1>2, FreeObject
<1>7. Gated!Lookup(k) # Gated!None => k \in Keys /\ table[k] = o /\ o = Gated!Lookup(k)
  BY <1>3 DEF Gated!Lookup
<1>8. o \in Gated!Objects
  BY <1>1, <1>3, <1>6, <1>7
<1>9. k \in Keys => table[k] \in {Gated!None, o}
  BY <1>1, <1>3 DEF Gated!Lookup, Gated!SessionsAssumption
<1>10. Taken(t, k, o)
  BY <1>2, <1>3, <1>5, <1>6, <1>7, <1>9 DEF Taken
<1>11. FreshSession(k, s) \/ BlankSession(s) \/ SameSession(k, o, s)
  <2>1. CASE s = Gated!NewSession
    <3>1. CASE kind = "local"
      <4>1. s.chat = Gated!NextChat
        BY <2>1, <3>1 DEF Gated!NewSession, Gated!EmptyEntry
      <4> QED BY <2>1, <3>1, <4>1, <1>5 DEF FreshSession
    <3>2. CASE kind # "local"
      <4>1. s = Gated!EmptyEntry
        BY <2>1, <3>2 DEF Gated!NewSession, Gated!EmptyEntry
      <4>2. s.chat # Gated!NextChat
        BY <4>1, <1>1 DEF Gated!EmptyEntry, Gated!NextChat, Gated!None
      <4> QED BY <3>2, <4>1, <4>2, <1>5 DEF BlankSession
    <3> QED BY <3>1, <3>2
  <2>2. CASE s # Gated!NewSession
    <3>1. k \in Keys /\ table[k] = o /\ s = session[o] /\ ~s.expired
      BY <2>2, <1>4, <1>7 DEF Gated!Renewed
    <3>2. s.chat # Gated!NextChat
      BY <3>1, <1>1, <1>8 DEF IdInv, Gated!NextChat
    <3> QED BY <3>1, <3>2, <1>5 DEF SameSession
  <2> QED BY <2>1, <2>2
<1> QED BY <1>2, <1>5, <1>8, <1>10, <1>11, AskedKeeps


-----------------------------------------------------------------------------
(* Every step keeps the invariant                                          *)

LEMMA SessionsStep ==
  ASSUME Gated!SessionsAssumption, GatedInv, [Gated!Next]_(Gated!vars)
  PROVE  GatedInv'
<1>1. CASE UNCHANGED Gated!vars
  <2>1. SameChats
    BY <1>1 DEF SameChats, Gated!vars
  <2>2. OwnerInv' /\ IdInv' /\ ChatInv' /\ LocalInv' /\ CountInv'
    BY <2>1, SameChatsKeeps
  <2>3. Gated!TypeOK'
    <3>1. Gated!Known' = Gated!Known
      BY <1>1 DEF Gated!Known, Gated!vars
    <3> QED BY <3>1, <1>1 DEF GatedInv, Gated!TypeOK, Gated!vars
  <2>4. StageInv'
    BY <1>1 DEF GatedInv, StageInv, Gated!Creates, Gated!vars
  <2>5. GateInv'
    BY <1>1 DEF GatedInv, GateInv, Gated!OneTurnAtATime, Gated!Talking, Gated!vars
  <2> QED BY <2>2, <2>3, <2>4, <2>5 DEF GatedInv
<1>2. ASSUME NEW t \in Turns, NEW k \in Keys \cup {Private}, Gated!Refuse(t, k) \/ Gated!Ask(t, k)
      PROVE  GatedInv'
  BY <1>2, LeaveKeeps, LookupKeeps
<1>3. ASSUME NEW t \in Turns, Gated!Lock(t) \/ Gated!LeaveQueue(t) \/ Gated!ToldChat(t)
          \/ Gated!ToldParent(t)
      PROVE  GatedInv'
  BY <1>3, GateLockKeeps, LeaveKeeps, ToldChatKeeps, ToldParentKeeps
<1>4. ASSUME NEW t \in Turns, Gated!Step(t) PROVE GatedInv'
  <2>1. CASE Gated!Created(t)
    BY <2>1, CreatedKeeps
  <2>2. CASE \/ Gated!Fail(t) \/ Gated!Refused(t) \/ Gated!Accepted(t) \/ Gated!Drained(t)
                 \/ Gated!CloseBody(t)
             \/ Gated!ConverterEnds(t)
    BY <2>2, StepKeeps
  <2> QED BY <1>4, <2>1, <2>2 DEF Gated!Step
<1>5. ASSUME NEW k \in Keys, Gated!ClearSession(k) \/ Gated!ExpireSession(k) PROVE GatedInv'
  BY <1>5, ClearedKeeps, ExpireKeeps
<1>6. CASE Gated!Finished
  BY <1>1, <1>6 DEF Gated!Finished
<1> QED BY <1>1, <1>2, <1>3, <1>4, <1>5, <1>6 DEF Gated!Next

\* The invariant gives the three properties.
LEMMA SessionsSeparate ==
  ASSUME Gated!SessionsAssumption, GatedInv
  PROVE  Gated!OneTurnAtATime /\ Gated!ConversationOfKey /\ Gated!ExpiredIsLeft
<1>1. /\ GateInv /\ StageInv /\ IdInv /\ ChatInv /\ LocalInv /\ OwnerInv
  BY DEF GatedInv
<1>2. Gated!OneTurnAtATime
  BY <1>1 DEF GateInv
<1>3. Gated!ConversationOfKey
  <2> SUFFICES ASSUME NEW t \in Turns, turn[t].chat # Gated!None
               PROVE  /\ chats[turn[t].chat].key = turn[t].key
                      /\ turn[t].key = Private =>
                           \A u \in Turns \ {t} : turn[u].chat # turn[t].chat
                      /\ chats[turn[t].chat].at[1] >= turn[t].at[1]
    BY DEF Gated!ConversationOfKey
  <2>1. PICK c \in 1..Len(chats) : c = turn[t].chat
    BY <1>1 DEF IdInv, Gated!None
  <2>2. Holds(t, c) /\ turn[t].obj # Gated!None
    BY <2>1, <1>1 DEF StageInv, Holds
  <2>3. /\ chats[c].key = turn[t].key /\ chats[c].at[1] >= turn[t].at[1]
        /\ \A u \in Turns : Holds(u, c) => turn[u].obj = turn[t].obj
    BY <2>2, <1>1 DEF ChatInv
  <2>4. ASSUME turn[t].key = Private, NEW u \in Turns, turn[u].chat = c PROVE u = t
    <3>1. Holds(u, c)
      BY <2>1, <2>4, <1>1 DEF StageInv, Holds
    <3> QED BY <3>1, <2>2, <2>3, <2>4, <1>1 DEF OwnerInv, ObjectInv
  <2> QED BY <2>1, <2>3, <2>4
<1>4. Gated!ExpiredIsLeft
  BY <1>1 DEF LocalInv, Gated!ExpiredIsLeft
<1> QED BY <1>2, <1>3, <1>4

(* However many callers share a session, and whatever the operator clears  *)
(* or expires meanwhile, a session has one turn at a time, a conversation  *)
(* stays with the key it was begun for, and no request continues one from  *)
(* before a clear, nor, where the ids are local, from before an expiry     *)
(* (session(), Gate, sessionResponseBody, ChangeSession).                  *)
THEOREM SessionsStaySeparate ==
  ASSUME Gated!SessionsAssumption
  PROVE  Gated!Spec => []SessionsAreSeparate
<1>1. Gated!Init => GatedInv
  BY InitSessions
<1>2. GatedInv /\ [Gated!Next]_(Gated!vars) => GatedInv'
  BY SessionsStep
<1>3. GatedInv => SessionsAreSeparate
  BY SessionsSeparate DEF GatedInv, SessionsAreSeparate
<1> QED BY <1>1, <1>2, <1>3, PTL DEF Gated!Spec

-----------------------------------------------------------------------------
(* The browser driver: the inductive invariant                             *)

\* The first n turns of the session were submitted, each of them once.
Settled(k, n) == \A p \in 0..MaxNodes : clicked[k][p] = IF p < n THEN 1 ELSE 0

\* Memory is what is on disk, except for expired sessions that get has
\* forgotten; what is not in memory has submitted nothing.
StoreInv ==
    \A k \in Keys :
        /\ items[k] # NoSession => items[k] = disk[k]
        /\ items[k] = NoSession /\ disk[k] # NoSession => disk[k].expired
        /\ items[k] = NoSession => Settled(k, 0)

\* Up to node n, the conversation has only turns of the gateway.
Shared(c, n) ==
    c # 0 /\ Contains(paths[c], n)
        => \A i \in DOMAIN paths[c] : paths[c][i] <= n => paths[c][i] \in mine

\* A session counts no more turns than there were nodes, and its conversation
\* belongs to its account.
SessionOK(s) ==
    /\ s.turns <= s.last /\ s.last <= made /\ s.conv <= made
    /\ s.last # 0 => s.conv # 0 /\ author[s.last] = s.account
    /\ s.conv # 0 => author[s.conv] = s.account
    /\ Shared(s.conv, s.last)

SessionsInv == \A k \in Keys : disk[k] # NoSession => SessionOK(disk[k])

\* Later nodes of a conversation were made later.
PathsInv ==
    \A c \in Conversations : \A i, j \in DOMAIN paths[c] :
        paths[c][i] <= made /\ (i < j => paths[c][i] < paths[c][j])

Continues(s) == ~s.dirty /\ ~s.expired /\ s.conv # 0 /\ s.last # 0

\* Until the click is prepared, the turn has changed nothing.
EarlyInv ==
    /\ pc \in {"setup", "before", "typing", "marking"} =>
         /\ job.node = 0 /\ job.sent = <<>>
         /\ job.exists => items[job.key] = job.s /\ job.s \in Sessions /\ Continues(job.s)
         /\ ~job.exists => items[job.key] = NoSession
    /\ pc = "before" => job.exists
    /\ pc \in {"before", "typing", "marking"} =>
         /\ job.s \in Sessions /\ job.s.account = job.account
         /\ ~job.exists => job.s = Session(job.account)

\* From the click on, the session is dirty in memory and on disk.
LateInv ==
    pc \in {"clicking", "submitted", "observing", "finishing"} =>
        /\ job.s \in Sessions /\ items[job.key] = job.s
        /\ job.s.dirty /\ ~job.s.expired /\ job.s.account = job.account
        /\ job.exists => job.s.conv # 0
        /\ ~job.exists => job.s.last = 0

ClickInv == pc = "clicking" => /\ job.node = 0 /\ job.sent = <<>>
                               /\ Settled(job.key, job.s.turns)
                               /\ ~job.exists => job.s.conv = 0

\* The node that the click made
NodeInv ==
    /\ pc \in {"submitted", "observing", "finishing"} /\ job.node # 0 =>
         /\ job.node \in mine /\ job.s.last < job.node /\ job.node <= made
         /\ Settled(job.key, job.s.turns + 1)
         /\ job.s.conv # 0 => author[job.node] = job.account
    /\ pc \in {"observing", "finishing"} => job.node # 0

\* What finish is given
WholeInv ==
    pc = "finishing" => /\ answer.done /\ job.sent = Text(answer)
                        /\ job.s.conv # 0 /\ Shared(job.s.conv, job.node)

IInv == /\ TypeOK /\ StoreInv /\ SessionsInv /\ PathsInv
        /\ EarlyInv /\ LateInv /\ ClickInv /\ NodeInv /\ WholeInv
        /\ CleanIsSettled /\ NoTurnTwice

-----------------------------------------------------------------------------
(* Lemmas                                                                  *)

\* Steps that touch neither the store nor the conversations
LEMMA Quiet ==
    ASSUME IInv, UNCHANGED <<items, disk, paths, author, made, mine, clicked>>
    PROVE  StoreInv' /\ SessionsInv' /\ PathsInv' /\ CleanIsSettled' /\ NoTurnTwice'
<1>1. StoreInv' BY DEF IInv, StoreInv, Settled
<1>2. SessionsInv' BY DEF IInv, SessionsInv, SessionOK, Shared
<1>3. PathsInv' BY DEF IInv, PathsInv
<1>4. CleanIsSettled' BY DEF IInv, CleanIsSettled, Kept
<1>5. NoTurnTwice' BY DEF IInv, NoTurnTwice
<1>. QED BY <1>1, <1>2, <1>3, <1>4, <1>5

\* Between turns nothing is promised of the turn.
LEMMA BetweenTurns ==
    ASSUME pc' = "idle"
    PROVE  EarlyInv' /\ LateInv' /\ ClickInv' /\ NodeInv' /\ WholeInv'
BY DEF EarlyInv, LateInv, ClickInv, NodeInv, WholeInv

\* An early return
LEMMA FailureKeeps ==
    ASSUME IInv, Failure, UNCHANGED <<items, disk, web, faults, mine, clicked>>
    PROVE  IInv'
<1>1. TypeOK' BY DEF IInv, TypeOK, Failure, Reject, web
<1>2. EarlyInv' /\ LateInv' /\ ClickInv' /\ NodeInv' /\ WholeInv' BY BetweenTurns DEF Failure, Reject
<1>3. StoreInv' /\ SessionsInv' /\ PathsInv' /\ CleanIsSettled' /\ NoTurnTwice' BY Quiet DEF web
<1>. QED BY <1>1, <1>2, <1>3 DEF IInv

\* What memory holds is on disk, and in order.
LEMMA InMemory ==
    ASSUME IInv, NEW k \in Keys, items[k] # NoSession
    PROVE  /\ items[k] = disk[k] /\ items[k] \in Sessions /\ SessionOK(items[k])
           /\ ~items[k].dirty /\ ~items[k].expired => Settled(k, items[k].turns)
<1>1. items[k] = disk[k] BY DEF IInv, StoreInv
<1>2. items[k] \in Sessions BY DEF IInv, TypeOK
<1>3. SessionOK(items[k]) BY <1>1 DEF IInv, SessionsInv
<1>4. k \in Kept(items) BY DEF Kept
<1>5. ~items[k].dirty /\ ~items[k].expired => Settled(k, items[k].turns)
      BY <1>4 DEF IInv, CleanIsSettled, Settled
<1>. QED BY <1>1, <1>2, <1>3, <1>5

\* put, when it succeeds
LEMMA PutKeeps ==
    ASSUME WebAssumption, IInv, NEW k \in Keys, NEW s \in Sessions,
           items' = [items EXCEPT ![k] = s], disk' = items',
           UNCHANGED <<paths, author, made, mine, clicked>>,
           SessionOK(s), ~s.dirty /\ ~s.expired => Settled(k, s.turns)
    PROVE  /\ items' \in [Keys -> Sessions \cup {NoSession}]
           /\ disk' \in [Keys -> Sessions \cup {NoSession}]
           /\ items'[k] = s
           /\ StoreInv' /\ SessionsInv' /\ PathsInv' /\ CleanIsSettled' /\ NoTurnTwice'
<1>1. items \in [Keys -> Sessions \cup {NoSession}] BY DEF IInv, TypeOK
<1>2. items' \in [Keys -> Sessions \cup {NoSession}] /\ items'[k] = s BY <1>1
<1>3. s # NoSession BY DEF WebAssumption
<1>4. \A x \in Keys : x # k => items'[x] = items[x] BY <1>1
<1>5. StoreInv'
    <2>1. SUFFICES ASSUME NEW x \in Keys, items[x] = NoSession, x # k
                   PROVE  Settled(x, 0)'
          BY <1>2, <1>3, <1>4 DEF StoreInv
    <2>2. Settled(x, 0) BY <2>1 DEF IInv, StoreInv
    <2>. QED BY <2>2 DEF Settled
<1>6. SessionsInv'
    <2>1. SUFFICES ASSUME NEW x \in Keys, NEW r, r = disk'[x], r # NoSession
                   PROVE  SessionOK(r)
          BY DEF SessionsInv, SessionOK, Shared
    <2>2. CASE x = k BY <2>1, <2>2, <1>2
    <2>3. CASE x # k
        <3>1. r = items[x] BY <2>1, <2>3, <1>4
        <3>. QED BY <3>1, <2>1, InMemory
    <2>. QED BY <2>2, <2>3
<1>7. PathsInv' /\ NoTurnTwice' BY DEF IInv, PathsInv, NoTurnTwice
<1>8. CleanIsSettled'
    <2>1. SUFFICES ASSUME NEW x \in Keys, items'[x] # NoSession, ~items'[x].dirty, ~items'[x].expired
                   PROVE  Settled(x, items'[x].turns)
          BY DEF CleanIsSettled, Kept, Settled
    <2>2. CASE x = k BY <2>2, <2>1, <1>2
    <2>3. CASE x # k
        <3>1. items'[x] = items[x] BY <2>3, <1>4
        <3>. QED BY <3>1, <2>1, InMemory
    <2>. QED BY <2>2, <2>3
<1>. QED BY <1>2, <1>5, <1>6, <1>7, <1>8

\* A new session is a session, and in order.
LEMMA NewSession ==
    ASSUME WebAssumption, IInv, NEW who \in Accounts
    PROVE  /\ Session(who) \in Sessions /\ SessionOK(Session(who))
           /\ Session(who).account = who /\ Session(who).last = 0 /\ Session(who).conv = 0
           /\ Session(who).turns = 0 /\ ~Session(who).dirty /\ ~Session(who).expired
<1>1. MaxNodes \in Nat /\ made \in Nat BY DEF WebAssumption, IInv, TypeOK
<1>2. Session(who) \in Sessions BY <1>1 DEF Session, Sessions
<1>3. SessionOK(Session(who)) BY <1>1 DEF Session, SessionOK, Shared
<1>. QED BY <1>2, <1>3 DEF Session

-----------------------------------------------------------------------------
(* The actions                                                             *)

\* Nothing was made, submitted or stored yet.
LEMMA InitIInv == ASSUME WebAssumption, Init PROVE IInv
<1>0. MaxNodes \in Nat /\ MaxText \in Nat /\ MaxFaults \in Nat BY DEF WebAssumption
<1>1. TypeOK BY <1>0 DEF Init, TypeOK, Conversations, Nodes, NoAnswer
<1>2. StoreInv BY <1>0 DEF Init, StoreInv, Settled
<1>3. SessionsInv BY DEF Init, SessionsInv
<1>4. PathsInv BY DEF Init, PathsInv
<1>5. EarlyInv /\ LateInv /\ ClickInv /\ NodeInv /\ WholeInv
      BY DEF Init, EarlyInv, LateInv, ClickInv, NodeInv, WholeInv
<1>6. CleanIsSettled BY DEF Init, CleanIsSettled, Kept
<1>7. NoTurnTwice BY <1>0 DEF Init, NoTurnTwice
<1>. QED BY <1>1, <1>2, <1>3, <1>4, <1>5, <1>6, <1>7 DEF IInv

\* get forgets expired sessions, together with what was submitted in them.
LEMMA BeginKeeps ==
    ASSUME WebAssumption, IInv, NEW k \in Keys, NEW sees \in 0..MaxNodes, Begin(k, sees)
    PROVE  IInv'
<1>0. /\ items \in [Keys -> Sessions \cup {NoSession}] /\ MaxNodes \in Nat
      /\ clicked \in [Keys -> [0..MaxNodes -> Nat]] /\ pc = "idle" /\ account \in Accounts
      /\ items' = Pruned /\ UNCHANGED <<disk, paths, author, made, mine, account, answer, faults>>
      BY DEF WebAssumption, IInv, TypeOK, Begin, web
<1>1. items' \in [Keys -> Sessions \cup {NoSession}]
    <2>1. \A x \in Keys : items[x] \in Sessions \cup {NoSession} BY <1>0
    <2>. QED BY <2>1, <1>0 DEF Pruned
<1>2. \A x \in Keys : items'[x] # NoSession => items'[x] = items[x] /\ ~items[x].expired
      BY <1>0 DEF Pruned
<1>3. \A x \in Keys : items'[x] = NoSession =>
        items[x] = NoSession \/ (items[x] # NoSession /\ items[x].expired)
      BY <1>0 DEF Pruned
<1>4. \A x \in Keys : clicked'[x] = IF items[x] # NoSession /\ items[x].expired
                                    THEN [p \in 0..MaxNodes |-> 0] ELSE clicked[x]
      BY DEF Begin
<1>5. clicked' \in [Keys -> [0..MaxNodes -> Nat]]
    <2>1. [p \in 0..MaxNodes |-> 0] \in [0..MaxNodes -> Nat] OBVIOUS
    <2>2. \A x \in Keys : clicked'[x] \in [0..MaxNodes -> Nat] BY <1>0, <1>4, <2>1
    <2>3. clicked' = [x \in Keys |-> clicked'[x]] BY DEF Begin
    <2>. QED BY <2>2, <2>3
<1>6. \A x \in Keys : items[x] # NoSession /\ items[x].expired => \A p \in 0..MaxNodes : clicked'[x][p] = 0
      BY <1>4
<1>7. \A x \in Keys : ~(items[x] # NoSession /\ items[x].expired) => clicked'[x] = clicked[x]
      BY <1>4
<1>8. StoreInv'
    <2>1. SUFFICES ASSUME NEW x \in Keys
                   PROVE  /\ items'[x] # NoSession => items'[x] = disk[x]
                          /\ items'[x] = NoSession /\ disk[x] # NoSession => disk[x].expired
                          /\ items'[x] = NoSession => \A p \in 0..MaxNodes : clicked'[x][p] = 0
          BY <1>0, SMTT(30) DEF StoreInv, Settled
    <2>2. /\ items[x] # NoSession => items[x] = disk[x]
          /\ items[x] = NoSession /\ disk[x] # NoSession => disk[x].expired
          /\ items[x] = NoSession => \A p \in 0..MaxNodes : clicked[x][p] = 0
          BY DEF IInv, StoreInv, Settled
    <2>. QED BY <2>2, <1>2, <1>3, <1>6, <1>7
<1>9. SessionsInv' /\ PathsInv'
      BY <1>0 DEF IInv, SessionsInv, SessionOK, Shared, PathsInv
<1>10. CleanIsSettled'
    <2>1. SUFFICES ASSUME NEW x \in Keys,
                          \/ items'[x] # NoSession /\ ~items'[x].expired /\ ~items'[x].dirty
                          \/ disk[x] # NoSession /\ ~disk[x].expired /\ ~disk[x].dirty
                   PROVE  /\ items[x] = disk[x] /\ (items'[x] # NoSession => items'[x] = disk[x])
                          /\ \A p \in 0..MaxNodes : clicked'[x][p] = IF p < disk[x].turns THEN 1 ELSE 0
          BY <1>0 DEF CleanIsSettled, Kept
    <2>2. items[x] # NoSession /\ ~items[x].expired /\ ~items[x].dirty /\ items[x] = disk[x]
          BY <2>1, <1>2 DEF IInv, StoreInv
    <2>3. Settled(x, items[x].turns) BY <2>2, InMemory
    <2>. QED BY <2>2, <2>3, <1>2, <1>7 DEF Settled
<1>11. NoTurnTwice'
    <2>1. SUFFICES ASSUME NEW x \in Keys, NEW p \in 0..MaxNodes PROVE clicked'[x][p] <= 1
          BY DEF NoTurnTwice
    <2>2. clicked[x][p] <= 1 BY DEF IInv, NoTurnTwice
    <2>. QED BY <2>2, <1>6, <1>7
<1>12. CASE Failure
    <2>1. TypeOK' BY <1>0, <1>1, <1>5, <1>12 DEF IInv, TypeOK, Failure, Reject
    <2>2. pc' = "idle" BY <1>12 DEF Failure, Reject
    <2>. QED BY <2>1, <2>2, <1>8, <1>9, <1>10, <1>11, BetweenTurns DEF IInv
<1>13. CASE ~Failure
    <2>1. PICK s : s = Pruned[k] OBVIOUS
    <2>2. /\ s # NoSession => MayContinue(s, sees)
          /\ pc' = "setup" /\ UNCHANGED verdict
          /\ job' = [key |-> k, exists |-> s # NoSession, s |-> s, account |-> account,
                     node |-> 0, sent |-> <<>>]
          BY <1>13, <2>1 DEF Begin
    <2>3. s \in Sessions \cup {NoSession} /\ s = items'[k] BY <2>1, <1>0, <1>1
    <2>4. (s # NoSession) \in BOOLEAN /\ <<>> \in Seq({0, 1}) /\ 0 \in 0..MaxNodes BY <1>0
    <2>5. job' \in Jobs BY <2>2, <2>3, <2>4, <1>0 DEF Jobs
    <2>6. TypeOK' BY <1>0, <1>1, <1>5, <2>2, <2>5 DEF IInv, TypeOK
    <2>7. s # NoSession => s \in Sessions /\ Continues(s)
          BY <2>2, <2>3, <1>2 DEF MayContinue, Continues
    <2>8. EarlyInv'
          BY <2>2, <2>3, <2>7 DEF EarlyInv, Continues
    <2>9. LateInv' /\ ClickInv' /\ NodeInv' /\ WholeInv'
          BY <2>2 DEF LateInv, ClickInv, NodeInv, WholeInv
    <2>. QED BY <2>6, <2>8, <2>9, <1>8, <1>9, <1>10, <1>11 DEF IInv
<1>. QED BY <1>12, <1>13

\* A step that moves on without touching store or conversations
LEMMA MovesOn ==
    ASSUME IInv, UNCHANGED <<items, disk, web, faults, mine, clicked, verdict>>,
           pc' \in {"before", "typing", "marking", "observing", "finishing"}, job' \in Jobs,
           EarlyInv', LateInv', NodeInv', WholeInv'
    PROVE  IInv'
<1>1. TypeOK' BY DEF IInv, TypeOK, web
<1>2. ClickInv' BY DEF ClickInv
<1>3. StoreInv' /\ SessionsInv' /\ PathsInv' /\ CleanIsSettled' /\ NoTurnTwice' BY Quiet DEF web
<1>. QED BY <1>1, <1>2, <1>3 DEF IInv

\* The session, new or old, is bound to the account that is signed in.
LEMMA InspectKeeps ==
    ASSUME WebAssumption, IInv, NEW ok \in BOOLEAN, Inspect(ok)
    PROVE  IInv'
<1>1. CASE Failure BY <1>1, FailureKeeps DEF Inspect
<1>2. CASE ~Failure
    <2>1. job \in Jobs /\ account \in Accounts /\ pc = "setup" BY DEF Inspect, IInv, TypeOK
    <2>2. PICK s : s = IF job.exists THEN job.s ELSE Session(account) OBVIOUS
    <2>3. /\ job.exists => job.s.account = account
          /\ pc' = IF job.exists THEN "before" ELSE "typing"
          /\ job' = [job EXCEPT !.account = account, !.s = s]
          /\ UNCHANGED <<items, disk, web, faults, mine, clicked, verdict>>
          BY <1>2, <2>2 DEF Inspect
    <2>4. /\ job.node = 0 /\ job.sent = <<>>
          /\ job.exists => items[job.key] = job.s /\ job.s \in Sessions /\ Continues(job.s)
          /\ ~job.exists => items[job.key] = NoSession
          BY <2>1 DEF IInv, EarlyInv
    <2>5. s \in Sessions /\ s.account = account BY <2>1, <2>2, <2>3, <2>4, NewSession
    <2>6. job' \in Jobs BY <2>1, <2>3, <2>5 DEF Jobs
    <2>7. /\ job'.node = job.node /\ job'.sent = job.sent /\ job'.exists = job.exists
          /\ job'.key = job.key /\ job'.s = s /\ job'.account = account
          BY <2>1, <2>3 DEF Jobs
    <2>8. EarlyInv' BY <2>2, <2>3, <2>4, <2>5, <2>7 DEF EarlyInv, Continues
    <2>9. LateInv' /\ NodeInv' /\ WholeInv' BY <2>3 DEF LateInv, NodeInv, WholeInv
    <2>. QED BY <2>3, <2>6, <2>8, <2>9, MovesOn
<1>. QED BY <1>1, <1>2

\* The turn has read the conversation and changed nothing.
LEMMA ReadBeforeKeeps ==
    ASSUME IInv, NEW ok \in BOOLEAN, ReadBefore(ok)
    PROVE  IInv'
<1>1. CASE Failure BY <1>1, FailureKeeps DEF ReadBefore
<1>2. CASE ~Failure
    <2>1. /\ pc = "before" /\ pc' = "typing"
          /\ UNCHANGED <<job, verdict, items, disk, web, faults, mine, clicked>>
          BY <1>2 DEF ReadBefore
    <2>2. job' \in Jobs BY <2>1 DEF IInv, TypeOK
    <2>3. EarlyInv' BY <2>1 DEF IInv, EarlyInv, Continues, Session
    <2>4. LateInv' /\ NodeInv' /\ WholeInv' BY <2>1 DEF LateInv, NodeInv, WholeInv
    <2>. QED BY <2>1, <2>2, <2>3, <2>4, MovesOn
<1>. QED BY <1>1, <1>2

\* The turn has typed the prompt and changed nothing.
LEMMA TypeKeeps ==
    ASSUME IInv, NEW ok \in BOOLEAN, Type(ok)
    PROVE  IInv'
<1>1. CASE Failure BY <1>1, FailureKeeps DEF Type
<1>2. CASE ~Failure
    <2>1. /\ pc = "typing" /\ pc' = "marking"
          /\ UNCHANGED <<job, verdict, items, disk, web, faults, mine, clicked>>
          BY <1>2 DEF Type
    <2>2. job' \in Jobs BY <2>1 DEF IInv, TypeOK
    <2>3. EarlyInv' BY <2>1 DEF IInv, EarlyInv, Continues, Session
    <2>4. LateInv' /\ NodeInv' /\ WholeInv' BY <2>1 DEF LateInv, NodeInv, WholeInv
    <2>. QED BY <2>1, <2>2, <2>3, <2>4, MovesOn
<1>. QED BY <1>1, <1>2

\* The uncertainty is stored before the click.
LEMMA MarkDirtyKeeps ==
    ASSUME WebAssumption, IInv, NEW ok \in BOOLEAN, MarkDirty(ok)
    PROVE  IInv'
<1>1. CASE ~(ok /\ HasRoom(job.key))
    <2>1. Failure /\ UNCHANGED <<items, disk, web, faults, mine, clicked>> BY <1>1 DEF MarkDirty, Put
    <2>. QED BY <2>1, FailureKeeps
<1>2. CASE ok /\ HasRoom(job.key)
    <2>1. PICK s : s = Uncertain(job.s) OBVIOUS
    <2>2. /\ pc = "marking" /\ pc' = "clicking" /\ job' = [job EXCEPT !.s = s]
          /\ items' = [items EXCEPT ![job.key] = s] /\ disk' = items'
          /\ UNCHANGED <<paths, author, account, answer, made, faults, mine, clicked, verdict>>
          BY <1>2, <2>1 DEF MarkDirty, Put, web
    <2>3. job \in Jobs /\ job.key \in Keys BY <2>2 DEF IInv, TypeOK, Jobs
    <2>4. /\ job.node = 0 /\ job.sent = <<>>
          /\ job.exists => items[job.key] = job.s /\ Continues(job.s)
          /\ ~job.exists => items[job.key] = NoSession /\ job.s = Session(job.account)
          /\ job.s \in Sessions /\ job.s.account = job.account
          BY <2>2 DEF IInv, EarlyInv
    <2>5. job.account \in Accounts BY <2>3 DEF Jobs
    <2>6. SessionOK(job.s) /\ Settled(job.key, job.s.turns) /\ ~job.s.expired
        <3>1. CASE job.exists
            <4>1. job.s # NoSession BY <2>4 DEF WebAssumption
            <4>. QED BY <3>1, <4>1, <2>3, <2>4, InMemory DEF Continues
        <3>2. CASE ~job.exists
            <4>1. Settled(job.key, 0) BY <3>2, <2>3, <2>4 DEF IInv, StoreInv
            <4>. QED BY <3>2, <4>1, <2>4, <2>5, NewSession
        <3>. QED BY <3>1, <3>2
    <2>7. /\ s \in Sessions /\ s.dirty /\ s.expired = job.s.expired /\ s.account = job.s.account
          /\ s.conv = job.s.conv /\ s.last = job.s.last /\ s.turns = job.s.turns
          BY <2>1, <2>4 DEF Uncertain, Sessions
    <2>8. SessionOK(s) BY <2>6, <2>7 DEF SessionOK
    <2>9. /\ items' \in [Keys -> Sessions \cup {NoSession}] /\ disk' \in [Keys -> Sessions \cup {NoSession}]
          /\ items'[job.key] = s
          /\ StoreInv' /\ SessionsInv' /\ PathsInv' /\ CleanIsSettled' /\ NoTurnTwice'
          BY <2>2, <2>3, <2>7, <2>8, PutKeeps
    <2>10. job' \in Jobs BY <2>2, <2>3, <2>7 DEF Jobs
    <2>11. /\ job'.node = job.node /\ job'.sent = job.sent /\ job'.exists = job.exists
           /\ job'.key = job.key /\ job'.s = s /\ job'.account = job.account
           BY <2>2, <2>3 DEF Jobs
    <2>12. TypeOK' BY <2>2, <2>9, <2>10 DEF IInv, TypeOK
    <2>13. ~job.exists => job.s.last = 0 /\ job.s.conv = 0 BY <2>4, <2>5, NewSession
    <2>14. LateInv'
           BY <2>2, <2>4, <2>6, <2>7, <2>9, <2>11, <2>13 DEF LateInv, Continues
    <2>15. ClickInv' BY <2>2, <2>4, <2>6, <2>7, <2>11, <2>13 DEF ClickInv, Settled
    <2>16. EarlyInv' /\ NodeInv' /\ WholeInv' BY <2>2 DEF EarlyInv, NodeInv, WholeInv
    <2>. QED BY <2>9, <2>12, <2>14, <2>15, <2>16 DEF IInv
<1>. QED BY <1>1, <1>2

\* A conversation gets a new node, perhaps in place of its last one: what was
\* known about earlier nodes stays true.
LEMMA NodeAdded ==
    ASSUME WebAssumption, IInv, made < MaxNodes, made' = made + 1,
           NEW c \in Conversations, NEW base \in Seq(Nodes), Len(base) <= Len(paths[c]),
           \A i \in 1..Len(base) : base[i] = paths[c][i],
           paths' = [paths EXCEPT ![c] = Append(base, made')],
           author' = [author EXCEPT ![made'] = account],
           mine \subseteq mine'
    PROVE  /\ paths' \in [Conversations -> Seq(Nodes)] /\ author' \in [Nodes -> Accounts]
           /\ PathsInv'
           /\ made' \in Nodes /\ author'[made'] = account
           /\ \A n \in 0..made : Shared(c, n) => Shared(c, n)'
           /\ \A x \in Conversations, n \in 0..made : x # c => (Shared(x, n) => Shared(x, n)')
           /\ \A n \in Nodes : n <= made => author'[n] = author[n]
<1>0. /\ MaxNodes \in Nat /\ made \in Nat /\ made + 1 \in Nodes /\ account \in Accounts
      /\ paths \in [Conversations -> Seq(Nodes)] /\ author \in [Nodes -> Accounts]
      BY DEF WebAssumption, IInv, TypeOK, Nodes
<1>1. PICK m \in Nat : m = Len(base) BY LenProperties
<1>2. PICK q \in Seq(Nodes) : q = Append(base, made + 1)
    <2>1. Append(base, made + 1) \in Seq(Nodes) BY <1>0, AppendProperties
    <2>. QED BY <2>1
<1>3. Len(q) = m + 1 /\ (\A i \in 1..m : q[i] = base[i]) /\ q[m + 1] = made + 1
      BY <1>0, <1>1, <1>2, AppendProperties
<1>4. paths'[c] = q /\ (\A x \in Conversations : x # c => paths'[x] = paths[x])
      BY <1>0, <1>2
<1>5. paths' \in [Conversations -> Seq(Nodes)] BY <1>0, <1>2
<1>6. author' \in [Nodes -> Accounts] /\ author'[made + 1] = account BY <1>0
<1>7. \A n \in Nodes : n <= made => author'[n] = author[n]
    <2>1. SUFFICES ASSUME NEW n \in Nodes, n <= made PROVE author'[n] = author[n] OBVIOUS
    <2>2. n # made + 1 BY <2>1, <1>0 DEF Nodes
    <2>. QED BY <2>2, <1>0
<1>8. PICK l \in Nat : l = Len(paths[c]) BY <1>0, LenProperties
<1>9. DOMAIN paths[c] = 1..l /\ DOMAIN q = 1..(m + 1) /\ m <= l
      BY <1>0, <1>1, <1>3, <1>8, LenProperties
<1>10. \A i \in 1..m : q[i] = paths[c][i] BY <1>1, <1>3
<1>11. \A x \in Conversations : \A i \in DOMAIN paths[x] : paths[x][i] \in Nat /\ paths[x][i] <= made
    <2>1. SUFFICES ASSUME NEW x \in Conversations, NEW i \in DOMAIN paths[x]
                   PROVE  paths[x][i] \in Nat /\ paths[x][i] <= made
          OBVIOUS
    <2>2. paths[x][i] \in Nodes BY <1>0, LenProperties, ElementOfSeq
    <2>. QED BY <2>2, <1>0 DEF Nodes, IInv, PathsInv
<1>12. PathsInv'
    <2>1. SUFFICES ASSUME NEW x \in Conversations, NEW i \in DOMAIN paths'[x], NEW j \in DOMAIN paths'[x]
                   PROVE  paths'[x][i] <= made + 1 /\ (i < j => paths'[x][i] < paths'[x][j])
          BY DEF PathsInv
    <2>2. CASE x # c
        <3>1. paths'[x] = paths[x] BY <2>2, <1>4
        <3>2. paths[x][i] <= made /\ (i < j => paths[x][i] < paths[x][j]) /\ paths[x][i] \in Nat
              BY <3>1, <1>11 DEF IInv, PathsInv
        <3>. QED BY <3>1, <3>2, <1>0
    <2>3. CASE x = c
        <3>1. paths'[x] = q /\ i \in 1..(m + 1) /\ j \in 1..(m + 1) BY <2>3, <1>4, <1>9
        <3>2. \A a \in 1..m : q[a] = paths[c][a] /\ a \in DOMAIN paths[c] /\ q[a] \in Nat /\ q[a] <= made
              BY <1>9, <1>10, <1>11
        <3>3. CASE j = m + 1 /\ i \in 1..m BY <3>1, <3>2, <3>3, <1>3, <1>0
        <3>4. CASE i = m + 1 BY <3>1, <3>4, <1>3, <1>0
        <3>5. CASE i \in 1..m /\ j \in 1..m
            <4>1. q[i] = paths[c][i] /\ q[j] = paths[c][j] /\ q[i] \in Nat /\ q[i] <= made BY <3>2, <3>5
            <4>2. i < j => paths[c][i] < paths[c][j] BY <3>2, <3>5 DEF IInv, PathsInv
            <4>. QED BY <4>1, <4>2, <3>1, <1>0
        <3>. QED BY <3>1, <3>3, <3>4, <3>5
    <2>. QED BY <2>2, <2>3
<1>13. \A x \in Conversations, n \in 0..made : x # c => (Shared(x, n) => Shared(x, n)')
      BY <1>4 DEF Shared
<1>14. \A n \in 0..made : Shared(c, n) => Shared(c, n)'
    <2>1. SUFFICES ASSUME NEW n \in 0..made, Shared(c, n), c # 0,
                          NEW h \in 1..Len(q), q[h] = n, NEW i \in DOMAIN q, q[i] <= n
                   PROVE  q[i] \in mine
          BY <1>4 DEF Shared, Contains
    <2>2. h \in 1..m /\ i \in 1..m BY <2>1, <1>0, <1>1, <1>3, <1>9
    <2>3. paths[c][h] = n /\ h \in 1..Len(paths[c]) BY <2>1, <2>2, <1>8, <1>9, <1>10
    <2>4. q[i] = paths[c][i] /\ i \in DOMAIN paths[c] BY <2>2, <1>9, <1>10
    <2>. QED BY <2>1, <2>3, <2>4 DEF Shared, Contains
<1>. QED BY <1>0, <1>5, <1>6, <1>7, <1>12, <1>13, <1>14

\* Then every session that was in order still is.
LEMMA SessionsSurvive ==
    ASSUME WebAssumption, IInv, NEW c \in Conversations, made' = made + 1,
           \A n \in 0..made : Shared(c, n) => Shared(c, n)',
           \A x \in Conversations, n \in 0..made : x # c => (Shared(x, n) => Shared(x, n)'),
           \A n \in Nodes : n <= made => author'[n] = author[n]
    PROVE  \A s \in Sessions : SessionOK(s) => SessionOK(s)'
<1>0. MaxNodes \in Nat /\ made \in Nat BY DEF WebAssumption, IInv, TypeOK
<1>1. SUFFICES ASSUME NEW s \in Sessions, SessionOK(s) PROVE SessionOK(s)'
      OBVIOUS
<1>2. s.conv \in 0..MaxNodes /\ s.last \in 0..MaxNodes /\ s.turns \in 0..MaxNodes BY DEF Sessions
<1>3. s.turns <= s.last /\ s.last <= made /\ s.conv <= made BY <1>1 DEF SessionOK
<1>4. s.last # 0 => author'[s.last] = author[s.last] BY <1>0, <1>2, <1>3 DEF Nodes
<1>5. s.conv # 0 => author'[s.conv] = author[s.conv] BY <1>0, <1>2, <1>3 DEF Nodes
<1>6. s.last \in 0..made BY <1>0, <1>2, <1>3
<1>7. Shared(s.conv, s.last)'
    <2>1. CASE s.conv = 0 BY <2>1 DEF Shared
    <2>2. CASE s.conv # 0
        <3>1. s.conv \in Conversations BY <2>2, <1>0, <1>2 DEF Conversations, Nodes
        <3>2. Shared(s.conv, s.last) BY <1>1 DEF SessionOK
        <3>. QED BY <3>1, <3>2, <1>6
    <2>. QED BY <2>1, <2>2
<1>8. s.turns <= s.last /\ s.last <= made' /\ s.conv <= made' BY <1>0, <1>2, <1>3
<1>. QED BY <1>1, <1>4, <1>5, <1>7, <1>8 DEF SessionOK

\* What the person at the browser adds comes after all that was relied upon.
LEMMA OutsideKeeps ==
    ASSUME WebAssumption, IInv, NEW c \in Conversations, NEW edit \in BOOLEAN, Outside(c, edit)
    PROVE  IInv'
<1>0. /\ made \in Nat /\ MaxNodes \in Nat /\ paths \in [Conversations -> Seq(Nodes)]
      /\ made < MaxNodes /\ paths[c] # <<>> /\ made' = made + 1
      /\ author' = [author EXCEPT ![made'] = account]
      /\ UNCHANGED <<items, disk, account, answer, pc, job, faults, mine, clicked, verdict>>
      BY DEF WebAssumption, IInv, TypeOK, Outside, history
<1>1. PICK base : base = IF edit THEN Front(paths[c]) ELSE paths[c] OBVIOUS
<1>2. PICK l \in Nat : l = Len(paths[c]) BY <1>0, LenProperties
<1>3. paths[c] \in Seq(Nodes) /\ l # 0 BY <1>0, <1>2, EmptySeq
<1>4. base \in Seq(Nodes) /\ Len(base) <= Len(paths[c]) /\ \A i \in 1..Len(base) : base[i] = paths[c][i]
    <2>1. CASE edit
        <3>1. base = SubSeq(paths[c], 1, l - 1) BY <1>1, <1>2, <2>1 DEF Front
        <3>2. 1 \in 1..(l + 1) /\ (l - 1) \in 0..l BY <1>3
        <3>3. \A i \in 1..(l - 1) : paths[c][i] \in Nodes BY <1>2, <1>3
        <3>. QED BY <3>1, <3>2, <3>3, <1>2, <1>3
    <2>2. CASE ~edit BY <2>2, <1>1, <1>2, <1>3
    <2>. QED BY <2>1, <2>2
<1>5. paths' = [paths EXCEPT ![c] = Append(base, made')] BY <1>0, <1>1 DEF Outside
<1>6. /\ paths' \in [Conversations -> Seq(Nodes)] /\ author' \in [Nodes -> Accounts]
      /\ PathsInv' /\ made' \in Nodes
      /\ \A n \in 0..made : Shared(c, n) => Shared(c, n)'
      /\ \A x \in Conversations, n \in 0..made : x # c => (Shared(x, n) => Shared(x, n)')
      /\ \A n \in Nodes : n <= made => author'[n] = author[n]
      BY <1>0, <1>4, <1>5, NodeAdded
<1>7. TypeOK' BY <1>0, <1>6 DEF IInv, TypeOK, Nodes
<1>8. StoreInv' /\ CleanIsSettled' /\ NoTurnTwice'
      BY <1>0 DEF IInv, StoreInv, Settled, CleanIsSettled, Kept, NoTurnTwice
<1>9. \A s \in Sessions : SessionOK(s) => SessionOK(s)' BY <1>0, <1>6, SessionsSurvive
<1>10. SessionsInv'
    <2>1. SUFFICES ASSUME NEW k \in Keys, NEW r, r = disk[k], r # NoSession PROVE SessionOK(r)'
          BY <1>0 DEF SessionsInv, SessionOK, Shared
    <2>2. r \in Sessions BY <2>1 DEF IInv, TypeOK
    <2>3. SessionOK(r) BY <2>1 DEF IInv, SessionsInv
    <2>. QED BY <2>2, <2>3, <1>9
<1>11. EarlyInv' /\ LateInv' /\ ClickInv'
      BY <1>0 DEF IInv, EarlyInv, LateInv, ClickInv, Continues, Session, Settled
<1>12. NodeInv'
    <2>1. pc' \in {"observing", "finishing"} => job'.node # 0 BY <1>0 DEF IInv, NodeInv
    <2>2. SUFFICES ASSUME pc \in {"submitted", "observing", "finishing"}, job.node # 0
                   PROVE  /\ job.node \in mine /\ job.s.last < job.node /\ job.node <= made'
                          /\ Settled(job.key, job.s.turns + 1)
                          /\ job.s.conv # 0 => author'[job.node] = job.account
          BY <2>1, <1>0 DEF NodeInv, Settled
    <2>3. /\ job.node \in mine /\ job.s.last < job.node /\ job.node <= made
          /\ Settled(job.key, job.s.turns + 1)
          /\ job.s.conv # 0 => author[job.node] = job.account
          BY <2>2 DEF IInv, NodeInv
    <2>4. job.node \in Nodes BY <2>3 DEF IInv, TypeOK
    <2>5. job.node \in Nat BY <2>4, <1>0 DEF Nodes
    <2>. QED BY <2>3, <2>4, <2>5, <1>0, <1>6
<1>13. WholeInv'
    <2>1. SUFFICES ASSUME pc = "finishing"
                   PROVE  answer.done /\ job.sent = Text(answer) /\ job.s.conv # 0
                          /\ Shared(job.s.conv, job.node)'
          BY <1>0 DEF WholeInv, Text, Shared
    <2>2. answer.done /\ job.sent = Text(answer) /\ job.s.conv # 0 /\ Shared(job.s.conv, job.node)
          BY <2>1 DEF IInv, WholeInv
    <2>3. job.node \in mine /\ job.node <= made /\ job.s \in Sessions
          BY <2>1 DEF IInv, NodeInv, LateInv
    <2>4. job.node \in 0..made
        <3>1. job.node \in Nodes BY <2>3 DEF IInv, TypeOK
        <3>. QED BY <3>1, <2>3, <1>0 DEF Nodes
    <2>5. job.s.conv \in Conversations BY <2>2, <2>3, <1>0 DEF Sessions, Conversations, Nodes
    <2>6. PICK x, n : x = job.s.conv /\ n = job.node OBVIOUS
    <2>7. Shared(x, n)' BY <2>2, <2>4, <2>5, <2>6, <1>6
    <2>. QED BY <2>2, <2>6, <2>7, <1>0 DEF Shared
<1>. QED BY <1>6, <1>7, <1>8, <1>10, <1>11, <1>12, <1>13 DEF IInv

\* The one click is a turn that was not submitted before.
LEMMA ClickKeeps ==
    ASSUME WebAssumption, IInv, NEW effect \in BOOLEAN, NEW ok \in BOOLEAN, Click(effect, ok)
    PROVE  IInv'
<1>0. /\ made \in Nat /\ MaxNodes \in Nat /\ MaxText \in Nat
      /\ paths \in [Conversations -> Seq(Nodes)] /\ account \in Accounts
      /\ clicked \in [Keys -> [0..MaxNodes -> Nat]] /\ pc = "clicking" /\ job \in Jobs
      /\ mine \subseteq Nodes
      BY DEF WebAssumption, IInv, TypeOK, Click
<1>1. /\ job.s \in Sessions /\ items[job.key] = job.s
      /\ job.s.dirty /\ ~job.s.expired /\ job.s.account = job.account
      /\ job.exists => job.s.conv # 0
      /\ ~job.exists => job.s.last = 0 /\ job.s.conv = 0
      /\ Settled(job.key, job.s.turns) /\ job.node = 0 /\ job.sent = <<>>
      BY <1>0 DEF IInv, LateInv, ClickInv
<1>2. job.key \in Keys /\ job.s # NoSession BY <1>0, <1>1 DEF Jobs, WebAssumption
<1>3. SessionOK(job.s) BY <1>1, <1>2, InMemory
<1>4. /\ job.s.conv \in 0..MaxNodes /\ job.s.last \in 0..MaxNodes /\ job.s.turns \in 0..MaxNodes
      /\ job.s.turns <= job.s.last /\ job.s.last <= made
      BY <1>1, <1>3 DEF Sessions, SessionOK
<1>5. CASE ~effect
    <2>1. UNCHANGED <<items, disk, web, faults, mine, clicked>> BY <1>5 DEF Click, web
    <2>2. CASE ~ok BY <2>1, <2>2, FailureKeeps DEF Click
    <2>3. CASE ok
        <3>1. pc' = "submitted" /\ job' = [job EXCEPT !.node = 0] /\ UNCHANGED verdict
              BY <2>3, <1>5 DEF Click
        <3>2. job' \in Jobs /\ job' = job BY <3>1, <1>0, <1>1 DEF Jobs
        <3>3. TypeOK' BY <2>1, <3>1, <3>2 DEF IInv, TypeOK, web
        <3>4. StoreInv' /\ SessionsInv' /\ PathsInv' /\ CleanIsSettled' /\ NoTurnTwice'
              BY <2>1, Quiet DEF web
        <3>5. LateInv' BY <2>1, <3>1, <3>2, <1>1 DEF LateInv
        <3>6. NodeInv' /\ EarlyInv' /\ ClickInv' /\ WholeInv'
              BY <3>1, <3>2, <1>1 DEF NodeInv, EarlyInv, ClickInv, WholeInv
        <3>. QED BY <3>3, <3>4, <3>5, <3>6 DEF IInv
    <2>. QED BY <2>2, <2>3
<1>6. CASE effect
    <2>1. PICK c : c = IF job.exists THEN job.s.conv ELSE made + 1 OBVIOUS
    <2>2. /\ made < MaxNodes /\ (job.exists => author[job.s.conv] = account) /\ made' = made + 1
          /\ paths' = [paths EXCEPT ![c] = Append(paths[c], made')]
          /\ answer' = NoAnswer /\ mine' = mine \cup {made'}
          /\ author' = [author EXCEPT ![made'] = account]
          /\ clicked' = [clicked EXCEPT ![job.key][job.s.turns] = @ + 1]
          /\ UNCHANGED <<items, disk, account, faults>>
          BY <1>6, <2>1 DEF Click, Visible
    <2>3. c \in Conversations BY <2>1, <2>2, <1>0, <1>1, <1>4 DEF Conversations, Nodes
    <2>4. paths[c] \in Seq(Nodes) /\ Len(paths[c]) <= Len(paths[c])
          /\ \A i \in 1..Len(paths[c]) : paths[c][i] = paths[c][i]
        <3>1. paths[c] \in Seq(Nodes) BY <2>3, <1>0
        <3>2. Len(paths[c]) \in Nat BY <3>1, LenProperties
        <3>. QED BY <3>1, <3>2
    <2>5. mine \subseteq mine' BY <2>2
    <2>6. /\ paths' \in [Conversations -> Seq(Nodes)] /\ author' \in [Nodes -> Accounts]
          /\ PathsInv' /\ made' \in Nodes /\ author'[made'] = account
          /\ \A n \in 0..made : Shared(c, n) => Shared(c, n)'
          /\ \A x \in Conversations, n \in 0..made : x # c => (Shared(x, n) => Shared(x, n)')
          /\ \A n \in Nodes : n <= made => author'[n] = author[n]
          BY <2>2, <2>3, <2>4, <2>5, NodeAdded
    <2>7. \A s \in Sessions : SessionOK(s) => SessionOK(s)' BY <2>2, <2>3, <2>6, SessionsSurvive
    <2>8. SessionsInv'
        <3>1. SUFFICES ASSUME NEW k \in Keys, NEW r, r = disk[k], r # NoSession PROVE SessionOK(r)'
              BY <2>2 DEF SessionsInv, SessionOK, Shared
        <3>2. r \in Sessions BY <3>1 DEF IInv, TypeOK
        <3>3. SessionOK(r) BY <3>1 DEF IInv, SessionsInv
        <3>. QED BY <3>2, <3>3, <2>7
    <2>9. /\ clicked' \in [Keys -> [0..MaxNodes -> Nat]]
          /\ \A x \in Keys : x # job.key => clicked'[x] = clicked[x]
          /\ \A p \in 0..MaxNodes : p # job.s.turns => clicked'[job.key][p] = clicked[job.key][p]
          /\ clicked'[job.key][job.s.turns] = clicked[job.key][job.s.turns] + 1
        <3>1. PICK row \in [0..MaxNodes -> Nat] : row = clicked[job.key] BY <1>0, <1>2
        <3>2. clicked' = [clicked EXCEPT ![job.key] = [row EXCEPT ![job.s.turns] = row[job.s.turns] + 1]]
              BY <2>2, <3>1
        <3>3. PICK n \in Nat : n = row[job.s.turns] BY <3>1, <1>4
        <3>4. n + 1 \in Nat BY <3>3
        <3>5. \A v \in Nat : [row EXCEPT ![job.s.turns] = v] \in [0..MaxNodes -> Nat] BY <3>1
        <3>. QED BY <3>1, <3>2, <3>3, <3>4, <3>5, <1>0, <1>2, <1>4
    <2>10. \A p \in 0..MaxNodes : clicked'[job.key][p] = IF p < job.s.turns + 1 THEN 1 ELSE 0
        <3>1. SUFFICES ASSUME NEW p \in 0..MaxNodes
                       PROVE  clicked'[job.key][p] = IF p < job.s.turns + 1 THEN 1 ELSE 0
              OBVIOUS
        <3>2. clicked[job.key][p] = IF p < job.s.turns THEN 1 ELSE 0 BY <1>1 DEF Settled
        <3>3. CASE p = job.s.turns BY <3>2, <3>3, <2>9, <1>0, <1>4
        <3>4. CASE p # job.s.turns
            <4>1. clicked'[job.key][p] = clicked[job.key][p] BY <3>4, <2>9
            <4>. QED BY <3>2, <3>4, <4>1, <1>0, <1>4
        <3>. QED BY <3>3, <3>4
    <2>11. NoTurnTwice'
        <3>1. SUFFICES ASSUME NEW x \in Keys, NEW p \in 0..MaxNodes PROVE clicked'[x][p] <= 1
              BY DEF NoTurnTwice
        <3>2. CASE x = job.key BY <3>2, <2>10
        <3>3. CASE x # job.key BY <3>3, <2>9 DEF IInv, NoTurnTwice
        <3>. QED BY <3>2, <3>3
    <2>12. disk[job.key] = job.s BY <1>1, <1>2, InMemory
    <2>13. StoreInv'
        <3>1. SUFFICES ASSUME NEW x \in Keys, items[x] = NoSession
                       PROVE  \A p \in 0..MaxNodes : clicked'[x][p] = IF p < 0 THEN 1 ELSE 0
              BY <2>2 DEF IInv, StoreInv, Settled
        <3>2. x # job.key BY <3>1, <1>1, <1>2
        <3>3. Settled(x, 0) BY <3>1 DEF IInv, StoreInv
        <3>. QED BY <3>2, <3>3, <2>9 DEF Settled
    <2>14. CleanIsSettled'
        <3>1. SUFFICES ASSUME NEW store \in {items, disk}, NEW x \in Keys, store[x] # NoSession,
                              ~store[x].dirty, ~store[x].expired, NEW p \in 0..MaxNodes
                       PROVE  clicked'[x][p] = IF p < store[x].turns THEN 1 ELSE 0
              BY <2>2 DEF CleanIsSettled, Kept
        <3>2. x # job.key BY <3>1, <2>12, <1>1
        <3>3. clicked[x][p] = IF p < store[x].turns THEN 1 ELSE 0 BY <3>1 DEF IInv, CleanIsSettled, Kept
        <3>. QED BY <3>2, <3>3, <2>9
    <2>15. /\ answer' \in [rev: {0, 1}, len: 0..MaxText, done: BOOLEAN]
           /\ made' \in 0..MaxNodes /\ mine' \subseteq Nodes
           BY <2>2, <2>6, <1>0 DEF NoAnswer, Nodes
    <2>16. StoreInv' /\ SessionsInv' /\ PathsInv' /\ CleanIsSettled' /\ NoTurnTwice'
           BY <2>6, <2>8, <2>11, <2>13, <2>14
    <2>17. CASE ~ok
        <3>1. Failure BY <2>17 DEF Click
        <3>2. TypeOK' BY <2>2, <2>6, <2>9, <2>15, <3>1 DEF IInv, TypeOK, Failure, Reject
        <3>. QED BY <2>16, <3>1, <3>2, BetweenTurns DEF IInv, Failure, Reject
    <2>18. CASE ok
        <3>1. pc' = "submitted" /\ job' = [job EXCEPT !.node = made + 1] /\ UNCHANGED verdict
              BY <2>18, <2>2, <1>6 DEF Click
        <3>2. made + 1 \in 0..MaxNodes BY <1>0, <2>2
        <3>3. job' \in Jobs BY <3>1, <3>2, <1>0 DEF Jobs
        <3>4. /\ job'.node = made + 1 /\ job'.sent = job.sent /\ job'.exists = job.exists
              /\ job'.key = job.key /\ job'.s = job.s /\ job'.account = job.account
              BY <3>1, <1>0 DEF Jobs
        <3>5. TypeOK' BY <2>2, <2>6, <2>9, <2>15, <3>1, <3>3 DEF IInv, TypeOK
        <3>6. LateInv' BY <2>2, <3>1, <3>4, <1>1 DEF LateInv
        <3>7. EarlyInv' /\ ClickInv' /\ WholeInv' BY <3>1 DEF EarlyInv, ClickInv, WholeInv
        <3>8. job.s.conv # 0 => author'[made + 1] = job.account
            <4>1. SUFFICES ASSUME job.s.conv # 0 PROVE account = job.account BY <2>2, <2>6
            <4>2. job.exists BY <4>1, <1>1
            <4>3. author[job.s.conv] = job.s.account BY <4>1, <1>3 DEF SessionOK
            <4>. QED BY <4>2, <4>3, <2>2, <1>1
        <3>9. job.s.last < made + 1 /\ made + 1 <= made' /\ made + 1 \in mine'
              BY <2>2, <1>0, <1>4
        <3>10. NodeInv' BY <2>10, <3>1, <3>4, <3>8, <3>9 DEF NodeInv, Settled
        <3>. QED BY <2>16, <3>5, <3>6, <3>7, <3>10 DEF IInv
    <2>. QED BY <2>17, <2>18
<1>. QED BY <1>5, <1>6

\* Only a turn that was submitted is observed.
LEMMA ObserveSubmissionKeeps ==
    ASSUME IInv, NEW ok \in BOOLEAN, ObserveSubmission(ok)
    PROVE  IInv'
<1>1. CASE Failure BY <1>1, FailureKeeps DEF ObserveSubmission
<1>2. CASE ~Failure
    <2>1. /\ pc = "submitted" /\ pc' = "observing" /\ job.node # 0
          /\ UNCHANGED <<job, verdict, items, disk, web, faults, mine, clicked>>
          BY <1>2 DEF ObserveSubmission
    <2>2. job' \in Jobs BY <2>1 DEF IInv, TypeOK
    <2>3. LateInv' /\ NodeInv' BY <2>1 DEF IInv, LateInv, NodeInv, Settled, web
    <2>4. EarlyInv' /\ WholeInv' BY <2>1 DEF EarlyInv, WholeInv
    <2>. QED BY <2>1, <2>2, <2>3, <2>4, MovesOn
<1>. QED BY <1>1, <1>2

\* What the turn has while it observes
LEMMA Observing ==
    ASSUME WebAssumption, IInv, pc \in {"observing", "finishing"}
    PROVE  /\ job \in Jobs /\ job.key \in Keys /\ job.node \in Nodes /\ job.s # NoSession
           /\ job.s \in Sessions /\ items[job.key] = job.s /\ job.s.account = job.account
           /\ job.s.dirty /\ ~job.s.expired /\ SessionOK(job.s)
           /\ job.exists => job.s.conv # 0
           /\ ~job.exists => job.s.last = 0
           /\ job.node \in mine /\ job.s.last < job.node /\ job.node <= made
           /\ Settled(job.key, job.s.turns + 1)
           /\ job.s.conv # 0 => author[job.node] = job.account
           /\ job.s.conv \in 0..MaxNodes /\ job.s.last \in 0..MaxNodes /\ job.s.turns \in 0..MaxNodes
           /\ MaxNodes \in Nat /\ made \in Nat /\ job.sent \in Seq({0, 1})
<1>1. job \in Jobs /\ mine \subseteq Nodes /\ MaxNodes \in Nat /\ made \in Nat
      BY DEF IInv, TypeOK, WebAssumption
<1>2. /\ job.s \in Sessions /\ items[job.key] = job.s
      /\ job.s.dirty /\ ~job.s.expired /\ job.s.account = job.account
      /\ job.exists => job.s.conv # 0
      /\ ~job.exists => job.s.last = 0
      BY DEF IInv, LateInv
<1>3. /\ job.node \in mine /\ job.s.last < job.node /\ job.node <= made
      /\ Settled(job.key, job.s.turns + 1)
      /\ job.s.conv # 0 => author[job.node] = job.account
      BY DEF IInv, NodeInv
<1>4. job.key \in Keys /\ job.s # NoSession /\ job.node \in Nodes /\ job.sent \in Seq({0, 1})
      BY <1>1, <1>2, <1>3 DEF Jobs, WebAssumption
<1>5. SessionOK(job.s) BY <1>2, <1>4, InMemory
<1>6. job.s.conv \in 0..MaxNodes /\ job.s.last \in 0..MaxNodes /\ job.s.turns \in 0..MaxNodes
      BY <1>2 DEF Sessions
<1>. QED BY <1>1, <1>2, <1>3, <1>4, <1>5, <1>6

\* A new session finds the conversation that its own node began.
LEMMA FindConversationKeeps ==
    ASSUME WebAssumption, IInv, NEW ok \in BOOLEAN, FindConversation(ok)
    PROVE  IInv'
<1>1. CASE ~(ok /\ Reads /\ HasRoom(job.key))
    <2>1. Failure /\ UNCHANGED <<items, disk, web, faults, mine, clicked>>
          BY <1>1 DEF FindConversation, Put
    <2>. QED BY <2>1, FailureKeeps
<1>2. CASE ok /\ Reads /\ HasRoom(job.key)
    <2>0. pc = "observing" /\ job.s.conv = 0 /\ Conv = job.node BY DEF FindConversation, Conv
    <2>1. PICK s : s = [job.s EXCEPT !.conv = job.node] OBVIOUS
    <2>2. /\ job' = [job EXCEPT !.s = s] /\ pc' = pc
          /\ items' = [items EXCEPT ![job.key] = s] /\ disk' = items'
          /\ UNCHANGED <<paths, author, account, answer, made, faults, mine, clicked, verdict>>
          BY <1>2, <2>0, <2>1 DEF FindConversation, Put, web
    <2>3. account = job.account /\ author[job.node] = account
          BY <1>2, <2>0 DEF Reads, SameAccount, Visible
    <2>4. /\ job \in Jobs /\ job.key \in Keys /\ job.node \in Nodes
          /\ job.s \in Sessions /\ job.s.account = job.account
          /\ job.s.dirty /\ ~job.s.expired /\ SessionOK(job.s)
          /\ job.exists => job.s.conv # 0
          /\ ~job.exists => job.s.last = 0
          /\ job.node \in mine /\ job.s.last < job.node /\ job.node <= made
          /\ Settled(job.key, job.s.turns + 1)
          /\ MaxNodes \in Nat /\ made \in Nat
          BY <2>0, Observing
    <2>5. job.node \in 0..MaxNodes /\ job.node # 0 /\ job.s.last = 0 BY <2>0, <2>4 DEF Nodes
    <2>6. /\ s \in Sessions /\ s.dirty = job.s.dirty /\ s.expired = job.s.expired
          /\ s.account = job.s.account /\ s.conv = job.node /\ s.last = job.s.last
          /\ s.turns = job.s.turns
          BY <2>1, <2>4, <2>5 DEF Sessions
    <2>7. Shared(job.node, 0)
        <3>1. SUFFICES ASSUME NEW i \in 1..Len(paths[job.node]), paths[job.node][i] = 0 PROVE FALSE
              BY DEF Shared, Contains
        <3>2. paths[job.node] \in Seq(Nodes) BY <2>4 DEF IInv, TypeOK, Conversations
        <3>3. paths[job.node][i] \in Nodes BY <3>2, ElementOfSeq
        <3>. QED BY <3>1, <3>3, <2>4 DEF Nodes
    <2>8. SessionOK(s)
          BY <2>3, <2>4, <2>5, <2>6, <2>7 DEF SessionOK
    <2>9. /\ items' \in [Keys -> Sessions \cup {NoSession}] /\ disk' \in [Keys -> Sessions \cup {NoSession}]
          /\ items'[job.key] = s
          /\ StoreInv' /\ SessionsInv' /\ PathsInv' /\ CleanIsSettled' /\ NoTurnTwice'
          BY <2>2, <2>4, <2>6, <2>8, PutKeeps
    <2>10. job' \in Jobs BY <2>2, <2>4, <2>6 DEF Jobs
    <2>11. /\ job'.node = job.node /\ job'.sent = job.sent /\ job'.exists = job.exists
           /\ job'.key = job.key /\ job'.s = s /\ job'.account = job.account
           BY <2>2, <2>4 DEF Jobs
    <2>12. TypeOK' BY <2>0, <2>2, <2>9, <2>10 DEF IInv, TypeOK
    <2>13. LateInv' BY <2>4, <2>5, <2>6, <2>9, <2>11 DEF LateInv
    <2>14. NodeInv' BY <2>2, <2>3, <2>4, <2>5, <2>6, <2>11 DEF NodeInv, Settled
    <2>15. EarlyInv' /\ ClickInv' /\ WholeInv' BY <2>0, <2>2 DEF EarlyInv, ClickInv, WholeInv
    <2>. QED BY <2>9, <2>12, <2>13, <2>14, <2>15 DEF IInv
<1>. QED BY <1>1, <1>2

\* A turn that is given up leaves its session dirty.
LEMMA AbandonKeeps == ASSUME IInv, Abandon PROVE IInv'
BY FailureKeeps DEF Abandon

\* finish: the session is clean again, with one more turn that was submitted.
LEMMA FinishKeeps ==
    ASSUME WebAssumption, IInv, NEW ok \in BOOLEAN, Finish(ok)
    PROVE  IInv'
<1>1. CASE ~(ok /\ HasRoom(job.key))
    <2>1. Failure /\ UNCHANGED <<items, disk, web, faults, mine, clicked>>
          BY <1>1 DEF Finish, Put
    <2>. QED BY <2>1, FailureKeeps
<1>2. CASE ok /\ HasRoom(job.key)
    <2>0. pc = "finishing" BY DEF Finish
    <2>1. PICK s : s = [job.s EXCEPT !.dirty = FALSE, !.last = job.node, !.turns = job.s.turns + 1]
          OBVIOUS
    <2>2. /\ pc' = "idle" /\ job' = Idle /\ verdict'.state = "complete"
          /\ items' = [items EXCEPT ![job.key] = s] /\ disk' = items'
          /\ UNCHANGED <<paths, author, account, answer, made, faults, mine, clicked>>
          BY <1>2, <2>1 DEF Finish, Put, Reject, web
    <2>3. /\ job \in Jobs /\ job.key \in Keys /\ job.node \in Nodes
          /\ job.s \in Sessions /\ job.s.account = job.account
          /\ ~job.s.expired /\ SessionOK(job.s)
          /\ job.s.last < job.node /\ job.node <= made
          /\ Settled(job.key, job.s.turns + 1)
          /\ job.s.conv # 0 => author[job.node] = job.account
          /\ job.s.last \in 0..MaxNodes /\ job.s.turns \in 0..MaxNodes
          /\ MaxNodes \in Nat /\ made \in Nat
          BY <2>0, Observing
    <2>4. job.s.conv # 0 /\ Shared(job.s.conv, job.node) BY <2>0 DEF IInv, WholeInv
    <2>5. job.s.turns <= job.s.last /\ job.s.conv <= made /\ author[job.s.conv] = job.s.account
          BY <2>3, <2>4 DEF SessionOK
    <2>6. job.node \in 0..MaxNodes /\ job.s.turns + 1 <= job.node /\ job.s.turns + 1 \in 0..MaxNodes
          BY <2>3, <2>5 DEF Nodes
    <2>7. /\ s \in Sessions /\ ~s.dirty /\ s.expired = job.s.expired /\ s.account = job.s.account
          /\ s.conv = job.s.conv /\ s.last = job.node /\ s.turns = job.s.turns + 1
          BY <2>1, <2>3, <2>6 DEF Sessions
    <2>8. SessionOK(s) BY <2>3, <2>4, <2>5, <2>6, <2>7 DEF SessionOK
    <2>9. Settled(job.key, s.turns) BY <2>3, <2>7
    <2>10. /\ items' \in [Keys -> Sessions \cup {NoSession}] /\ disk' \in [Keys -> Sessions \cup {NoSession}]
           /\ StoreInv' /\ SessionsInv' /\ PathsInv' /\ CleanIsSettled' /\ NoTurnTwice'
           BY <2>2, <2>3, <2>7, <2>8, <2>9, PutKeeps
    <2>11. TypeOK' BY <2>2, <2>10 DEF IInv, TypeOK
    <2>. QED BY <2>2, <2>10, <2>11, BetweenTurns DEF IInv
<1>. QED BY <1>1, <1>2

\* If readTurn finds the submitted turn right after the saved node, then the
\* conversation has only turns of the gateway up to it.
LEMMA OnlyOurs ==
    ASSUME WebAssumption, IInv, pc = "observing", job.s.conv # 0, OnlyThisTurn(paths[job.s.conv])
    PROVE  Shared(job.s.conv, job.node)
<1>0. /\ job.node \in Nodes /\ job.node \in mine /\ SessionOK(job.s)
      /\ job.s.conv \in 0..MaxNodes /\ job.s.last \in 0..MaxNodes /\ MaxNodes \in Nat
      BY Observing
<1>1. job.s.conv \in Conversations BY <1>0 DEF Conversations, Nodes
<1>2. PICK path \in Seq(Nodes) : path = paths[job.s.conv] BY <1>1 DEF IInv, TypeOK
<1>3. PICK l \in Nat : l = Len(path) BY LenProperties
<1>4. DOMAIN path = 1..l BY <1>3, LenProperties
<1>5. PICK f : f = IF job.s.last = 0 THEN 0 ELSE CHOOSE i \in DOMAIN path : path[i] = job.s.last
      OBVIOUS
<1>6. SubSeq(path, f + 1, l) = <<job.node>> /\ (job.s.last = 0 \/ Contains(path, job.s.last))
      BY <1>2, <1>3, <1>5 DEF OnlyThisTurn
<1>7. /\ f \in 0..l
      /\ f # 0 => path[f] = job.s.last /\ Contains(path, job.s.last)
    <2>1. CASE job.s.last = 0 BY <2>1, <1>5
    <2>2. CASE job.s.last # 0
        <3>1. Contains(path, job.s.last) BY <2>2, <1>6
        <3>2. \E i \in DOMAIN path : path[i] = job.s.last BY <3>1, <1>3, <1>4 DEF Contains
        <3>3. f \in DOMAIN path /\ path[f] = job.s.last BY <3>2, <2>2, <1>5
        <3>. QED BY <3>1, <3>3, <1>4
    <2>. QED BY <2>1, <2>2
<1>8. \A i \in (f + 1)..l : path[i] \in Nodes BY <1>3, <1>7, ElementOfSeq
<1>9. /\ Len(SubSeq(path, f + 1, l)) = IF f + 1 <= l THEN l - (f + 1) + 1 ELSE 0
      /\ \A i \in 1..(l - (f + 1) + 1) : SubSeq(path, f + 1, l)[i] = path[(f + 1) + i - 1]
      BY <1>7, <1>8, SubSeqProperties
<1>10. Len(<<job.node>>) = 1 /\ <<job.node>>[1] = job.node OBVIOUS
<1>11. l = f + 1 /\ path[l] = job.node
    <2>1. 1 = IF f + 1 <= l THEN l - (f + 1) + 1 ELSE 0 BY <1>6, <1>9, <1>10
    <2>2. l = f + 1 BY <2>1, <1>7
    <2>3. 1 \in 1..(l - (f + 1) + 1) /\ (f + 1) + 1 - 1 = l BY <2>2, <1>7
    <2>4. SubSeq(path, f + 1, l)[1] = path[l] BY <2>3, <1>9
    <2>. QED BY <2>2, <2>4, <1>6, <1>10
<1>12. SUFFICES ASSUME NEW i \in 1..l PROVE path[i] \in mine
       BY <1>2, <1>4 DEF Shared
<1>13. CASE i = l BY <1>13, <1>11, <1>0
<1>14. CASE i # l
    <2>1. i \in 1..f /\ f # 0 /\ i \in 1..l /\ f \in 1..l BY <1>14, <1>11, <1>7
    <2>2. path[f] = job.s.last /\ Contains(path, job.s.last) BY <2>1, <1>7
    <2>3. i < f => path[i] < path[f] BY <2>1, <1>1, <1>2, <1>4 DEF IInv, PathsInv
    <2>4. path[i] \in Nodes BY <2>1, <1>3, ElementOfSeq
    <2>5. path[i] <= job.s.last
        <3>1. CASE i = f BY <3>1, <2>2, <1>0
        <3>2. CASE i # f
            <4>1. i < f BY <3>2, <2>1, <1>7
            <4>. QED BY <4>1, <2>2, <2>3, <2>4, <1>0 DEF Nodes
        <3>. QED BY <3>1, <3>2
    <2>6. Shared(job.s.conv, job.s.last) BY <1>0 DEF SessionOK
    <2>. QED BY <2>1, <2>2, <2>5, <2>6, <1>2, <1>4 DEF Shared
<1>. QED BY <1>13, <1>14

\* The part that is new completes what was sent.
LEMMA SentIsText ==
    ASSUME WebAssumption, IInv, NEW sent \in Seq({0, 1}), MayAppend(sent, Text(answer))
    PROVE  /\ sent \o SubSeq(Text(answer), Len(sent) + 1, answer.len) = Text(answer)
           /\ Text(answer) \in Seq({0, 1})
<1>1. answer.len \in Nat /\ answer.rev \in {0, 1} BY DEF IInv, TypeOK, WebAssumption
<1>2. PICK t : t = Text(answer) OBVIOUS
<1>3. t = [i \in 1..answer.len |-> answer.rev] BY <1>2 DEF Text
<1>4. t \in Seq({0, 1}) /\ Len(t) = answer.len BY <1>1, <1>3
<1>5. PICK m \in Nat : m = Len(sent) BY LenProperties
<1>6. m <= answer.len /\ SubSeq(sent, 1, m) = SubSeq(t, 1, m)
      BY <1>2, <1>4, <1>5 DEF MayAppend, IsPrefix
<1>7. SubSeq(sent, 1, m) = sent BY <1>5, SubSeqFull
<1>8. 1 \in 1..Len(t) + 1 /\ m \in 1 - 1..Len(t) /\ Len(t) \in m..Len(t) BY <1>1, <1>4, <1>6
<1>9. SubSeq(t, 1, m) \o SubSeq(t, m + 1, Len(t)) = SubSeq(t, 1, Len(t))
      BY <1>4, <1>8, ConcatAdjacentSubSeq
<1>10. SubSeq(t, 1, Len(t)) = t BY <1>4, SubSeqFull
<1>. QED BY <1>2, <1>4, <1>5, <1>6, <1>7, <1>9, <1>10

\* A poll passes on what is new, and goes to finish with the whole.
LEMMA PollKeeps ==
    ASSUME WebAssumption, IInv, NEW ok \in BOOLEAN, Poll(ok)
    PROVE  IInv'
<1>1. CASE Failure BY <1>1, FailureKeeps DEF Poll
<1>2. CASE ~Failure
    <2>1. /\ pc = "observing" /\ job.s.conv # 0 /\ Reads /\ MayAppend(job.sent, Text(answer))
          /\ job' = [job EXCEPT !.sent = job.sent \o SubSeq(Text(answer), Len(job.sent) + 1, answer.len)]
          /\ pc' = IF answer.done /\ answer.len > 0 THEN "finishing" ELSE "observing"
          /\ UNCHANGED <<verdict, items, disk, web, faults, mine, clicked>>
          BY <1>2 DEF Poll
    <2>2. job \in Jobs /\ job.sent \in Seq({0, 1}) BY <2>1, Observing
    <2>3. job' = [job EXCEPT !.sent = Text(answer)] /\ Text(answer) \in Seq({0, 1})
          BY <2>1, <2>2, SentIsText
    <2>4. job' \in Jobs BY <2>2, <2>3 DEF Jobs
    <2>5. /\ job'.node = job.node /\ job'.sent = Text(answer) /\ job'.exists = job.exists
          /\ job'.key = job.key /\ job'.s = job.s /\ job'.account = job.account
          BY <2>2, <2>3 DEF Jobs
    <2>6. LateInv' BY <2>1, <2>5 DEF IInv, LateInv
    <2>7. NodeInv' BY <2>1, <2>5 DEF IInv, NodeInv, Settled, web
    <2>8. OnlyThisTurn(paths[job.s.conv]) BY <2>1 DEF Reads, Conv
    <2>9. Shared(job.s.conv, job.node) BY <2>1, <2>8, OnlyOurs
    <2>10. WholeInv'
        <3>1. answer' = answer /\ paths' = paths /\ mine' = mine BY <2>1 DEF web
        <3>2. Text(answer)' = Text(answer) BY <3>1 DEF Text
        <3>3. pc' = "finishing" => answer.done BY <2>1
        <3>4. Shared(job.s.conv, job.node)' BY <2>5, <2>9, <3>1 DEF Shared
        <3>. QED BY <2>1, <2>5, <3>1, <3>2, <3>3, <3>4 DEF WholeInv
    <2>11. EarlyInv' BY <2>1 DEF EarlyInv
    <2>12. pc' \in {"observing", "finishing"} BY <2>1
    <2>. QED BY <2>1, <2>4, <2>6, <2>7, <2>10, <2>11, <2>12, MovesOn
<1>. QED BY <1>1, <1>2

\* The answer of a turn that is being finished is done and does not change.
LEMMA AnswerKeeps == ASSUME WebAssumption, IInv, Answer PROVE IInv'
<1>0. UNCHANGED <<items, disk, paths, author, account, made, pc, job, faults, mine, clicked, verdict>>
      BY DEF Answer, history
<1>1. answer' \in [rev: {0, 1}, len: 0..MaxText, done: BOOLEAN]
    <2>1. answer \in [rev: {0, 1}, len: 0..MaxText, done: BOOLEAN] /\ MaxText \in Nat
          BY DEF IInv, TypeOK, WebAssumption
    <2>2. answer.len < MaxText => answer.len + 1 \in 0..MaxText BY <2>1
    <2>3. \A n \in 0..MaxText : [answer EXCEPT !.len = n] \in [rev: {0, 1}, len: 0..MaxText, done: BOOLEAN]
          BY <2>1
    <2>4. CASE answer.len < MaxText /\ answer' = [answer EXCEPT !.len = answer.len + 1] BY <2>2, <2>3, <2>4
    <2>5. CASE answer' = [answer EXCEPT !.rev = 1] BY <2>1, <2>5
    <2>6. CASE answer' = [answer EXCEPT !.done = TRUE] BY <2>1, <2>6
    <2>. QED BY <2>4, <2>5, <2>6 DEF Answer
<1>2. TypeOK' BY <1>0, <1>1 DEF IInv, TypeOK
<1>3. StoreInv' /\ SessionsInv' /\ PathsInv' /\ CleanIsSettled' /\ NoTurnTwice' BY <1>0, Quiet
<1>4. EarlyInv' /\ LateInv' /\ ClickInv' /\ NodeInv'
      BY <1>0 DEF IInv, EarlyInv, LateInv, ClickInv, NodeInv, Continues, Session, Settled
<1>5. WholeInv' BY <1>0 DEF IInv, WholeInv, Answer
<1>. QED BY <1>2, <1>3, <1>4, <1>5 DEF IInv

\* What a turn relies on does not depend on who is signed in.
LEMMA SignInKeeps == ASSUME WebAssumption, IInv, NEW a \in Accounts, SignIn(a) PROVE IInv'
<1>0. /\ UNCHANGED <<items, disk, paths, author, answer, made, pc, job, mine, clicked, verdict>>
      /\ account' \in Accounts
      BY DEF SignIn, history
<1>1. faults' \in 0..MaxFaults BY DEF SignIn, IInv, TypeOK, WebAssumption
<1>2. TypeOK' BY <1>0, <1>1 DEF IInv, TypeOK
<1>3. StoreInv' /\ SessionsInv' /\ PathsInv' /\ CleanIsSettled' /\ NoTurnTwice' BY <1>0, Quiet
<1>4. EarlyInv' /\ LateInv' /\ ClickInv' /\ NodeInv'
      BY <1>0 DEF IInv, EarlyInv, LateInv, ClickInv, NodeInv, Continues, Session, Settled
<1>5. WholeInv' BY <1>0 DEF IInv, WholeInv, Shared, Text
<1>. QED BY <1>2, <1>3, <1>4, <1>5 DEF IInv

\* Time or an administrator ends a session.
LEMMA ExpiryKeeps ==
    ASSUME WebAssumption, IInv, NEW k \in Keys, Expires(k) \/ ExpireSession(k)
    PROVE  IInv'
<1>0. /\ UNCHANGED <<paths, author, account, answer, made, pc, job, mine, clicked, verdict>>
      /\ pc = "idle" /\ items[k] # NoSession
      BY DEF Expires, ExpireSession, web, history
<1>1. faults' \in 0..MaxFaults BY DEF Expires, ExpireSession, IInv, TypeOK, WebAssumption
<1>2. /\ items \in [Keys -> Sessions \cup {NoSession}] /\ disk \in [Keys -> Sessions \cup {NoSession}]
      BY DEF IInv, TypeOK
<1>3. items[k] = disk[k] /\ items[k] \in Sessions /\ SessionOK(items[k]) BY <1>0, InMemory
<1>4. PICK s : s = [items[k] EXCEPT !.expired = TRUE] OBVIOUS
<1>5. /\ s \in Sessions /\ s.expired /\ s.account = items[k].account /\ s.conv = items[k].conv
      /\ s.last = items[k].last /\ s.turns = items[k].turns
      BY <1>3, <1>4 DEF Sessions
<1>6. SessionOK(s) BY <1>3, <1>5 DEF SessionOK
<1>7. /\ items' = [items EXCEPT ![k] = s]
      /\ disk' = items' \/ disk' = [disk EXCEPT ![k] = s]
      BY <1>2, <1>3, <1>4 DEF Expires, ExpireSession
<1>8. items'[k] = s /\ disk'[k] = s /\ s # NoSession
      BY <1>2, <1>5, <1>7 DEF WebAssumption
<1>9. \A x \in Keys : x # k => items'[x] = items[x] /\ disk'[x] \in {items[x], disk[x]}
      BY <1>2, <1>7
<1>10. /\ items' \in [Keys -> Sessions \cup {NoSession}] /\ disk' \in [Keys -> Sessions \cup {NoSession}]
       BY <1>2, <1>5, <1>7
<1>11. TypeOK' BY <1>0, <1>1, <1>10 DEF IInv, TypeOK
<1>12. StoreInv'
    <2>1. SUFFICES ASSUME NEW x \in Keys, x # k
                   PROVE  /\ items'[x] # NoSession => items'[x] = disk'[x]
                          /\ items'[x] = NoSession /\ disk'[x] # NoSession => disk'[x].expired
                          /\ items'[x] = NoSession => \A p \in 0..MaxNodes :
                                clicked[x][p] = IF p < 0 THEN 1 ELSE 0
          BY <1>0, <1>8 DEF StoreInv, Settled
    <2>2. /\ items[x] # NoSession => items[x] = disk[x]
          /\ items[x] = NoSession /\ disk[x] # NoSession => disk[x].expired
          /\ items[x] = NoSession => Settled(x, 0)
          BY DEF IInv, StoreInv
    <2>. QED BY <2>1, <2>2, <1>9 DEF Settled
<1>13. SessionsInv'
    <2>1. SUFFICES ASSUME NEW x \in Keys, NEW r, r = disk'[x], r # NoSession PROVE SessionOK(r)
          BY <1>0 DEF SessionsInv, SessionOK, Shared
    <2>2. CASE x = k BY <2>1, <2>2, <1>6, <1>8
    <2>3. CASE x # k
        <3>1. r = items[x] \/ r = disk[x] BY <2>1, <2>3, <1>9
        <3>2. CASE r = items[x] BY <3>2, <2>1, InMemory
        <3>3. CASE r = disk[x] BY <3>3, <2>1 DEF IInv, SessionsInv
        <3>. QED BY <3>1, <3>2, <3>3
    <2>. QED BY <2>2, <2>3
<1>14. PathsInv' /\ NoTurnTwice' BY <1>0 DEF IInv, PathsInv, NoTurnTwice
<1>15. CleanIsSettled'
    <2>1. SUFFICES ASSUME NEW x \in Keys, NEW r, r \in {items'[x], disk'[x]},
                          r # NoSession, ~r.dirty, ~r.expired, NEW p \in 0..MaxNodes
                   PROVE  clicked[x][p] = IF p < r.turns THEN 1 ELSE 0
          BY <1>0 DEF CleanIsSettled, Kept
    <2>2. x # k BY <2>1, <1>5, <1>8
    <2>3. r \in {items[x], disk[x]} BY <2>1, <2>2, <1>9
    <2>. QED BY <2>1, <2>3 DEF IInv, CleanIsSettled, Kept
<1>16. EarlyInv' /\ LateInv' /\ ClickInv' /\ NodeInv' /\ WholeInv' BY <1>0, BetweenTurns
<1>. QED BY <1>11, <1>12, <1>13, <1>14, <1>15, <1>16 DEF IInv

\* A session that is cleared starts again from nothing.
LEMMA ClearKeeps == ASSUME WebAssumption, IInv, NEW k \in Keys, Clear(k) PROVE IInv'
<1>0. /\ UNCHANGED <<paths, author, account, answer, made, pc, job, mine, verdict>>
      /\ pc = "idle" /\ items' = [items EXCEPT ![k] = NoSession] /\ disk' = items'
      /\ clicked' = [clicked EXCEPT ![k] = [p \in 0..MaxNodes |-> 0]]
      BY DEF Clear, web
<1>1. faults' \in 0..MaxFaults BY DEF Clear, IInv, TypeOK, WebAssumption
<1>2. /\ items \in [Keys -> Sessions \cup {NoSession}] /\ MaxNodes \in Nat
      /\ clicked \in [Keys -> [0..MaxNodes -> Nat]]
      BY DEF IInv, TypeOK, WebAssumption
<1>3. items' \in [Keys -> Sessions \cup {NoSession}] /\ items'[k] = NoSession
      /\ \A x \in Keys : x # k => items'[x] = items[x]
      BY <1>0, <1>2
<1>4. /\ clicked' \in [Keys -> [0..MaxNodes -> Nat]]
      /\ \A p \in 0..MaxNodes : clicked'[k][p] = 0
      /\ \A x \in Keys : x # k => clicked'[x] = clicked[x]
    <2>1. [p \in 0..MaxNodes |-> 0] \in [0..MaxNodes -> Nat] OBVIOUS
    <2>. QED BY <2>1, <1>0, <1>2
<1>5. TypeOK' BY <1>0, <1>1, <1>3, <1>4 DEF IInv, TypeOK
<1>6. StoreInv'
    <2>1. SUFFICES ASSUME NEW x \in Keys, items'[x] = NoSession
                   PROVE  \A p \in 0..MaxNodes : clicked'[x][p] = IF p < 0 THEN 1 ELSE 0
          BY <1>0 DEF StoreInv, Settled
    <2>2. CASE x = k
        <3>1. \A p \in 0..MaxNodes : ~(p < 0) BY <1>2
        <3>. QED BY <2>2, <3>1, <1>4
    <2>3. CASE x # k
        <3>1. Settled(x, 0) BY <2>1, <2>3, <1>3 DEF IInv, StoreInv
        <3>. QED BY <2>3, <3>1, <1>4 DEF Settled
    <2>. QED BY <2>2, <2>3
<1>7. SessionsInv'
    <2>1. SUFFICES ASSUME NEW x \in Keys, NEW r, r = items'[x], r # NoSession PROVE SessionOK(r)
          BY <1>0 DEF SessionsInv, SessionOK, Shared
    <2>2. r = items[x] BY <2>1, <1>3
    <2>. QED BY <2>1, <2>2, InMemory
<1>8. PathsInv' BY <1>0 DEF IInv, PathsInv
<1>9. NoTurnTwice'
    <2>1. SUFFICES ASSUME NEW x \in Keys, NEW p \in 0..MaxNodes PROVE clicked'[x][p] <= 1
          BY DEF NoTurnTwice
    <2>2. CASE x = k BY <2>2, <1>4
    <2>3. CASE x # k BY <2>3, <1>4 DEF IInv, NoTurnTwice
    <2>. QED BY <2>2, <2>3
<1>10. CleanIsSettled'
    <2>1. SUFFICES ASSUME NEW x \in Keys, NEW r, r = items'[x],
                          r # NoSession, ~r.dirty, ~r.expired, NEW p \in 0..MaxNodes
                   PROVE  clicked'[x][p] = IF p < r.turns THEN 1 ELSE 0
          BY <1>0 DEF CleanIsSettled, Kept
    <2>2. x # k /\ r = items[x] BY <2>1, <1>3
    <2>3. Settled(x, r.turns) BY <2>1, <2>2, InMemory
    <2>. QED BY <2>2, <2>3, <1>4 DEF Settled
<1>11. EarlyInv' /\ LateInv' /\ ClickInv' /\ NodeInv' /\ WholeInv' BY <1>0, BetweenTurns
<1>. QED BY <1>0, <1>5, <1>6, <1>7, <1>8, <1>9, <1>10, <1>11 DEF IInv

\* What the next process loads is what the last one had stored.
LEMMA RestartKeeps == ASSUME WebAssumption, IInv, Restart PROVE IInv'
<1>0. /\ UNCHANGED <<disk, paths, author, account, answer, made, mine, clicked>>
      /\ items' = disk /\ pc' = "idle" /\ Failure
      BY DEF Restart, web, Failure, Reject
<1>1. faults' \in 0..MaxFaults BY DEF Restart, IInv, TypeOK, WebAssumption
<1>2. TypeOK' BY <1>0, <1>1 DEF IInv, TypeOK, Failure, Reject
<1>3. StoreInv'
    <2>1. SUFFICES ASSUME NEW x \in Keys, disk[x] = NoSession PROVE Settled(x, 0)
          BY <1>0 DEF StoreInv, Settled
    <2>. QED BY <2>1 DEF IInv, StoreInv
<1>4. SessionsInv' /\ PathsInv' /\ NoTurnTwice'
      BY <1>0 DEF IInv, SessionsInv, SessionOK, Shared, PathsInv, NoTurnTwice
<1>5. CleanIsSettled' BY <1>0 DEF IInv, CleanIsSettled, Kept
<1>6. EarlyInv' /\ LateInv' /\ ClickInv' /\ NodeInv' /\ WholeInv' BY <1>0, BetweenTurns
<1>. QED BY <1>2, <1>3, <1>4, <1>5, <1>6 DEF IInv

-----------------------------------------------------------------------------
(* The theorems                                                            *)

\* Every step keeps the invariant.
LEMMA IInvNext == ASSUME WebAssumption, IInv, [Next]_vars PROVE IInv'
<1>1. ASSUME NEW k \in Keys, NEW sees \in 0..MaxNodes, Begin(k, sees) PROVE IInv'
      BY <1>1, BeginKeeps
<1>2. ASSUME NEW ok \in BOOLEAN, Inspect(ok) PROVE IInv' BY <1>2, InspectKeeps
<1>3. ASSUME NEW ok \in BOOLEAN, ReadBefore(ok) PROVE IInv' BY <1>3, ReadBeforeKeeps
<1>4. ASSUME NEW ok \in BOOLEAN, Type(ok) PROVE IInv' BY <1>4, TypeKeeps
<1>5. ASSUME NEW ok \in BOOLEAN, MarkDirty(ok) PROVE IInv' BY <1>5, MarkDirtyKeeps
<1>6. ASSUME NEW ok \in BOOLEAN, ObserveSubmission(ok) PROVE IInv' BY <1>6, ObserveSubmissionKeeps
<1>7. ASSUME NEW ok \in BOOLEAN, FindConversation(ok) PROVE IInv' BY <1>7, FindConversationKeeps
<1>8. ASSUME NEW ok \in BOOLEAN, Poll(ok) PROVE IInv' BY <1>8, PollKeeps
<1>9. ASSUME NEW ok \in BOOLEAN, Finish(ok) PROVE IInv' BY <1>9, FinishKeeps
<1>10. ASSUME NEW ok \in BOOLEAN, NEW effect \in BOOLEAN, Click(effect, ok) PROVE IInv'
       BY <1>10, ClickKeeps
<1>11. Step => IInv'
       BY <1>2, <1>3, <1>4, <1>5, <1>6, <1>7, <1>8, <1>9, <1>10 DEF Step
<1>12. Abandon \/ Answer \/ Restart => IInv' BY AbandonKeeps, AnswerKeeps, RestartKeeps
<1>13. ASSUME NEW c \in Conversations, NEW edit \in BOOLEAN, Outside(c, edit) PROVE IInv'
       BY <1>13, OutsideKeeps
<1>14. ASSUME NEW a \in Accounts, SignIn(a) PROVE IInv' BY <1>14, SignInKeeps
<1>15. ASSUME NEW k \in Keys, Clear(k) \/ Expires(k) \/ ExpireSession(k) PROVE IInv'
       BY <1>15, ClearKeeps, ExpiryKeeps
<1>16. CASE UNCHANGED vars
    <2>1. UNCHANGED <<items, disk, web, pc, job, faults, mine, clicked, verdict>>
          BY <1>16 DEF vars, history
    <2>2. StoreInv' /\ SessionsInv' /\ PathsInv' /\ CleanIsSettled' /\ NoTurnTwice'
          BY <2>1, Quiet DEF web
    <2>3. TypeOK' BY <2>1 DEF IInv, TypeOK, web
    <2>4. EarlyInv' /\ LateInv' /\ ClickInv' /\ NodeInv'
          BY <2>1 DEF IInv, EarlyInv, LateInv, ClickInv, NodeInv, Continues, Session, Settled, web
    <2>5. WholeInv' BY <2>1 DEF IInv, WholeInv, Shared, Text, web
    <2>. QED BY <2>2, <2>3, <2>4, <2>5 DEF IInv
<1>. QED BY <1>1, <1>11, <1>12, <1>13, <1>14, <1>15, <1>16 DEF Next

(* However often a client repeats a turn of Driver.Do, and wherever the    *)
(* process dies, the turn is submitted at most once; a session that is not *)
(* dirty, in memory or on disk, has only turns that were seen finished.    *)
THEOREM TurnsSubmittedOnce ==
    ASSUME WebAssumption
    PROVE  Spec => []SubmittedOnce
<1>1. Init => IInv BY InitIInv
<1>2. IInv /\ [Next]_vars => IInv' BY IInvNext
<1>3. IInv => SubmittedOnce BY DEF IInv, SubmittedOnce
<1>. QED BY <1>1, <1>2, <1>3, PTL DEF Spec

\* Only finish calls an answer complete, and it was given the whole of it.
LEMMA FinishTellsWhole == ASSUME WebAssumption, IInv, [Next]_vars PROVE [TellsWhole]_vars
<1>1. SUFFICES ASSUME Next, verdict' # verdict, verdict'.state = "complete"
               PROVE  answer.done /\ verdict'.text = Text(answer) /\ verdict'.node \in mine
      BY DEF TellsWhole
<1>2. ~Failure BY <1>1 DEF Failure, Reject
<1>3. \E ok \in BOOLEAN : Finish(ok)
    <2>1. ASSUME NEW k \in Keys, NEW sees \in 0..MaxNodes, Begin(k, sees) PROVE FALSE
          BY <2>1, <1>1, <1>2 DEF Begin
    <2>2. ASSUME NEW ok \in BOOLEAN,
                 \/ Inspect(ok) \/ ReadBefore(ok) \/ Type(ok) \/ ObserveSubmission(ok)
          PROVE  FALSE
          BY <2>2, <1>1, <1>2 DEF Inspect, ReadBefore, Type, ObserveSubmission
    <2>3. ASSUME NEW ok \in BOOLEAN, MarkDirty(ok) PROVE FALSE BY <2>3, <1>1, <1>2 DEF MarkDirty
    <2>4. ASSUME NEW ok \in BOOLEAN, FindConversation(ok) PROVE FALSE
          BY <2>4, <1>1, <1>2 DEF FindConversation
    <2>5. ASSUME NEW ok \in BOOLEAN, Poll(ok) PROVE FALSE BY <2>5, <1>1, <1>2 DEF Poll
    <2>6. ASSUME NEW ok \in BOOLEAN, NEW effect \in BOOLEAN, Click(effect, ok) PROVE FALSE
          BY <2>6, <1>1, <1>2 DEF Click
    <2>7. ASSUME Abandon \/ Answer \/ Restart PROVE FALSE
          BY <2>7, <1>1, <1>2 DEF Abandon, Answer, Restart, history
    <2>8. ASSUME NEW c \in Conversations, NEW edit \in BOOLEAN, Outside(c, edit) PROVE FALSE
          BY <2>8, <1>1 DEF Outside, history
    <2>9. ASSUME NEW a \in Accounts, SignIn(a) PROVE FALSE BY <2>9, <1>1 DEF SignIn, history
    <2>10. ASSUME NEW k \in Keys, Clear(k) \/ Expires(k) \/ ExpireSession(k) PROVE FALSE
          BY <2>10, <1>1 DEF Clear, Expires, ExpireSession, history
    <2>. QED BY <1>1, <2>1, <2>2, <2>3, <2>4, <2>5, <2>6, <2>7, <2>8, <2>9, <2>10 DEF Next, Step
<1>4. pc = "finishing" /\ verdict'.text = job.sent /\ verdict'.node = job.node
      BY <1>2, <1>3 DEF Finish, Reject
<1>5. answer.done /\ job.sent = Text(answer) BY <1>4 DEF IInv, WholeInv
<1>6. job.node \in mine BY <1>4, Observing
<1>. QED BY <1>4, <1>5, <1>6

(* What Driver.Do calls complete is the whole answer of the page to a turn *)
(* of the gateway; and the conversation of a session that may be continued *)
(* has nobody else's turns up to there, and was held with the session's    *)
(* own account, whatever the person at the browser did meanwhile.          *)
THEOREM CompleteAnswersAreWhole ==
    ASSUME WebAssumption
    PROVE  Spec => CompleteIsWhole
<1>1. Init => IInv BY InitIInv
<1>2. IInv /\ [Next]_vars => IInv' BY IInvNext
<1>3. IInv => HistoryIsShared /\ AccountBound
      BY DEF IInv, SessionsInv, SessionOK, Shared, HistoryIsShared, AccountBound, Kept
<1>4. IInv /\ [Next]_vars => [TellsWhole]_vars BY FinishTellsWhole
<1>. QED BY <1>1, <1>2, <1>3, <1>4, PTL DEF Spec, CompleteIsWhole
=============================================================================
