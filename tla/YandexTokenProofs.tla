------------------------- MODULE YandexTokenProofs -------------------------
(***************************************************************************)
(* Theorems about YandexToken, for every timeout, margin and lifetime with *)
(* 2 * HttpTimeout =< Margin.                                              *)
(***************************************************************************)
EXTENDS YandexToken, TLAPS

LEMMA Reducing ==
  ASSUME NEW n \in Nat, NEW by \in Nat
  PROVE  /\ Reduce(n, by) \in Nat
         /\ Reduce(n, by) + by >= n
         /\ Reduce(n, by) > 0 => Reduce(n, by) + by = n
BY DEF Reduce

-----------------------------------------------------------------------------
(* Types: numbers by SMT, records with Boolean fields by Zenon.            *)

LEMMA CachedType ==
  ASSUME NEW grant \in Nat, NEW life \in Nat, NEW told \in BOOLEAN
  PROVE  Cached(grant, life, told) \in Token
<1>1. UntilMargin(grant) \in Nat /\ 0 \in Nat
  BY TokenAssumption, Reducing DEF UntilMargin
<1> QED
  BY <1>1, Zenon DEF Cached, NoToken, Token

LEMMA AgedType == ASSUME NEW t \in Token PROVE Aged(t) \in Token
<1>1. t.fresh \in Nat /\ t.life \in Nat /\ 0 \in Nat
  BY Zenon DEF Token
<1>2. CASE t.fresh > 1
  <2>1. t.fresh - 1 \in Nat /\ Reduce(t.life, 1) \in Nat
    BY <1>1, <1>2 DEF Reduce
  <2> QED
    BY <1>2, <2>1, Zenon DEF Aged, Token
<1>3. CASE ~(t.fresh > 1)
  BY <1>1, <1>3, Zenon DEF Aged, Token, NoToken
<1> QED
  BY <1>2, <1>3

LEMMA NoCallType == NoCall \in Call
<1>1. 0 \in Nat
  OBVIOUS
<1> QED
  BY <1>1, Zenon DEF NoCall, Call

LEMMA InitTokenType == TokenInit => TokenTypeOK
<1> SUFFICES ASSUME NEW life \in Lifetimes, NEW delay \in 0 .. HttpTimeout,
                    token = Cached(life, Reduce(life, delay), TRUE), call = NoCall
             PROVE  token \in Token /\ call \in Call
  BY Zenon DEF TokenInit, TokenTypeOK
<1>1. life \in Nat /\ Reduce(life, delay) \in Nat /\ TRUE \in BOOLEAN
  BY TokenAssumption DEF Reduce
<1> QED
  BY <1>1, CachedType, NoCallType

LEMMA TokenStepType == TokenTypeOK /\ [TokenNext]_tokenVars => TokenTypeOK'
<1> SUFFICES ASSUME token \in Token, call \in Call, [TokenNext]_tokenVars
             PROVE  token' \in Token /\ call' \in Call
  BY Zenon DEF TokenTypeOK
<1>0. /\ call.age \in Nat /\ call.grant \in Nat /\ call.life \in Nat /\ call.told \in BOOLEAN
      /\ token.life \in Nat /\ token.told \in BOOLEAN
  BY Zenon DEF Call, Token
<1>1. CASE UseCached
  BY <1>0, <1>1, NoCallType, Zenon DEF UseCached, Call
<1>2. CASE AskMetadata
  BY <1>2, NoCallType, Zenon DEF AskMetadata, Call
<1>3. ASSUME NEW life \in Lifetimes, NEW told \in BOOLEAN, Issue(life, told)
      PROVE  token' \in Token /\ call' \in Call
  <2>1. life \in Nat /\ Grant(life, told) \in Nat
    BY TokenAssumption DEF Grant
  <2> QED
    BY <1>3, <2>1, Zenon DEF Issue, Call
<1>4. CASE Receive
  <2>1. token' \in Token
    BY <1>0, <1>4, CachedType DEF Receive
  <2>2. (call.told /\ call.grant > Margin) \in BOOLEAN
    BY Zenon
  <2> QED
    BY <1>0, <1>4, <2>1, <2>2, NoCallType, Zenon DEF Receive, Call
<1>5. CASE Arrive
  <2>1. (call.life > 0) \in BOOLEAN
    BY <1>0
  <2> QED
    BY <1>5, <2>1, Zenon DEF Arrive, Call
<1>6. CASE Return \/ CallFails
  BY <1>6, NoCallType DEF Return, CallFails
<1>7. CASE TokenElapses
  <2>1. call.age + 1 \in Nat /\ Reduce(call.life, 1) \in Nat
    BY <1>0 DEF Reduce
  <2> QED
    BY <1>7, <2>1, AgedType, Zenon DEF TokenElapses, Call
<1>8. CASE UNCHANGED tokenVars
  BY <1>8 DEF tokenVars
<1> QED
  BY <1>1, <1>2, <1>3, <1>4, <1>5, <1>6, <1>7, <1>8 DEF TokenNext

(* Token and exchange stay what MetadataClient and Manager.do can hold. *)
THEOREM TokenTypeCorrect == TokenSpec => []TokenTypeOK
  BY InitTokenType, TokenStepType, PTL DEF TokenSpec

-----------------------------------------------------------------------------
(* What is left of a token.                                                *)

(* A cached token that was told outlives its use by what the margin has    *)
(* over the time it may have taken to come.                                *)
CacheInv == token.fresh > 0 /\ token.told => token.life + HttpTimeout >= token.fresh + Margin

(* On its way a token loses what the exchange has taken; in a request that *)
(* may fail for its token at all, it lasts longer than the exchange may.   *)
CallInv ==
  /\ call.age =< HttpTimeout
  /\ call.pc = "issued" /\ call.told => call.life + call.age >= call.grant
  /\ call.pc = "request" /\ call.ample => call.life + call.age > HttpTimeout
  /\ call.pc = "arrived" /\ call.ample => call.taken

LEMMA CachedInv ==
  ASSUME NEW grant \in Nat, NEW life \in Nat, NEW told \in BOOLEAN,
         told => life + HttpTimeout >= grant,
         Cached(grant, life, told).fresh > 0, Cached(grant, life, told).told
  PROVE  Cached(grant, life, told).life + HttpTimeout >= Cached(grant, life, told).fresh + Margin
<1>1. UntilMargin(grant) # 0 /\ told
  <2>1. CASE UntilMargin(grant) = 0
    BY <2>1 DEF Cached, NoToken
  <2>2. CASE UntilMargin(grant) # 0
    BY <2>2, Zenon DEF Cached
  <2> QED
    BY <2>1, <2>2
<1>2. UntilMargin(grant) + Margin = grant
  BY <1>1, TokenAssumption, Reducing DEF UntilMargin
<1>3. /\ Cached(grant, life, told).life = life
      /\ Cached(grant, life, told).fresh = UntilMargin(grant)
  BY <1>1, Zenon DEF Cached
<1> QED
  BY <1>1, <1>2, <1>3

LEMMA InitTokenInv == TokenInit => CacheInv /\ CallInv
<1> SUFFICES ASSUME NEW life \in Lifetimes, NEW delay \in 0 .. HttpTimeout,
                    token = Cached(life, Reduce(life, delay), TRUE), call = NoCall
             PROVE  CacheInv /\ CallInv
  BY Zenon DEF TokenInit
<1>1. /\ life \in Nat /\ Reduce(life, delay) \in Nat /\ TRUE \in BOOLEAN
      /\ Reduce(life, delay) + HttpTimeout >= life
  BY TokenAssumption DEF Reduce
<1>2. CacheInv
  BY <1>1, CachedInv DEF CacheInv
<1>3. CallInv
  BY TokenAssumption DEF CallInv, NoCall
<1> QED
  BY <1>2, <1>3

LEMMA TokenStepInv ==
  TokenTypeOK /\ CacheInv /\ CallInv /\ [TokenNext]_tokenVars => CacheInv' /\ CallInv'
<1> SUFFICES ASSUME token \in Token, call \in Call, CacheInv, CallInv, [TokenNext]_tokenVars
             PROVE  CacheInv' /\ CallInv'
  BY Zenon DEF TokenTypeOK
<1>0. /\ call.age \in Nat /\ call.grant \in Nat /\ call.life \in Nat /\ call.told \in BOOLEAN
      /\ token.life \in Nat /\ token.fresh \in Nat /\ token.told \in BOOLEAN
      /\ HttpTimeout \in Nat /\ Margin \in Nat /\ 2 * HttpTimeout =< Margin
  BY Zenon, TokenAssumption DEF Call, Token
<1>a. CacheInv' \/ token' # token
  BY Zenon DEF CacheInv
<1>1. CASE UseCached
  <2>1. /\ call'.pc = "request" /\ call'.age = 0 /\ call'.life = token.life
        /\ call'.ample <=> token.told
        /\ token' = token
    BY <1>1, NoCallType, Zenon DEF UseCached, NoCall
  <2>2. token.told => token.life > HttpTimeout
    BY <1>0, <1>1 DEF UseCached, BeforeExpiry, CacheInv
  <2>3. call'.ample => call'.life + call'.age > HttpTimeout
    BY <1>0, <2>1, <2>2
  <2> QED
    BY <1>0, <1>a, <2>1, <2>3 DEF CallInv
<1>2. CASE AskMetadata
  <2>1. call'.pc = "asking" /\ call'.age = 0 /\ token' = token
    BY <1>2, Zenon DEF AskMetadata, NoCall
  <2> QED
    BY <1>0, <1>a, <2>1 DEF CallInv
<1>3. ASSUME NEW life \in Lifetimes, NEW told \in BOOLEAN, Issue(life, told)
      PROVE  CacheInv' /\ CallInv'
  <2>1. /\ call'.pc = "issued" /\ call'.age = call.age /\ call'.life = life
        /\ call'.grant = Grant(life, told)
        /\ token' = token
    BY <1>3, Zenon DEF Issue, Call
  <2>2. call'.told <=> told
    BY <1>3, Zenon DEF Issue, Call
  <2>3. life \in Nat
    BY TokenAssumption
  <2>4. told => call'.life + call'.age >= call'.grant
    BY <1>0, <2>1, <2>3 DEF Grant
  <2> QED
    BY <1>0, <1>a, <2>1, <2>2, <2>4 DEF CallInv
<1>4. CASE Receive
  <2>1. /\ call.pc = "issued"
        /\ token' = Cached(call.grant, call.life, call.told)
        /\ call'.pc = "request" /\ call'.age = 0 /\ call'.life = call.life
        /\ call'.ample <=> call.told /\ call.grant > Margin
    BY <1>4, Zenon DEF Receive, NoCall
  <2>2. call.told => call.life + HttpTimeout >= call.grant
    BY <1>0, <2>1 DEF CallInv
  <2>3. CacheInv'
    BY <1>0, <2>1, <2>2, CachedInv DEF CacheInv
  <2>4. call.told /\ call.grant > Margin => call'.life + call'.age > HttpTimeout
    BY <1>0, <2>1, <2>2
  <2> QED
    BY <1>0, <2>1, <2>3, <2>4 DEF CallInv
<1>5. CASE Arrive
  <2>1. /\ call.pc = "request" /\ call'.pc = "arrived" /\ call'.age = call.age
        /\ call'.ample <=> call.ample
        /\ call'.taken <=> call.life > 0
        /\ token' = token
    BY <1>5, Zenon DEF Arrive, Call
  <2>2. call.ample => call.life > 0
    BY <1>0, <2>1 DEF CallInv
  <2>3. call'.age =< HttpTimeout
    BY <2>1 DEF CallInv
  <2>4. call'.ample => call'.taken
    BY <2>1, <2>2, Zenon
  <2> QED
    BY <1>a, <2>1, <2>3, <2>4 DEF CallInv
<1>6. CASE Return \/ CallFails
  <2>1. call' = NoCall /\ token' = token
    BY <1>6 DEF Return, CallFails
  <2> QED
    BY <1>0, <1>a, <2>1 DEF CallInv, NoCall
<1>7. CASE TokenElapses
  <2>1. CacheInv'
    <3>1. CASE token.fresh > 1
      <4>1. /\ token'.fresh = token.fresh - 1
            /\ token'.life = Reduce(token.life, 1)
            /\ token'.told <=> token.told
        BY <1>7, <3>1, Zenon DEF TokenElapses, Aged, Token
      <4>2. token.told => token.life + HttpTimeout >= token.fresh + Margin
        BY <1>0, <3>1 DEF CacheInv
      <4>3. Reduce(token.life, 1) \in Nat /\ Reduce(token.life, 1) + 1 >= token.life
        BY <1>0, Reducing
      <4>4. token.told => token'.life + HttpTimeout >= token'.fresh + Margin
        BY <1>0, <4>1, <4>2, <4>3
      <4> QED
        BY <4>1, <4>4, Zenon DEF CacheInv
    <3>2. CASE ~(token.fresh > 1)
      BY <1>7, <3>2 DEF TokenElapses, Aged, NoToken, CacheInv
    <3> QED
      BY <3>1, <3>2
  <2>2. CASE call.pc = "none"
    BY <1>7, <2>1, <2>2, Zenon DEF TokenElapses, CallInv
  <2>3. CASE call.pc # "none"
    <3>1. /\ call'.pc = call.pc /\ call'.age = call.age + 1 /\ call'.life = Reduce(call.life, 1)
          /\ call'.grant = call.grant
          /\ call'.told <=> call.told
          /\ call'.ample <=> call.ample
          /\ call'.taken <=> call.taken
      BY <1>7, <2>3, Zenon DEF TokenElapses, Call
    <3>2. call.age < HttpTimeout
      BY <1>7, <2>3 DEF TokenElapses
    <3>3. Reduce(call.life, 1) \in Nat /\ Reduce(call.life, 1) + 1 >= call.life
      BY <1>0, Reducing
    <3>4. call'.age =< HttpTimeout /\ call'.life + call'.age >= call.life + call.age
      BY <1>0, <3>1, <3>2, <3>3
    <3>5. call'.pc = "issued" /\ call'.told => call'.life + call'.age >= call'.grant
      BY <1>0, <3>1, <3>3, <3>4 DEF CallInv
    <3>6. call'.pc = "request" /\ call'.ample => call'.life + call'.age > HttpTimeout
      BY <1>0, <3>1, <3>3, <3>4 DEF CallInv
    <3>7. call'.pc = "arrived" /\ call'.ample => call'.taken
      BY <3>1, Zenon DEF CallInv
    <3> QED
      BY <2>1, <3>4, <3>5, <3>6, <3>7, Zenon DEF CallInv
  <2> QED
    BY <2>2, <2>3
<1>8. CASE UNCHANGED tokenVars
  BY <1>8, Zenon DEF tokenVars, CacheInv, CallInv
<1> QED
  BY <1>1, <1>2, <1>3, <1>4, <1>5, <1>6, <1>7, <1>8 DEF TokenNext

(* The API refuses no request for a token that was granted for longer than *)
(* the margin and said so, whatever the timeouts, if two of them fit into  *)
(* the margin.                                                             *)
THEOREM TokenIsLongEnough == TokenSpec => []TokenOutlivesRequest
<1>1. CallInv => TokenOutlivesRequest
  BY Zenon DEF CallInv, TokenOutlivesRequest
<1> QED
  BY <1>1, InitTokenInv, TokenStepInv, TokenTypeCorrect, PTL DEF TokenSpec

=============================================================================
