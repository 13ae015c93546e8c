---------------------------- MODULE YandexToken ----------------------------
(***************************************************************************)
(* internal/cloud/yandex: the token cache of MetadataClient and the        *)
(* requests made with its tokens (Manager.do). Time is counted in units;   *)
(* timers run down.                                                        *)
(*                                                                         *)
(* A token is issued by the metadata service, used until shortly before    *)
(* its end as far as the client knows it, and checked by the API when a    *)
(* request arrives there.                                                  *)
(***************************************************************************)
EXTENDS Naturals

CONSTANTS
  HttpTimeout,  \* the time an HTTP exchange may take (http.Client.Timeout)
  Margin,       \* how long before its end a token is not used any more
  Hour,         \* the lifetime assumed of a token that does not tell
  Lifetimes     \* what the metadata service grants

(* A token on its way for as long as may be is used for a request on its   *)
(* way for as long as may be: the margin covers both.                      *)
ASSUME TokenAssumption ==
  /\ HttpTimeout \in Nat
  /\ Margin \in Nat
  /\ Hour \in Nat \ {0}
  /\ Lifetimes \subseteq Nat \ {0}
  /\ 2 * HttpTimeout =< Margin

VARIABLES
  token,  \* MetadataClient.token and tokenExp
  call    \* the HTTP exchange Manager.do waits for

tokenVars == <<token, call>>

(***************************************************************************)
(* A token: fresh is the time until tokenExp, 0 if there is no token; life *)
(* what the API will accept it for; told whether the service said so.      *)
(***************************************************************************)
Token == [fresh : Nat, life : Nat, told : BOOLEAN]

(***************************************************************************)
(* An exchange. pc: none, asking (for a token), issued (a token is on its  *)
(* way, with what it grants), request (to the API, with the token held),   *)
(* arrived (the API has taken or refused it). ample: the token was granted *)
(* for longer than the margin, and said so.                                *)
(***************************************************************************)
Call ==
  [pc : {"none", "asking", "issued", "request", "arrived"}, age : Nat,
   grant : Nat, life : Nat, told : BOOLEAN, ample : BOOLEAN, taken : BOOLEAN]

NoToken == [fresh |-> 0, life |-> 0, told |-> FALSE]

NoCall ==
  [pc |-> "none", age |-> 0, grant |-> 0, life |-> 0, told |-> FALSE,
   ample |-> FALSE, taken |-> FALSE]

TokenTypeOK ==
  /\ token \in Token
  /\ call \in Call

Reduce(n, by) == IF n > by THEN n - by ELSE 0

UntilTheEnd(grant) == grant
UntilMargin(grant) == Reduce(grant, Margin)

Grant(life, told) == IF told THEN life ELSE Hour

(* What the cache holds of a token granted for so long. *)
Cached(grant, life, told) ==
  IF UntilMargin(grant) = 0 THEN NoToken
  ELSE [fresh |-> UntilMargin(grant), life |-> life, told |-> told]

(* NewManager has fetched a first token, which took its time. *)
TokenInit ==
  /\ \E life \in Lifetimes, delay \in 0 .. HttpTimeout :
       token = Cached(life, Reduce(life, delay), TRUE)
  /\ call = NoCall

-----------------------------------------------------------------------------
(* Token.                                                                  *)

BeforeExpiry == token.fresh > 0

(* A fresh token is at most as old as it was when it was received, and     *)
(* ample if it was told.                                                   *)
UseCached ==
  /\ call.pc = "none"
  /\ BeforeExpiry
  /\ call' = [NoCall EXCEPT !.pc = "request", !.life = token.life, !.ample = token.told]
  /\ UNCHANGED token

AskMetadata ==
  /\ call.pc = "none"
  /\ ~BeforeExpiry
  /\ call' = [NoCall EXCEPT !.pc = "asking"]
  /\ UNCHANGED token

(* The metadata service: it may not say for how long (expires_in). *)
Issue(life, told) ==
  /\ call.pc = "asking"
  /\ call' = [call EXCEPT !.pc = "issued", !.life = life, !.told = told,
                          !.grant = Grant(life, told)]
  /\ UNCHANGED token

(* The token just fetched is used, even if it is not fresh. *)
Receive ==
  /\ call.pc = "issued"
  /\ token' = Cached(call.grant, call.life, call.told)
  /\ call' = [NoCall EXCEPT !.pc = "request", !.life = call.life,
                            !.ample = call.told /\ call.grant > Margin]

-----------------------------------------------------------------------------
(* do.                                                                     *)

Arrive ==
  /\ call.pc = "request"
  /\ call' = [call EXCEPT !.pc = "arrived", !.taken = call.life > 0]
  /\ UNCHANGED token

(* do returns: with the answer, or with an error. *)
Return ==
  /\ call.pc = "arrived"
  /\ call' = NoCall
  /\ UNCHANGED token

CallFails ==
  /\ call.pc # "none"
  /\ call' = NoCall
  /\ UNCHANGED token

(* A token no longer fresh is as good as none. *)
Aged(t) ==
  IF t.fresh > 1 THEN [t EXCEPT !.fresh = @ - 1, !.life = Reduce(@, 1)] ELSE NoToken

(* A unit of time; an exchange gets no more of it than HttpTimeout. *)
TokenElapses ==
  /\ call.pc # "none" => call.age < HttpTimeout
  /\ token' = Aged(token)
  /\ call' = IF call.pc = "none" THEN call
             ELSE [call EXCEPT !.age = @ + 1, !.life = Reduce(@, 1)]

TokenNext ==
  \/ UseCached \/ AskMetadata \/ Receive \/ Arrive \/ Return \/ CallFails
  \/ \E life \in Lifetimes, told \in BOOLEAN : Issue(life, told)
  \/ TokenElapses

TokenSpec == TokenInit /\ [][TokenNext]_tokenVars

-----------------------------------------------------------------------------
(* Properties.                                                             *)

(***************************************************************************)
(* The API refuses no request for its token having expired, if the token   *)
(* was granted for longer than the margin and said so: however slowly the  *)
(* token came, however long it was cached and however slowly the request   *)
(* goes, what is left of it is enough.                                     *)
(***************************************************************************)
TokenOutlivesRequest == call.pc = "arrived" /\ call.ample => call.taken

=============================================================================
