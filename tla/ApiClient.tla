----------------------------- MODULE ApiClient ------------------------------
(***************************************************************************)
(* The HTTP clients a test talks to ClaimDesk through (api/client.py) and  *)
(* the recorder of what it did (core/recording.py).  ClaimDesk takes a     *)
(* caller's token from the Authorization header or from a session cookie;  *)
(* httpx keeps cookies, so the client throws them away after each answer.  *)
(* An answer that is cut off in its body raises after the cookie was       *)
(* stored and before it is thrown away.                                    *)
(***************************************************************************)
EXTENDS ClaimRules, Sequences

CONSTANTS
  MAX_RECORDED_ENTRIES,    \* what a recorder keeps
  None

ASSUME RecorderAssumption ==
  /\ MAX_RECORDED_ENTRIES \in Nat \ {0}
  /\ None \notin Role

VARIABLES
  jar,        \* per client, whose session cookie it holds
  recorder,   \* the recorder of the running test
  answered    \* every exchange the running test has completed

clientVars == <<jar, recorder, answered>>

\* One client per account, and one for nobody, made anew for each test.
Client == Role \cup {"ANONYMOUS"}

\* Whom the token in the header names; a header that carries no bearer token.
Header == Role \cup {None, "MALFORMED"}

Answer == Verdict \cup {"unauthenticated"}

Exchange == [header : Header, caller : Role \cup {None}, answer : Answer]

Recorder == [entries : Seq(Exchange), dropped : Nat]

ClientTypeOK ==
  /\ jar \in [Client -> Role \cup {None}]
  /\ recorder \in Recorder
  /\ answered \in Seq(Exchange)

\* ApiClient.request: the token of the client, unless the test says otherwise.
authorization(k, authenticate) ==
  IF authenticate /\ k # "ANONYMOUS" THEN k ELSE None

\* A header wins over the cookie, also one that is no good.
_extract_token(header, cookie) ==
  CASE header = None        -> cookie
    [] header = "MALFORMED" -> None
    [] OTHER                -> header

Caller(k, header) == _extract_token(header, jar[k])

\* Stream.add: a full stream forgets its oldest entry and counts it.
add(x) ==
  IF Len(recorder.entries) < MAX_RECORDED_ENTRIES
  THEN [recorder EXCEPT !.entries = Append(@, x)]
  ELSE [entries |-> Append(Tail(recorder.entries), x), dropped |-> recorder.dropped + 1]

\* Mutant of discard: httpx's default, the cookies stay.
keep_cookies(k, set_cookie) == [jar EXCEPT ![k] = IF set_cookie = None THEN @ ELSE set_cookie]

discard(k, set_cookie) == [jar EXCEPT ![k] = None]

\* An answered request: the cookies go, the exchange is recorded.
request(k, header, set_cookie, answer) ==
  LET x == [header |-> header, caller |-> Caller(k, header), answer |-> answer] IN
  /\ jar' = discard(k, set_cookie)
  /\ recorder' = add(x)
  /\ answered' = Append(answered, x)

\* A request that raises: nothing is recorded, and a cookie may have arrived.
raise(k, set_cookie) ==
  /\ \/ jar' = jar
     \/ set_cookie # None /\ jar' = [jar EXCEPT ![k] = set_cookie]
  /\ UNCHANGED <<recorder, answered>>

no_cookies == [k \in Client |-> None]

recording == [entries |-> <<>>, dropped |-> 0]

FreshClients == jar = no_cookies /\ recorder = recording /\ answered = <<>>
-----------------------------------------------------------------------------
(* ADR 0007: the caller ClaimDesk acts for is the one the request names in  *)
(* its header, and a request that names none is nobody's.  No cookie left   *)
(* by an earlier login, of this test or another, ever answers for it.       *)
CallerIsExplicit ==
  \A i \in DOMAIN answered :
    answered[i].caller = IF answered[i].header \in Role THEN answered[i].header ELSE None

(* The evidence attached to a failing test is the end of its own traffic,   *)
(* in order, and says how much of it is missing.                            *)
EvidenceIsTheTests ==
  LET all == Len(answered)
      kept == Len(recorder.entries)
  IN /\ kept = IF all < MAX_RECORDED_ENTRIES THEN all ELSE MAX_RECORDED_ENTRIES
     /\ recorder.dropped = all - kept
     /\ recorder.entries = SubSeq(answered, all - kept + 1, all)
=============================================================================
