------------------------------ MODULE RetryClaim ------------------------------
(***************************************************************************)
(* What the router does for a request of a keyed route: the rate limit,    *)
(* then one statement that claims the key, then the handler, then the      *)
(* record of its answer.  A claim whose owner said nothing for the horizon *)
(* is taken over, and a record past its retention is as good as absent.    *)
(* Every step is a call to the database that may fail, and a server may    *)
(* die between any two.                                                    *)
(***************************************************************************)
EXTENDS FiniteSets, Naturals

CONSTANTS
  Server,      \* the requests the servers can be handling at one time
  NoRequest,
  RetryKey,    \* a method, a scope and an Idempotency-Key
  Fingerprint,
  ClaimToken,
  Horizon,     \* CLAIM_HORIZON_MS, in ticks
  Retention,   \* RETENTION_MS, in ticks
  HitLimit,    \* what the rate class allows in one window
  MaxClaims    \* the bound on claims granted

ASSUME RetryAssumption ==
  /\ Horizon \in Nat /\ Retention \in Nat /\ Horizon < Retention
  /\ HitLimit \in Nat /\ MaxClaims \in Nat
  /\ IsFiniteSet(Server) /\ IsFiniteSet(RetryKey) /\ IsFiniteSet(ClaimToken)
  /\ Cardinality(ClaimToken) > Cardinality(Server) + Cardinality(RetryKey)

VARIABLES
  record,   \* the idempotency_key table
  serving,  \* the request each server is handling
  hits,     \* the caller's requests in this rate window
  replays,  \* the answers replayed, with the request each was given to
  effects,  \* how many times the work under a key was done
  grants,   \* claims granted
  worked,  \* history: how long each server's handler has run
  done,     \* history: whether the work under a key was done, and nothing excuses a repeat
  excuses   \* history: the failures that let it be done once more

history == <<worked, done, excuses>>

rvars == <<record, serving, hits, replays, effects, grants, history>>

Nobody == "nobody"

\* answer is the fingerprint of the request whose handler produced the response.
RetryRecordRow ==
  [state : {"absent", "claimed", "completed"}, fingerprint : Fingerprint \union {Nobody},
   token : ClaimToken \union {Nobody}, age : 0..Retention, answer : Fingerprint \union {Nobody}]

Absent ==
  [state |-> "absent", fingerprint |-> Nobody, token |-> Nobody, age |-> 0, answer |-> Nobody]

Serving ==
  [step : {"claim", "find", "run", "complete", "release"}, key : RetryKey,
   fingerprint : Fingerprint, token : ClaimToken \union {Nobody}]

RInit ==
  /\ record = [k \in RetryKey |-> Absent]
  /\ serving = [s \in Server |-> NoRequest]
  /\ hits = 0
  /\ replays = {}
  /\ effects = [k \in RetryKey |-> 0]
  /\ grants = 0
  /\ worked = [s \in Server |-> 0]
  /\ done = [k \in RetryKey |-> FALSE]
  /\ excuses = [k \in RetryKey |-> 0]

-----------------------------------------------------------------------------
(* Before the claim. *)

\* Refused hits are counted too.
AllowedHit == hits < HitLimit

\* The limiter, then the route, the credential, the query and the body.  What is
\* refused here has touched nothing but the limiter's window.
Receive(s, k, f) ==
  /\ serving[s] = NoRequest
  /\ hits' = IF AllowedHit THEN hits + 1 ELSE hits
  /\ serving' =
       IF AllowedHit
       THEN [serving EXCEPT ![s] =
               [step |-> "claim", key |-> k, fingerprint |-> f, token |-> Nobody]]
       ELSE serving
  /\ UNCHANGED <<record, replays, effects, grants, history>>

\* No route, no credential, a body that does not parse, or no key.
RefuseEarly ==
  /\ AllowedHit
  /\ hits' = hits + 1
  /\ UNCHANGED <<record, serving, replays, effects, grants, history>>

NextWindow ==
  /\ hits > 0
  /\ hits' = 0
  /\ UNCHANGED <<record, serving, replays, effects, grants, history>>

-----------------------------------------------------------------------------
(* The claim. *)

InStep(s, step) == serving[s] # NoRequest /\ serving[s].step = step

Row(s) == record[serving[s].key]

Answered(s) == serving' = [serving EXCEPT ![s] = NoRequest]

Onward(s, step) == serving' = [serving EXCEPT ![s].step = step]

Expired(r) == r.state # "absent" /\ r.age >= Retention

Abandoned(r) == r.state = "claimed" /\ r.age >= Horizon

\* A mutant: a conflict on the key always takes the row.
TakesAny(r) == TRUE

Free(r) == r.state = "absent" \/ Expired(r) \/ Abandoned(r)

\* gen_random_uuid().
FreshToken ==
  CHOOSE t \in ClaimToken :
    /\ \A k \in RetryKey : record[k].token # t
    /\ \A s \in Server : serving[s] # NoRequest => serving[s].token # t

\* What may be under way, or forgotten, when a record is replaced: nobody has
\* recorded an answer within the horizon, or the record has outlived its retention.
\* Stated on its own, so that Free is held to it.
Lapsed(r) ==
  \/ r.state = "claimed" /\ r.age >= Horizon
  \/ r.state = "completed" /\ r.age >= Retention

\* Work that was done before the record lapsed may be done once more.
ExcuseRepeat(k, why) ==
  /\ done' = [done EXCEPT ![k] = @ /\ ~why]
  /\ excuses' = [excuses EXCEPT ![k] = IF done[k] /\ why THEN @ + 1 ELSE @]

\* The winning statement.  Its answer may be lost: the claim then stands, with
\* nobody to run under it.
ClaimWon(s) ==
  /\ InStep(s, "claim")
  /\ Free(Row(s))
  /\ grants < MaxClaims
  /\ record' = [record EXCEPT ![serving[s].key] =
       [state |-> "claimed", fingerprint |-> serving[s].fingerprint, token |-> FreshToken,
        age |-> 0, answer |-> Nobody]]
  /\ ExcuseRepeat(serving[s].key, Lapsed(Row(s)))
  /\ \/ serving' = [serving EXCEPT ![s].step = "run", ![s].token = FreshToken]
     \/ Answered(s)
  /\ grants' = grants + 1
  /\ worked' = [worked EXCEPT ![s] = 0]
  /\ UNCHANGED <<hits, replays, effects>>

\* Nothing is written, and a second statement reads why.
ClaimLost(s) ==
  /\ InStep(s, "claim")
  /\ ~Free(Row(s))
  /\ Onward(s, "find")
  /\ UNCHANGED <<record, hits, replays, effects, grants, history>>

\* The statement throws: refused, and the handler does not run.
ClaimThrows(s) ==
  /\ InStep(s, "claim")
  /\ Answered(s)
  /\ UNCHANGED <<record, hits, replays, effects, grants, history>>

\* The record is gone, another request's, completed, or still in flight.  Only a
\* completed one of the same fingerprint is an answer; the others are refusals.
Find(s) ==
  /\ InStep(s, "find")
  /\ LET r == Row(s)
         replayed == /\ r.state = "completed" /\ ~Expired(r)
                     /\ r.fingerprint = serving[s].fingerprint
     IN  replays' = IF replayed
                    THEN replays \union {[asked |-> serving[s].fingerprint, given |-> r.answer]}
                    ELSE replays
  /\ Answered(s)
  /\ UNCHANGED <<record, hits, effects, grants, history>>

-----------------------------------------------------------------------------
(* The handler, and what becomes of its claim. *)

\* A mutant: any claim on the key will do.
OwnsAny(r, t) == r.state = "claimed"

\* The fence on the token and on the state.
Owns(r, t) == r.state = "claimed" /\ r.token = t

Overdue(s) == worked[s] >= Horizon

\* The work is done.  Two things excuse a repeat of it here: the handler outlived
\* the horizon, or it broke half way.
DoWork(s, broke) ==
  LET k == serving[s].key
      excused == broke \/ Overdue(s)
  IN  /\ effects' = [effects EXCEPT ![k] = @ + 1]
      /\ done' = [done EXCEPT ![k] = @ \/ ~excused]
      /\ excuses' = [excuses EXCEPT ![k] = IF excused THEN @ + 1 ELSE @]

\* A 2xx.
HandlerSucceeds(s) ==
  /\ InStep(s, "run")
  /\ DoWork(s, FALSE)
  /\ Onward(s, "complete")
  /\ UNCHANGED <<record, hits, replays, grants, worked>>

\* A refusal, or a throw with nothing written.
HandlerRefuses(s) ==
  /\ InStep(s, "run")
  /\ Onward(s, "release")
  /\ UNCHANGED <<record, hits, replays, effects, grants, history>>

\* A throw after the first of a handler's transactions.
HandlerBreaks(s) ==
  /\ InStep(s, "run")
  /\ DoWork(s, TRUE)
  /\ Onward(s, "release")
  /\ UNCHANGED <<record, hits, replays, grants, worked>>

\* The caller has its answer whether it could be recorded or not.
CompleteClaim(s) ==
  /\ InStep(s, "complete")
  /\ record' =
       IF Owns(Row(s), serving[s].token) /\ ~Expired(Row(s))
       THEN [record EXCEPT ![serving[s].key].state = "completed",
                           ![serving[s].key].answer = serving[s].fingerprint]
       ELSE record
  /\ Answered(s)
  /\ UNCHANGED <<hits, replays, effects, grants, history>>

ReleaseClaim(s) ==
  /\ InStep(s, "release")
  /\ record' =
       IF Owns(Row(s), serving[s].token)
       THEN [record EXCEPT ![serving[s].key] = Absent]
       ELSE record
  /\ Answered(s)
  /\ UNCHANGED <<hits, replays, effects, grants, history>>

\* The write throws, or the server dies: the claim stays until its horizon.
LeavesClaim(s) ==
  /\ \/ InStep(s, "run")
     \/ InStep(s, "complete")
     \/ InStep(s, "release")
  /\ Answered(s)
  /\ UNCHANGED <<record, hits, replays, effects, grants, history>>

RTick ==
  /\ \E k \in RetryKey : record[k].state # "absent" /\ record[k].age < Retention
  /\ record' = [k \in RetryKey |->
       IF record[k].state # "absent" /\ record[k].age < Retention
       THEN [record[k] EXCEPT !.age = @ + 1]
       ELSE record[k]]
  /\ worked' = [s \in Server |->
       IF InStep(s, "run") /\ worked[s] < Horizon THEN worked[s] + 1 ELSE worked[s]]
  /\ UNCHANGED <<serving, hits, replays, effects, grants, done, excuses>>

RNext ==
  \/ \E s \in Server :
       \/ \E k \in RetryKey, f \in Fingerprint : Receive(s, k, f)
       \/ ClaimWon(s)
       \/ ClaimLost(s)
       \/ ClaimThrows(s)
       \/ Find(s)
       \/ HandlerSucceeds(s)
       \/ HandlerRefuses(s)
       \/ HandlerBreaks(s)
       \/ CompleteClaim(s)
       \/ ReleaseClaim(s)
       \/ LeavesClaim(s)
  \/ RefuseEarly
  \/ NextWindow
  \/ RTick

RSpec == RInit /\ [][RNext]_rvars

-----------------------------------------------------------------------------

RTypeOK ==
  /\ record \in [RetryKey -> RetryRecordRow]
  /\ serving \in [Server -> Serving \union {NoRequest}]
  /\ hits \in 0..HitLimit
  /\ replays \subseteq [asked : Fingerprint, given : Fingerprint]
  /\ effects \in [RetryKey -> 0..MaxClaims]
  /\ grants \in 0..MaxClaims
  /\ worked \in [Server -> 0..Horizon]
  /\ done \in [RetryKey -> BOOLEAN]
  /\ excuses \in [RetryKey -> 0..MaxClaims]

\* The work under one key is done once, however many identical requests race,
\* fail or are retried.  A second time needs one of four failures: a handler that
\* worked on past the horizon, one that threw half way, a death or a failed write
\* that left done work unrecorded until the horizon, or a record past its retention.
KeyedWorkDoneOnce == \A k \in RetryKey : effects[k] <= 1 + excuses[k]

\* A replayed answer is that of the same request: its fingerprint is the one
\* whose handler produced it, though the claim may have changed hands between
\* different requests under one key.
ReplayAnswersItsRequest == \A r \in replays : r.asked = r.given
=============================================================================
