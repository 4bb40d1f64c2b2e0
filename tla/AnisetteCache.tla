--------------------------- MODULE AnisetteCache ---------------------------
(***************************************************************************)
(* The 60-second anisette header cache of omnisette's AnisetteClient      *)
(* (omnisette/src/lib.rs), shared between tasks as                         *)
(* ArcAnisetteClient = Arc<tokio::sync::Mutex<AnisetteClient>> and locked  *)
(* by AppleAccount::get_anisette (icloud-auth/src/client.rs).              *)
(*                                                                         *)
(* get_headers measures the age of the cache with SystemTime, which is not *)
(* monotonic: duration_since fails when the clock has gone back past       *)
(* generated_at, and the code then assumes 120 s.  The provider call is    *)
(* awaited while the mutex is held.                                        *)
(*                                                                         *)
(* Time is counted in abstract ticks: TTL ticks stand for the 60 s of the  *)
(* code and FallbackAge for the 120 s it assumes on a clock error.         *)
(***************************************************************************)
EXTENDS Naturals

CONSTANTS
    Tasks,        \* tasks that call get_anisette on one shared client
    TTL,          \* Duration::from_secs(60)
    FallbackAge,  \* unwrap_or(Duration::from_secs(120))
    Start,        \* the wall clock when the client is created (>> UNIX_EPOCH)
    MaxTime,      \* bound on the wall clock
    NoTask        \* model value: nobody holds the lock

ASSUME TTL \in Nat /\ FallbackAge > TTL /\ Start > TTL /\ MaxTime >= Start
ASSUME NoTask \notin Tasks

VARIABLES
    now,          \* SystemTime::now()
    cached,       \* cached_headers: the stamp of the header set held, 0 = empty map
    generatedAt,  \* generated_at
    lock,         \* holder of the tokio Mutex around the client, or NoTask
    pc,           \* per task: "idle", "waiting" (lock().await), "calling" (provider)
    served        \* per task: outcome of its last call and, for headers, their stamp and when they were returned

vars == <<now, cached, generatedAt, lock, pc, served>>

(* No outcome yet or an error carry no headers; headers handed out are a   *)
(* map the provider produced, never the empty map of a new client.        *)
Outcome == [kind : {"none", "error"}, stamp : {0}, at : 0..MaxTime]
             \cup [kind : {"headers"}, stamp : 1..MaxTime, at : 0..MaxTime]

NoOutcome == [kind |-> "none", stamp |-> 0, at |-> 0]

TypeOK ==
    /\ now \in 0..MaxTime
    /\ cached \in 0..MaxTime
    /\ generatedAt \in 0..MaxTime
    /\ lock \in Tasks \cup {NoTask}
    /\ pc \in [Tasks -> {"idle", "waiting", "calling"}]
    /\ served \in [Tasks -> Outcome]

(* Variant of Init: generated_at = SystemTime::now() at construction.     *)
InitStampedNow ==
    /\ now = Start
    /\ cached = 0
    /\ generatedAt = Start
    /\ lock = NoTask
    /\ pc = [t \in Tasks |-> "idle"]
    /\ served = [t \in Tasks |-> NoOutcome]

(* AnisetteClient::new: empty map, generated_at = UNIX_EPOCH.              *)
Init ==
    /\ now = Start
    /\ cached = 0
    /\ generatedAt = 0
    /\ lock = NoTask
    /\ pc = [t \in Tasks |-> "idle"]
    /\ served = [t \in Tasks |-> NoOutcome]

(* Variant of Elapsed: a clock error read as zero age (unwrap_or_default). *)
ElapsedSaturating(n, g) == IF n >= g THEN n - g ELSE 0

(* SystemTime::now().duration_since(generated_at).unwrap_or(120 s)        *)
Elapsed(n, g) == IF n >= g THEN n - g ELSE FallbackAge

(* last_generated > Duration::from_secs(60)                                *)
Stale(n, g) == Elapsed(n, g) > TTL

(* A caller enters get_anisette and awaits self.anisette.lock().          *)
Request(t) ==
    /\ pc[t] = "idle"
    /\ pc' = [pc EXCEPT ![t] = "waiting"]
    /\ UNCHANGED <<now, cached, generatedAt, lock, served>>

(* The lock is granted and get_headers runs up to its first await: either *)
(* the cache is fresh and &cached_headers is returned (the guard is then  *)
(* dropped), or the provider is called with the lock still held.          *)
GetHeaders(t) ==
    /\ pc[t] = "waiting"
    /\ lock = NoTask
    /\ IF Stale(now, generatedAt)
         THEN /\ lock' = t
              /\ pc' = [pc EXCEPT ![t] = "calling"]
              /\ UNCHANGED served
         ELSE /\ served' = [served EXCEPT ![t] = [kind |-> "headers", stamp |-> cached, at |-> now]]
              /\ pc' = [pc EXCEPT ![t] = "idle"]
              /\ UNCHANGED lock
    /\ UNCHANGED <<now, cached, generatedAt>>

(* provider.get_anisette_headers().await returns Ok: the map is replaced, *)
(* generated_at is stamped with the time of the reply, the headers are    *)
(* returned and the guard dropped.                                        *)
ProviderOk(t) ==
    /\ pc[t] = "calling"
    /\ cached' = now
    /\ generatedAt' = now
    /\ served' = [served EXCEPT ![t] = [kind |-> "headers", stamp |-> now, at |-> now]]
    /\ pc' = [pc EXCEPT ![t] = "idle"]
    /\ lock' = NoTask
    /\ UNCHANGED now

(* The provider fails: `?` returns the error, the cache is left as it was.*)
ProviderErr(t) ==
    /\ pc[t] = "calling"
    /\ served' = [served EXCEPT ![t] = [kind |-> "error", stamp |-> 0, at |-> now]]
    /\ pc' = [pc EXCEPT ![t] = "idle"]
    /\ lock' = NoTask
    /\ UNCHANGED <<now, cached, generatedAt>>

(* Wall-clock time passes.                                                *)
Tick ==
    /\ now < MaxTime
    /\ now' = now + 1
    /\ UNCHANGED <<cached, generatedAt, lock, pc, served>>

(* SystemTime is adjusted backwards (NTP step, manual change), though    *)
(* never to within TTL of the epoch.                                       *)
ClockBack ==
    /\ \E n \in (TTL + 1)..(now - 1) : now' = n
    /\ UNCHANGED <<cached, generatedAt, lock, pc, served>>

Next ==
    \/ \E t \in Tasks :
         \/ Request(t)
         \/ GetHeaders(t)
         \/ ProviderOk(t)
         \/ ProviderErr(t)
    \/ Tick
    \/ ClockBack

Spec == Init /\ [][Next]_vars

-----------------------------------------------------------------------------
(* Properties                                                              *)

(* Headers handed to a caller were stamped no later than the moment they  *)
(* were handed out and at most TTL before it, by the clock as it read     *)
(* then: get_headers must not keep serving a header set whose generated_at *)
(* lies in the future after the wall clock has been set back.             *)
ServedHeadersFresh ==
    \A t \in Tasks :
        served[t].kind = "headers" =>
            /\ served[t].stamp <= served[t].at
            /\ served[t].at - served[t].stamp <= TTL

=============================================================================
