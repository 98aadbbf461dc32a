--------------------------- MODULE PortalSession ----------------------------
(***************************************************************************)
(* The session of the portal: the token pair and profile that every tab of *)
(* a browser shares (session.service.ts), the interceptor that rotates an  *)
(* expired access token and sends the call again (jwt.interceptor.ts), the *)
(* rotation in the API (auth.service.ts), and the handle of each tab on    *)
(* the IndexedDB database of the tenant (db.service.ts).                   *)
(*                                                                         *)
(* A pair of tokens is the number of its issue; one user stands for each   *)
(* tenant.  Tabs do not listen to each other's writes of localStorage.     *)
(***************************************************************************)
EXTENDS Integers, FiniteSets, Sequences

CONSTANTS
    Tab,          \* pages of one browser
    Call,         \* API calls that may be under way at once
    Tenant,
    NoTenant,
    MaxPairs,     \* bound: pairs of tokens the API issues
    MaxRefreshes  \* bound: POST /auth/refresh sent

ASSUME PortalSessionAssumption ==
    /\ NoTenant \notin Tenant
    /\ MaxPairs \in Nat /\ MaxRefreshes \in Nat

VARIABLES
    owner,     \* the tenant of each pair issued: RefreshToken rows, in order
    revoked,   \* pairs whose refresh token has revokedAt
    expired,   \* pairs whose access token has expired
    stored,    \* localStorage: the pair (0: none) and the profile's tenant
    signedIn,  \* the signal isAuthenticated of each tab
    profile,   \* the signal profile of each tab
    handle,    \* the DbService of each tab
    flight,    \* refreshInFlight$ of each tab: a member of refresh, or 0
    refresh,   \* the refresh requests, in the order they were sent
    call,      \* the calls under way
    changed,   \* the pair a password change of the tab answers with, or 0
    rotatedBy  \* per pair, the tabs that stored the pair that replaced it

sessionVars == <<owner, revoked, expired, stored, signedIn, profile, handle,
                 flight, refresh, call, changed, rotatedBy>>
apiTokens == <<owner, revoked>>

Pairs == 1..MaxPairs
Issued == {n \in Pairs : owner[n] # NoTenant}
NextPair == Cardinality(Issued) + 1
NoCall == [stage |-> "idle"]
ClosedHandle == [instance |-> NoTenant, promise |-> NoTenant,
                 current |-> NoTenant, opening |-> {}]
SignedOut == [pair |-> 0, tenant |-> NoTenant]

-----------------------------------------------------------------------------
(* The handle on the tenant's database.                                    *)

OpenForTenant(h, x) ==
    IF h.current = x /\ h.instance # NoTenant
    THEN h
    ELSE [instance |-> NoTenant, promise |-> x, current |-> x,
          opening |-> h.opening \cup {x}]

Close(h) == [ClosedHandle EXCEPT !.opening = h.opening]

(* A fault to refute: the instance at hand before the promise.             *)
InstanceFirst(h) == IF h.instance # NoTenant THEN h.instance ELSE h.promise

(* What getDb resolves to, NoTenant when it throws.                        *)
GetDb(h) == IF h.promise # NoTenant THEN h.promise ELSE h.instance

OpenSucceeds(t, x) ==
    /\ x \in handle[t].opening
    /\ handle' = [handle EXCEPT ![t].instance = x, ![t].opening = @ \ {x}]
    /\ UNCHANGED <<apiTokens, expired, stored, signedIn, profile, flight,
                   refresh, call, changed, rotatedBy>>

-----------------------------------------------------------------------------
(* Signing in and out.                                                     *)

SetSession(t, n, x) ==
    /\ stored' = [pair |-> n, tenant |-> x]
    /\ handle' = [handle EXCEPT ![t] = OpenForTenant(@, x)]
    /\ profile' = [profile EXCEPT ![t] = x]
    /\ signedIn' = [signedIn EXCEPT ![t] = TRUE]

EndSession(t) ==
    /\ stored' = SignedOut
    /\ handle' = [handle EXCEPT ![t] = Close(@)]
    /\ profile' = [profile EXCEPT ![t] = NoTenant]
    /\ signedIn' = [signedIn EXCEPT ![t] = FALSE]

(* The API stores the refresh token of a new pair.                         *)
Issue(x) ==
    /\ NextPair \in Pairs
    /\ owner' = [owner EXCEPT ![NextPair] = x]

Login(t, x) ==
    /\ Issue(x)
    /\ SetSession(t, NextPair, x)
    /\ UNCHANGED <<revoked, expired, flight, refresh, call, changed, rotatedBy>>

(* The portal forgets its tokens; it does not call POST /auth/logout.      *)
Logout(t) ==
    /\ signedIn[t]
    /\ EndSession(t)
    /\ UNCHANGED <<apiTokens, expired, flight, refresh, call, changed, rotatedBy>>

(* POST /auth/change-password: every refresh token of the user is revoked  *)
(* and a new pair is issued, which the tab stores when the answer comes.   *)
ChangePassword(t) ==
    /\ signedIn[t] /\ profile[t] # NoTenant /\ changed[t] = 0
    /\ stored.pair # 0 /\ stored.pair \notin expired
    /\ LET user == owner[stored.pair] IN
           /\ Issue(user)
           /\ revoked' = revoked \cup {n \in Issued : owner[n] = user}
    /\ changed' = [changed EXCEPT ![t] = NextPair]
    /\ UNCHANGED <<expired, stored, signedIn, profile, handle, flight, refresh,
                   call, rotatedBy>>

PasswordChanged(t) ==
    /\ changed[t] # 0
    /\ SetSession(t, changed[t], owner[changed[t]])
    /\ changed' = [changed EXCEPT ![t] = 0]
    /\ UNCHANGED <<apiTokens, expired, flight, refresh, call, rotatedBy>>

(* The page is loaded again: its calls and signals are gone, what the API  *)
(* is doing for it is not.                                                 *)
Reload(t) ==
    LET valid == stored.pair # 0 /\ stored.pair \notin expired IN
    /\ signedIn' = [signedIn EXCEPT ![t] = valid]
    /\ profile' = [profile EXCEPT ![t] = stored.tenant]
    /\ handle' = [handle EXCEPT ![t] =
                     IF valid /\ stored.tenant # NoTenant
                     THEN OpenForTenant(ClosedHandle, stored.tenant)
                     ELSE ClosedHandle]
    /\ flight' = [flight EXCEPT ![t] = 0]
    /\ changed' = [changed EXCEPT ![t] = 0]
    /\ call' = [c \in Call |-> IF call[c].stage # "idle" /\ call[c].tab = t
                               THEN NoCall ELSE call[c]]
    /\ UNCHANGED <<apiTokens, expired, stored, refresh, rotatedBy>>

Expire(n) ==
    /\ n \in Issued \ expired
    /\ expired' = expired \cup {n}
    /\ UNCHANGED <<apiTokens, stored, signedIn, profile, handle, flight, refresh,
                   call, changed, rotatedBy>>

-----------------------------------------------------------------------------
(* A call, and the interceptor around it.                                  *)

SendCall(t, c) ==
    /\ call[c] = NoCall /\ signedIn[t] /\ stored.pair # 0
    /\ call' = [call EXCEPT ![c] = [stage |-> "sent", tab |-> t, pair |-> stored.pair]]
    /\ UNCHANGED <<apiTokens, expired, stored, signedIn, profile, handle, flight,
                   refresh, changed, rotatedBy>>

(* The call is over: answered, or refused after its one retry.             *)
CallEnds(c) ==
    /\ \/ call[c].stage \in {"sent", "retried"} /\ call[c].pair \notin expired
       \/ call[c].stage = "retried"
       \/ call[c].stage = "sent" /\ stored.pair = 0
    /\ call' = [call EXCEPT ![c] = NoCall]
    /\ UNCHANGED <<flight, refresh>>

(* Answered 401, and another request or tab has rotated the pair.          *)
RetryWithStored(c) ==
    /\ call[c].stage = "sent" /\ call[c].pair \in expired
    /\ stored.pair \notin {0, call[c].pair}
    /\ call' = [call EXCEPT ![c].stage = "retried", ![c].pair = stored.pair]
    /\ UNCHANGED <<flight, refresh>>

(* A fault to refute: every call refused 401 sends its own refresh.        *)
OwnFlight(t) == Len(refresh) + 1

(* The flight a call refused 401 waits for: the one of its tab, or new.    *)
Flight(t) == IF flight[t] # 0 THEN flight[t] ELSE Len(refresh) + 1

(* Answered 401 with the stored pair: the call waits for the rotation.     *)
AwaitRotation(c) ==
    LET t == call[c].tab
        f == Flight(t) IN
    /\ call[c].stage = "sent" /\ call[c].pair \in expired
    /\ stored.pair = call[c].pair
    /\ f <= MaxRefreshes
    /\ refresh' = IF f <= Len(refresh) THEN refresh
                  ELSE Append(refresh, [token |-> stored.pair, stage |-> "sent",
                                        got |-> 0])
    /\ flight' = [flight EXCEPT ![t] = f]
    /\ call' = [call EXCEPT ![c] = [stage |-> "waiting", tab |-> t, flight |-> f]]

AnswerCall(c) ==
    /\ CallEnds(c) \/ RetryWithStored(c) \/ AwaitRotation(c)
    /\ UNCHANGED <<apiTokens, expired, stored, signedIn, profile, handle, changed,
                   rotatedBy>>

-----------------------------------------------------------------------------
(* POST /auth/refresh in the API: the token is judged, revoked, and a new  *)
(* one is stored, each in a statement of its own and in no transaction.    *)

JudgeRefresh(f) ==
    /\ refresh[f].stage = "sent"
    /\ refresh' = [refresh EXCEPT ![f].stage =
                      IF refresh[f].token \in revoked
                      THEN "refused" ELSE "judged"]
    /\ UNCHANGED apiTokens

RevokeOld(f) ==
    /\ refresh[f].stage = "judged"
    /\ revoked' = revoked \cup {refresh[f].token}
    /\ refresh' = [refresh EXCEPT ![f].stage = "revoked"]
    /\ UNCHANGED owner

StoreNew(f) ==
    /\ refresh[f].stage = "revoked"
    /\ Issue(owner[refresh[f].token])
    /\ refresh' = [refresh EXCEPT ![f].stage = "rotated", ![f].got = NextPair]
    /\ UNCHANGED revoked

Rotate(f) ==
    /\ JudgeRefresh(f) \/ RevokeOld(f) \/ StoreNew(f)
    /\ UNCHANGED <<expired, stored, signedIn, profile, handle, flight, call,
                   changed, rotatedBy>>

-----------------------------------------------------------------------------
(* The end of a flight, for the calls that wait for it.                    *)

Waits(c, f) == call[c].stage = "waiting" /\ call[c].flight = f
Heard(t, f) == \E c \in Call : Waits(c, f) /\ call[c].tab = t

Land(t, f, answered) ==
    /\ Heard(t, f)
    /\ call' = [c \in Call |-> IF Waits(c, f) THEN answered[c] ELSE call[c]]
    /\ flight' = [flight EXCEPT ![t] = IF @ = f THEN 0 ELSE @]
    /\ UNCHANGED <<apiTokens, expired, refresh, changed>>

(* The new pair is stored and the calls are sent again with it.            *)
Rotated(t, f) ==
    /\ refresh[f].stage = "rotated"
    /\ Land(t, f, [c \in Call |-> [stage |-> "retried", tab |-> t,
                                   pair |-> refresh[f].got]])
    /\ stored' = [stored EXCEPT !.pair = refresh[f].got]
    /\ signedIn' = [signedIn EXCEPT ![t] = TRUE]
    /\ rotatedBy' = [rotatedBy EXCEPT ![refresh[f].token] = @ \cup {t}]
    /\ UNCHANGED <<profile, handle>>

(* Refused 401: the session is over.                                       *)
RefreshRefused(t, f) ==
    /\ refresh[f].stage = "refused"
    /\ Land(t, f, [c \in Call |-> NoCall])
    /\ EndSession(t)
    /\ UNCHANGED rotatedBy

(* The request or its answer is lost: the session is kept for offline work *)
(* and the calls fail; the API may still handle the request.               *)
RefreshLost(t, f) ==
    /\ Land(t, f, [c \in Call |-> NoCall])
    /\ UNCHANGED <<stored, signedIn, profile, handle, rotatedBy>>

-----------------------------------------------------------------------------
PortalSessionInit ==
    /\ owner = [n \in Pairs |-> NoTenant] /\ revoked = {} /\ expired = {}
    /\ stored = SignedOut
    /\ signedIn = [t \in Tab |-> FALSE] /\ profile = [t \in Tab |-> NoTenant]
    /\ handle = [t \in Tab |-> ClosedHandle]
    /\ flight = [t \in Tab |-> 0] /\ refresh = <<>>
    /\ call = [c \in Call |-> NoCall] /\ changed = [t \in Tab |-> 0]
    /\ rotatedBy = [n \in Pairs |-> {}]

PortalSessionNext ==
    \/ \E n \in Pairs : Expire(n)
    \/ \E c \in Call : AnswerCall(c)
    \/ \E f \in 1..Len(refresh) : Rotate(f)
    \/ \E t \in Tab :
         \/ Logout(t) \/ ChangePassword(t) \/ PasswordChanged(t) \/ Reload(t)
         \/ \E x \in Tenant : Login(t, x) \/ OpenSucceeds(t, x)
         \/ \E c \in Call : SendCall(t, c)
         \/ \E f \in 1..Len(refresh) :
              Rotated(t, f) \/ RefreshRefused(t, f) \/ RefreshLost(t, f)

PortalSessionSpec == PortalSessionInit /\ [][PortalSessionNext]_sessionVars

-----------------------------------------------------------------------------
(* In a tab that shows a profile, getDb either throws or gives the         *)
(* database of that profile's tenant, whatever opens are still under way   *)
(* from before a logout or a reload (db.service.ts:20-43, 167-189).        *)
CacheOfTenant ==
    \A t \in Tab :
        profile[t] # NoTenant /\ GetDb(handle[t]) # NoTenant
            => GetDb(handle[t]) = profile[t]

(* No tab signs the user out by presenting a refresh token whose successor *)
(* it has itself stored: the calls it has refused at the same time share   *)
(* one rotation (jwt.interceptor.ts:18-21).                                *)
OwnRotationKeepsSession ==
    [][\A t \in Tab, f \in 1..Len(refresh) :
           RefreshRefused(t, f) => t \notin rotatedBy[refresh[f].token]]_sessionVars
=============================================================================
