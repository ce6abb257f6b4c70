----------------------------- MODULE AuthResume -----------------------------
(***************************************************************************)
(* login_or_resume of birdfy_api.py with refresh_token, get_devices, login *)
(* and the token cache file: which failure leads to a fresh login (the     *)
(* thing the cache is there to avoid, since the cloud mails the owner      *)
(* about it), and what is left in the file for the next attempt and for    *)
(* the next process.                                                       *)
(*                                                                         *)
(* A token stands for a whole auth response.  The cloud is external: it    *)
(* may let a token lapse or revoke its refresh token at any time, and any  *)
(* request may fail.  One attempt at a time is made, at most one request   *)
(* of it is under way, and the process may die at any of them.             *)
(***************************************************************************)
EXTENDS Integers

CONSTANTS
    Accounts,     \* the accounts the bridge may be configured with
    MaxTokens,    \* bound: tokens the cloud issues
    Caching,      \* NVS_NO_TOKEN_CACHE is not set
    DiskFaults    \* writing or removing the cache file may fail

ASSUME AuthAssumption ==
    /\ Accounts # {}
    /\ MaxTokens \in Nat \ {0}
    /\ Caching \in BOOLEAN
    /\ DiskFaults \in BOOLEAN

Tokens == 1 .. MaxTokens
None == 0

VARIABLES
    account,    \* BIRDFY_EMAIL
    owner,      \* whose account a token was issued for
    untagged,   \* tokens whose saved response names no account
    issued,     \* tokens issued so far
    alive,      \* tokens the cloud accepts
    renewable,  \* tokens whose refresh token the cloud accepts
    file,       \* the token in the cache file, None when missing or unreadable
    pc,         \* the request under way
    held,       \* the token that request is about
    authed,     \* the token the last successful attempt returned
    unsaved     \* history: a token of the last attempt could not be saved

token_vars == <<owner, untagged, issued, alive, renewable>>
vars == <<account, token_vars, file, pc, held, authed, unsaved>>

TypeOK ==
    /\ account \in Accounts
    /\ owner \in [Tokens -> Accounts]
    /\ issued \in 0 .. MaxTokens
    /\ untagged \subseteq 1 .. issued
    /\ alive \subseteq 1 .. issued
    /\ renewable \subseteq 1 .. issued
    /\ file \in None .. issued
    /\ pc \in {"idle", "validate", "refresh", "revalidate", "login", "devices", "dead"}
    /\ held \in None .. issued
    /\ authed \in None .. issued
    /\ unsaved \in BOOLEAN

-----------------------------------------------------------------------------
(* The cache file. *)

\* Mutant: the account of the cached token is not looked at.
Resumable_anyAccount == Caching /\ file # None

\* The account check of login_or_resume: the address saved with the token is the
\* configured one, or there is none.
TakenAsMine(t) == owner[t] = account \/ t \in untagged

\* _load_cached_auth and the account check.
Resumable == Caching /\ file # None /\ TakenAsMine(file)

\* _clear_cached_auth: a failing unlink is ignored.
Clear == file' \in IF DiskFaults THEN {None, file} ELSE {None}

\* _save_cached_auth: a failing write leaves the old text or, the file having
\* been truncated first, none.
Save(t) ==
    /\ file' \in IF ~Caching THEN {file}
                 ELSE IF DiskFaults THEN {t, file, None} ELSE {t}
    /\ unsaved' = (file' # t)

-----------------------------------------------------------------------------
(* One attempt. *)

\* A usable cache is validated; a file of another account is removed.
Begin ==
    /\ pc = "idle"
    /\ authed' = None
    /\ \/ /\ Resumable
          /\ pc' = "validate" /\ held' = file
          /\ UNCHANGED file
       \/ /\ ~Resumable
          /\ pc' = "login" /\ held' = None
          /\ IF Caching /\ file # None THEN Clear ELSE UNCHANGED file
    /\ unsaved' = FALSE
    /\ UNCHANGED <<account, token_vars>>

\* The attempt returns the token it holds.
Succeed ==
    /\ pc' = "idle" /\ held' = None /\ authed' = held

\* The attempt raises; the retry loop of the bridge makes another one.
Raise ==
    /\ pc' = "idle" /\ held' = None
    /\ UNCHANGED <<authed, file>>

\* The device list comes back: validation, or what follows a refresh or a login.
ListOk ==
    /\ pc \in {"validate", "revalidate", "devices"}
    /\ held \in alive
    /\ Succeed
    /\ UNCHANGED <<account, token_vars, file, unsaved>>

\* Mutant: a validation that fails for any reason is a lapsed token.
ListFails_relogs ==
    /\ pc \in {"validate", "revalidate", "devices"}
    /\ \/ pc # "validate" /\ Raise
       \/ pc = "validate" /\ pc' = "login" /\ held' = None /\ Clear /\ UNCHANGED authed
    /\ UNCHANGED <<account, token_vars, unsaved>>

\* The request fails, or is answered with anything but a rejection.
ListFails ==
    /\ pc \in {"validate", "revalidate", "devices"}
    /\ Raise
    /\ UNCHANGED <<account, token_vars, unsaved>>

\* AuthExpiredError: a cached token goes on to the refresh, a refreshed one is
\* given up, and one that has just been logged in ends the attempt.
ListRejected ==
    /\ held \notin alive
    /\ \/ /\ pc = "validate"
          /\ pc' = "refresh"
          /\ UNCHANGED <<held, authed, file>>
       \/ /\ pc = "revalidate"
          /\ pc' = "login" /\ held' = None
          /\ Clear
          /\ UNCHANGED authed
       \/ pc = "devices" /\ Raise
    /\ UNCHANGED <<account, token_vars, unsaved>>

\* The cloud issues a token to account a.
Issue(a) ==
    /\ issued < MaxTokens
    /\ issued' = issued + 1
    /\ owner' = [owner EXCEPT ![issued'] = a]
    /\ alive' = alive \cup {issued'}
    /\ renewable' \in {renewable, renewable \cup {issued'}}

\* refresh_token merges the answer into the cached response, whose address, or the
\* lack of one, the new token inherits.
InheritTag == untagged' = IF held \in untagged THEN untagged \cup {issued'} ELSE untagged

\* Mutant: a renewed token is used and not saved.
Renewed_unsaved ==
    /\ pc = "refresh" /\ held \in renewable
    /\ Issue(owner[held]) /\ InheritTag
    /\ pc' = "revalidate" /\ held' = issued'
    /\ UNCHANGED <<account, authed, file, unsaved>>

\* One of the URL shapes yields a token.
Renewed ==
    /\ pc = "refresh" /\ held \in renewable
    /\ Issue(owner[held]) /\ InheritTag
    /\ Save(issued')
    /\ pc' = "revalidate" /\ held' = issued'
    /\ UNCHANGED <<account, authed>>

\* RefreshFailedError: there is no refresh token, it is rejected, or no shape
\* got through -- for a network that is down as for an endpoint that is not there.
RefreshFails ==
    /\ pc = "refresh"
    /\ pc' = "login" /\ held' = None
    /\ Clear
    /\ UNCHANGED <<account, token_vars, authed, unsaved>>

\* The response of a login is saved with the address that logged in.
LoggedIn ==
    /\ pc = "login"
    /\ Issue(account)
    /\ Save(issued')
    /\ pc' = "devices" /\ held' = issued'
    /\ UNCHANGED <<account, untagged, authed>>

\* Wrong credentials, no answer, or one without a token.
LoginFails ==
    /\ pc = "login"
    /\ Raise
    /\ UNCHANGED <<account, token_vars, unsaved>>

-----------------------------------------------------------------------------
(* The cloud and the process. *)

Lapse(t) ==
    /\ t \in alive
    /\ alive' = alive \ {t}
    /\ UNCHANGED <<account, owner, untagged, issued, renewable, file, pc, held, authed,
                   unsaved>>

Revoke(t) ==
    /\ t \in renewable
    /\ renewable' = renewable \ {t}
    /\ UNCHANGED <<account, owner, untagged, issued, alive, file, pc, held, authed,
                   unsaved>>

Dies ==
    /\ pc # "dead"
    /\ pc' = "dead" /\ held' = None /\ authed' = None
    /\ UNCHANGED <<account, unsaved>>

Crash == Dies /\ UNCHANGED <<token_vars, file>>

\* Killed while the answer of a login or a refresh is being saved.
CrashInSave ==
    /\ Caching /\ pc \in {"refresh", "login"}
    /\ pc = "refresh" => held \in renewable
    /\ Issue(IF pc = "refresh" THEN owner[held] ELSE account)
    /\ Dies
    /\ file' = None /\ UNCHANGED untagged

\* The container comes back, perhaps with other credentials.
Restart ==
    /\ pc = "dead"
    /\ pc' = "idle"
    /\ account' \in Accounts
    /\ UNCHANGED <<token_vars, file, held, authed, unsaved>>

-----------------------------------------------------------------------------
\* Nothing is cached, or a token of any account that an earlier version of the code
\* or the operator's hand left there without an address.
Init ==
    /\ account \in Accounts
    /\ \E a \in Accounts : owner = [t \in Tokens |-> a]
    /\ issued \in 0 .. 1
    /\ untagged = 1 .. issued /\ file = issued
    /\ alive \in SUBSET (1 .. issued) /\ renewable \in SUBSET (1 .. issued)
    /\ pc = "idle" /\ held = None /\ authed = None
    /\ unsaved = FALSE

Attempt ==
    \/ Begin \/ ListOk \/ ListFails \/ ListRejected
    \/ Renewed \/ RefreshFails \/ LoggedIn \/ LoginFails

Next ==
    \/ Attempt
    \/ \E t \in Tokens : Lapse(t) \/ Revoke(t)
    \/ Crash \/ CrashInSave \/ Restart

Spec == Init /\ [][Next]_vars

-----------------------------------------------------------------------------
(* Properties. *)

\* A login is begun only when the cache holds no token that is taken for this
\* account's and that the cloud still accepts: a request that merely fails never
\* costs one (birdfy_api.py:449-451, 492-496; docs/configuration.md:69).
LoginOnlyWhenUseless ==
    [][pc # "login" /\ pc' = "login" /\ Caching =>
         file = None \/ ~TakenAsMine(file) \/ file \notin alive]_vars

\* A cached token that is taken for this account's and that the cloud accepts stays
\* in the file: what is removed, overwritten, or truncated by a kill in the middle
\* of a save is a token that was of no use any more (birdfy_api.py:175-188, 426,
\* 487-500).
GoodTokenIsKept ==
    [][file # None /\ TakenAsMine(file) /\ file \in alive => file' = file]_vars

\* The bridge works with a token of the account it is configured with, also after
\* restarts with other credentials, unless the cache it resumed named no account:
\* such a token, and every renewal of it, serves whoever is configured
\* (birdfy_api.py:167, 423, 454, 498-500).
SessionIsMine == authed # None => owner[authed] = account \/ authed \in untagged

\* The token a successful attempt returned is the one in the file, so that the
\* next attempt and the next process reuse it, unless the file could not be
\* written: a token that is used and not saved costs a login at the next restart
\* (birdfy_api.py:89-94, 416-427).
ReturnedIsCached == authed # None /\ Caching /\ ~unsaved => file = authed

\* What the properties lean on.
Bookkeeping ==
    /\ held # None => TakenAsMine(held)
    /\ held # None <=> pc \in {"validate", "refresh", "revalidate", "devices"}
    /\ pc \in {"validate", "refresh"} => Caching /\ file = held
    /\ pc = "revalidate" => file \in {held, None} \/ file \notin alive
    /\ pc \in {"revalidate", "devices"} /\ Caching /\ ~unsaved => file = held
    /\ pc = "refresh" => held \notin alive
    /\ authed # None => pc = "idle"
=============================================================================
