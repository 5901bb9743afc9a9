------------------------------ MODULE AuthStore ------------------------------
(***************************************************************************)
(* The store of the front end (frontend/src/stores/auth.ts) with the API   *)
(* client it uses (services/api.ts), in one browser tab.                   *)
(*                                                                         *)
(* A token is kept three times: in the store, in localStorage, where the   *)
(* persist middleware writes it with every set(), and in the default       *)
(* headers of axios.  JavaScript runs one handler at a time, with the      *)
(* continuations of its promises; calls that wait for an answer overlap.   *)
(* Left out: user, error and refreshToken, on which nothing here depends.  *)
(***************************************************************************)
CONSTANTS
    Tokens,     \* access tokens a login may answer with
    None,       \* null, undefined, or not there
    Calls       \* HTTP calls waiting for an answer, at most so many at a time

ASSUME StoreAssumption == None \notin Tokens

VARIABLES
    token,      \* AuthState.token
    saved,      \* the token of the item auth-store in localStorage
    header,     \* the token in client.defaults.headers.Authorization
    loading,    \* AuthState.loading
    leaving,    \* window.location is set, the page is about to be left
    call        \* what each call is for

store == <<token, saved, header>>
vars  == <<store, loading, leaving, call>>

Kinds == {"login", "register", "checkAuth", "page"}

\* The types of the state; loading is on only while somebody waits for a login or
\* a registration.
TypeOK ==
    /\ token \in Tokens \cup {None}
    /\ saved \in Tokens \cup {None} /\ header \in Tokens \cup {None}
    /\ loading \in BOOLEAN /\ leaving \in BOOLEAN
    /\ call \in [Calls -> {"none"} \cup Kinds]
    /\ loading => \E c \in Calls : call[c] \in {"login", "register"}

\* A tab is opened; an earlier visit may have left a token.  App calls checkAuth.
Init ==
    /\ saved \in Tokens \cup {None} /\ token = saved /\ header = None
    /\ loading = FALSE /\ leaving = FALSE
    /\ \E first \in Calls :
          call = [c \in Calls |-> IF c = first /\ saved # None THEN "checkAuth"
                                  ELSE "none"]

\* set({ token: t }) and the persist middleware.
SetToken(t) == token' = t /\ saved' = t

\* set() of other fields: the middleware writes the token again.
SetOther == UNCHANGED token /\ saved' = token

Send(c, kind) == call[c] = "none" /\ call' = [call EXCEPT ![c] = kind]
Receive(c, kind) == call[c] = kind /\ call' = [call EXCEPT ![c] = "none"]

\* The response interceptor: status 401 removes auth-store and leaves the page.
Leave(unauthorized) == leaving' = (leaving \/ unauthorized)

-----------------------------------------------------------------------------

\* login and register.
Submit(c, kind) ==
    /\ kind \in {"login", "register"} /\ Send(c, kind)
    /\ loading' = TRUE /\ SetOther
    /\ UNCHANGED <<header, leaving>>

\* Mistake (Next does not use it): an answer without tokens leaves the old
\* header.
LoginKeepingHeader(c, t) ==
    /\ Receive(c, "login")
    /\ loading' = FALSE /\ SetToken(t) /\ header' = (IF t = None THEN header ELSE t)
    /\ UNCHANGED leaving

\* The answer to a login: the serverless API sends tokens, the Go server none.
\* setAuthToken of undefined deletes the header.
LoginAnswered(c, t) ==
    /\ Receive(c, "login")
    /\ loading' = FALSE /\ SetToken(t) /\ header' = t
    /\ UNCHANGED leaving

RegisterAnswered(c) ==
    /\ Receive(c, "register")
    /\ loading' = FALSE /\ SetOther
    /\ UNCHANGED <<header, leaving>>

\* Mistake: an error leaves the flag.
FailedLoading(c, unauthorized) ==
    /\ \E kind \in {"login", "register"} : Receive(c, kind)
    /\ SetOther /\ Leave(unauthorized)
    /\ UNCHANGED <<header, loading>>

\* A login or a registration fails, or times out after 30 s; set() brings the
\* item back that the interceptor removed.
SubmitFailed(c, unauthorized) ==
    /\ \E kind \in {"login", "register"} : Receive(c, kind)
    /\ loading' = FALSE /\ SetOther /\ Leave(unauthorized)
    /\ UNCHANGED header

CheckAuth(c) ==
    /\ token # None /\ Send(c, "checkAuth")
    /\ UNCHANGED <<store, loading, leaving>>

CheckAnswered(c) ==
    /\ Receive(c, "checkAuth") /\ SetOther
    /\ UNCHANGED <<header, loading, leaving>>

\* Any error ends the sign-in, whichever token the store holds by now.
CheckFailed(c, unauthorized) ==
    /\ Receive(c, "checkAuth")
    /\ SetToken(None) /\ header' = None /\ Leave(unauthorized)
    /\ UNCHANGED loading

\* Calls of the pages have no handler in the store.
PageCall(c) ==
    /\ Send(c, "page")
    /\ UNCHANGED <<store, loading, leaving>>

PageAnswered(c) ==
    /\ Receive(c, "page")
    /\ UNCHANGED <<store, loading, leaving>>

PageUnauthorized(c) ==
    /\ Receive(c, "page")
    /\ saved' = None /\ Leave(TRUE)
    /\ UNCHANGED <<token, header, loading>>

Logout ==
    /\ SetToken(None) /\ header' = None
    /\ UNCHANGED <<loading, leaving, call>>

\* clearError is a set() as well.
ClearError ==
    /\ SetOther
    /\ UNCHANGED <<header, loading, leaving, call>>

\* The page is loaded again, because it was left or by the user: the store is
\* read from localStorage, calls are forgotten, App calls checkAuth.
Reload ==
    /\ token' = saved /\ header' = None /\ UNCHANGED saved
    /\ loading' = FALSE /\ leaving' = FALSE
    /\ \E first \in Calls :
          call' = [c \in Calls |-> IF c = first /\ saved # None THEN "checkAuth"
                                   ELSE "none"]

\* A call ends: the server answers or axios gives up.
Answer(c) ==
    \/ \E t \in Tokens \cup {None} : LoginAnswered(c, t)
    \/ RegisterAnswered(c) \/ CheckAnswered(c) \/ PageAnswered(c)
    \/ PageUnauthorized(c)
    \/ \E unauthorized \in BOOLEAN :
          SubmitFailed(c, unauthorized) \/ CheckFailed(c, unauthorized)

Next ==
    \/ \E c \in Calls : \/ \E kind \in {"login", "register"} : Submit(c, kind)
                        \/ CheckAuth(c) \/ PageCall(c) \/ Answer(c)
    \/ Logout \/ ClearError \/ Reload

Spec == Init /\ [][Next]_vars /\ \A c \in Calls : WF_vars(Answer(c))

-----------------------------------------------------------------------------
(* What must hold.                                                         *)

\* What the request interceptor and the defaults of axios put into a request.
Carried == IF saved # None THEN saved ELSE header

\* A request carries the token of the store, in whatever order the answers of
\* overlapping calls came: after a logout or a failed check it carries none, and
\* never one from before.  Only while the page is being left may it carry none.
CarriesStoreToken == Carried = token \/ (leaving /\ Carried = None)

\* The flag that greys out the forms goes out again, however calls overlap,
\* fail or are forgotten.
LoadingSettles == loading ~> ~loading
=============================================================================
