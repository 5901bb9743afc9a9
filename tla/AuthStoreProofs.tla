--------------------------- MODULE AuthStoreProofs ---------------------------
(***************************************************************************)
(* Proofs about AuthStore for every set of tokens and any number of calls  *)
(* that overlap.  The three copies of the token are compared one by one:   *)
(* the request that would be sent is right because each copy is the        *)
(* token of the store or missing for a known reason.                       *)
(***************************************************************************)
EXTENDS AuthStore, TLAPS

\* Any set() writes the store's token to localStorage; only the interceptor
\* takes it out behind the store's back, and then the page is left.
SavedCurrent == saved = token \/ (leaving /\ saved = None)

\* The default header is set with the token and forgotten by a reload.
HeaderCurrent == header \in {token, None}

IInv == TypeOK /\ SavedCurrent /\ HeaderCurrent

\* A new tab reads what an earlier visit left.
LEMMA InitInv == Init => IInv
  BY StoreAssumption DEF Init, IInv, TypeOK, Kinds, SavedCurrent, HeaderCurrent

\* An answer that ends a login or a registration ends `loading' as well, any
\* other leaves those calls alone.
LEMMA LoadingKnown ==
  ASSUME IInv, NEW c \in Calls, NEW kind \in Kinds, Receive(c, kind),
         \/ loading' = FALSE
         \/ loading' = loading /\ kind \notin {"login", "register"}
  PROVE  /\ call' \in [Calls -> {"none"} \cup Kinds] /\ loading' \in BOOLEAN
         /\ loading' => \E d \in Calls : call'[d] \in {"login", "register"}
<1>1. call \in [Calls -> {"none"} \cup Kinds] /\ loading \in BOOLEAN
  BY DEF IInv, TypeOK
<1>2. call' = [call EXCEPT ![c] = "none"] /\ call[c] = kind
  BY DEF Receive
<1>3. ASSUME loading' PROVE \E d \in Calls : call'[d] \in {"login", "register"}
  <2>1. loading /\ kind \notin {"login", "register"}
    BY <1>3
  <2>2. PICK d \in Calls : call[d] \in {"login", "register"}
    BY <2>1 DEF IInv, TypeOK
  <2>3. d # c
    BY <1>2, <2>1, <2>2
  <2> QED BY <1>1, <1>2, <2>2, <2>3
<1> QED BY <1>1, <1>2, <1>3

\* A call that is sent disturbs no other.
LEMMA SendKeeps ==
  ASSUME IInv, NEW c \in Calls, NEW kind \in Kinds, Send(c, kind),
         loading' = loading \/ (loading' = TRUE /\ kind \in {"login", "register"})
  PROVE  /\ call' \in [Calls -> {"none"} \cup Kinds] /\ loading' \in BOOLEAN
         /\ loading' => \E d \in Calls : call'[d] \in {"login", "register"}
<1>1. call \in [Calls -> {"none"} \cup Kinds] /\ loading \in BOOLEAN
  BY DEF IInv, TypeOK
<1>2. call' = [call EXCEPT ![c] = kind] /\ call[c] = "none"
  BY DEF Send
<1>3. ASSUME loading' PROVE \E d \in Calls : call'[d] \in {"login", "register"}
  <2>1. CASE kind \in {"login", "register"}
    BY <1>1, <1>2, <2>1
  <2>2. CASE kind \notin {"login", "register"}
    <3>1. PICK d \in Calls : call[d] \in {"login", "register"}
      BY <1>3, <2>2 DEF IInv, TypeOK
    <3>2. d # c
      BY <1>2, <3>1
    <3> QED BY <1>1, <1>2, <3>1, <3>2
  <2> QED BY <2>1, <2>2
<1> QED BY <1>1, <1>2, <1>3

\* The user or a page starts a call.
LEMMA SendInv ==
  ASSUME IInv, NEW c \in Calls,
         \/ \E kind \in {"login", "register"} : Submit(c, kind)
         \/ CheckAuth(c) \/ PageCall(c)
  PROVE  IInv'
<1> USE DEF IInv, SavedCurrent, HeaderCurrent, store
<1>1. ASSUME NEW kind \in {"login", "register"}, Submit(c, kind) PROVE IInv'
  <2>1. TypeOK'
    BY <1>1, SendKeeps DEF TypeOK, Kinds, Submit, SetOther
  <2> QED BY <1>1, <2>1 DEF Submit, SetOther
<1>2. CASE CheckAuth(c)
  BY <1>2, SendKeeps DEF TypeOK, Kinds, CheckAuth
<1>3. CASE PageCall(c)
  BY <1>3, SendKeeps DEF TypeOK, Kinds, PageCall
<1> QED BY <1>1, <1>2, <1>3

\* A call is answered: token, saved and header are set together, or the token is
\* written again, or nothing is touched - except by a 401 of a page's call,
\* which empties localStorage and leaves the page.
LEMMA AnswerInv ==
  ASSUME IInv, NEW c \in Calls, Answer(c)
  PROVE  IInv'
<1> USE DEF IInv, SavedCurrent, HeaderCurrent, store
<1>1. ASSUME NEW t \in Tokens \cup {None}, LoginAnswered(c, t) PROVE IInv'
  BY <1>1, LoadingKnown DEF TypeOK, Kinds, LoginAnswered, SetToken
<1>2. CASE RegisterAnswered(c)
  BY <1>2, LoadingKnown DEF TypeOK, Kinds, RegisterAnswered, SetOther
<1>3. CASE CheckAnswered(c)
  BY <1>3, LoadingKnown DEF TypeOK, Kinds, CheckAnswered, SetOther
<1>4. CASE PageAnswered(c)
  BY <1>4, LoadingKnown DEF TypeOK, Kinds, PageAnswered
<1>5. CASE PageUnauthorized(c)
  BY <1>5, LoadingKnown DEF TypeOK, Kinds, PageUnauthorized, Leave
<1>6. ASSUME NEW unauthorized \in BOOLEAN, SubmitFailed(c, unauthorized)
      PROVE  IInv'
  BY <1>6, LoadingKnown DEF TypeOK, Kinds, SubmitFailed, SetOther, Leave
<1>7. ASSUME NEW unauthorized \in BOOLEAN, CheckFailed(c, unauthorized)
      PROVE  IInv'
  BY <1>7, LoadingKnown DEF TypeOK, Kinds, CheckFailed, SetToken, Leave
<1> QED BY <1>1, <1>2, <1>3, <1>4, <1>5, <1>6, <1>7 DEF Answer

\* A reload reads the saved token, which is the store's or none.
LEMMA ReloadInv ==
  ASSUME IInv, Reload
  PROVE  IInv'
  BY DEF IInv, TypeOK, Kinds, SavedCurrent, HeaderCurrent, Reload

\* No step breaks the invariant.
LEMMA StepInv == IInv /\ [Next]_vars => IInv'
<1> SUFFICES ASSUME IInv, [Next]_vars PROVE IInv'
  OBVIOUS
<1>1. CASE Logout \/ ClearError
  BY <1>1 DEF IInv, TypeOK, SavedCurrent, HeaderCurrent, Logout, ClearError,
              SetToken, SetOther
<1>2. CASE UNCHANGED vars
  BY <1>2 DEF IInv, TypeOK, SavedCurrent, HeaderCurrent, vars, store
<1> QED BY <1>1, <1>2, SendInv, AnswerInv, ReloadInv DEF Next

\* The invariant holds throughout.
THEOREM Invariance == Spec => []IInv
  BY InitInv, StepInv, PTL DEF Spec

\* The state has its types; the flag is on only while an answer is awaited that
\* puts it out.
THEOREM TypeCorrect == Spec => []TypeOK
<1>1. IInv => TypeOK
  BY DEF IInv
<1> QED BY <1>1, Invariance, PTL

\* A request carries the store's token, for any number of overlapping calls.
THEOREM RequestsCarryStoreToken == Spec => []CarriesStoreToken
<1>1. IInv => CarriesStoreToken
  BY DEF IInv, SavedCurrent, HeaderCurrent, CarriesStoreToken, Carried
<1> QED BY <1>1, Invariance, PTL

\* A token gets into the store by the answer to a login and in no other way: no
\* late answer and no reload brings back one that was signed out.
TokenEarned ==
    [][token' \notin {token, None} =>
          \E c \in Calls : LoginAnswered(c, token')]_vars

\* Whatever overlaps, who is signed out stays so until a login is answered.
THEOREM SignedOutStaysOut == Spec => TokenEarned
<1>1. IInv /\ [Next]_vars =>
        [token' \notin {token, None} => \E c \in Calls : LoginAnswered(c, token')]_vars
  <2> SUFFICES ASSUME IInv, Next, token' \notin {token, None}
               PROVE  \E c \in Calls : LoginAnswered(c, token')
    OBVIOUS
  <2>1. CASE Logout \/ ClearError \/ Reload
    BY <2>1 DEF IInv, SavedCurrent, Logout, ClearError, Reload, SetToken, SetOther
  <2>2. ASSUME NEW c \in Calls, NEW kind \in {"login", "register"}, Submit(c, kind)
        PROVE  FALSE
    BY <2>2 DEF Submit, SetOther
  <2>3. ASSUME NEW c \in Calls, CheckAuth(c) \/ PageCall(c) PROVE FALSE
    BY <2>3 DEF CheckAuth, PageCall, store
  <2>4. ASSUME NEW c \in Calls, Answer(c) PROVE \E d \in Calls : LoginAnswered(d, token')
    <3>1. ASSUME NEW t \in Tokens \cup {None}, LoginAnswered(c, t)
          PROVE  \E d \in Calls : LoginAnswered(d, token')
      <4>1. token' = t
        BY <3>1 DEF LoginAnswered, SetToken
      <4> QED BY <3>1, <4>1
    <3>2. CASE RegisterAnswered(c) \/ CheckAnswered(c) \/ PageAnswered(c)
               \/ PageUnauthorized(c)
      BY <3>2 DEF RegisterAnswered, CheckAnswered, PageAnswered, PageUnauthorized,
                  SetOther, store
    <3>3. ASSUME NEW unauthorized \in BOOLEAN,
                 SubmitFailed(c, unauthorized) \/ CheckFailed(c, unauthorized)
          PROVE  FALSE
      BY <3>3 DEF SubmitFailed, CheckFailed, SetOther, SetToken
    <3> QED BY <2>4, <3>1, <3>2, <3>3 DEF Answer
  <2> QED BY <2>1, <2>2, <2>3, <2>4 DEF Next
<1> QED BY <1>1, Invariance, PTL DEF Spec, TokenEarned
=============================================================================
