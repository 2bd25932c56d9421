------------------------ MODULE RefreshSessionsProofs ------------------------
(***************************************************************************)
(* For any sets of tokens, users and requests, IndInv is an invariant of   *)
(* RefreshSessions, and the refresh_sessions table implements              *)
(* SessionLifecycle.                                                       *)
(***************************************************************************)
EXTENDS RefreshSessions, TLAPS

(* The row issueTokens inserts for a fresh token keeps the invariant.      *)
LEMMA LoginPreserves ==
    ASSUME IndInv, NEW r \in Requests, NEW u \in Users, NEW t \in Tokens,
           NEW a \in {"ok", "error"}, Login(r, u, t, a)
    PROVE  IndInv'
<1>1. TypeOK'
  BY NullAssumption DEF IndInv, TypeOK, PC, Answers, InTransaction, Login, Answer, rows, locals
<1>2. LockDiscipline'
  BY NullAssumption DEF IndInv, TypeOK, LockDiscipline, NewTokenFresh, RotationSound, RevokeSound, InTransaction, Login, Answer, rows, locals
<1>3. RowsConsistent'
  BY NullAssumption DEF IndInv, TypeOK, RowsConsistent, NewTokenFresh, RotationSound, RevokeSound, Live, InTransaction, Login, Answer, rows, locals
<1>4. NewTokenFresh'
  BY NullAssumption DEF IndInv, TypeOK, NewTokenFresh, RowsConsistent, RevokeSound, Live, InTransaction, Login, Answer, rows, locals
<1>5. RotationSound'
  BY NullAssumption DEF IndInv, TypeOK, RotationSound, LockDiscipline, RowsConsistent, NewTokenFresh, RevokeSound, Live, InTransaction, Login, Answer, rows, locals
<1>6. RevokeSound'
  BY NullAssumption DEF IndInv, TypeOK, RevokeSound, LockDiscipline, RowsConsistent, NewTokenFresh, RotationSound, Live, InTransaction, Login, Answer, rows, locals
<1>7. OneLiveSessionPerLogin'
  BY NullAssumption DEF IndInv, TypeOK, OneLiveSessionPerLogin, LockDiscipline, RowsConsistent, NewTokenFresh, RotationSound, Live, InTransaction, Login, Answer, rows, locals
<1>8. LogoutRevokesWhatItSaw'
  BY NullAssumption DEF IndInv, TypeOK, LogoutRevokesWhatItSaw, RevokeSound, RotationSound, Live, InTransaction, Login, Answer, rows, locals
<1> QED  BY <1>1, <1>2, <1>3, <1>4, <1>5, <1>6, <1>7, <1>8 DEF IndInv

(* The token drawn by Refresh keeps the invariant.                         *)
LEMMA RefreshBeginPreserves ==
    ASSUME IndInv, NEW r \in Requests, NEW o \in Tokens, NEW n \in Tokens,
           RefreshBegin(r, o, n)
    PROVE  IndInv'
<1>1. TypeOK'
  BY NullAssumption DEF IndInv, TypeOK, PC, Answers, InTransaction, RefreshBegin, Goto, rows, locals
<1>2. LockDiscipline'
  BY NullAssumption DEF IndInv, TypeOK, LockDiscipline, NewTokenFresh, RotationSound, RevokeSound, InTransaction, RefreshBegin, Goto, rows, locals
<1>3. RowsConsistent'
  BY NullAssumption DEF IndInv, TypeOK, RowsConsistent, NewTokenFresh, RotationSound, RevokeSound, Live, InTransaction, RefreshBegin, Goto, rows, locals
<1>4. NewTokenFresh'
  BY NullAssumption DEF IndInv, TypeOK, NewTokenFresh, RowsConsistent, RevokeSound, Live, InTransaction, RefreshBegin, Goto, rows, locals
<1>5. RotationSound'
  BY NullAssumption DEF IndInv, TypeOK, RotationSound, LockDiscipline, RowsConsistent, NewTokenFresh, RevokeSound, Live, InTransaction, RefreshBegin, Goto, rows, locals
<1>6. RevokeSound'
  BY NullAssumption DEF IndInv, TypeOK, RevokeSound, LockDiscipline, RowsConsistent, NewTokenFresh, RotationSound, Live, InTransaction, RefreshBegin, Goto, rows, locals
<1>7. OneLiveSessionPerLogin'
  BY NullAssumption DEF IndInv, TypeOK, OneLiveSessionPerLogin, LockDiscipline, RowsConsistent, NewTokenFresh, RotationSound, Live, InTransaction, RefreshBegin, Goto, rows, locals
<1>8. LogoutRevokesWhatItSaw'
  BY NullAssumption DEF IndInv, TypeOK, LogoutRevokesWhatItSaw, RevokeSound, RotationSound, Live, InTransaction, RefreshBegin, Goto, rows, locals
<1> QED  BY <1>1, <1>2, <1>3, <1>4, <1>5, <1>6, <1>7, <1>8 DEF IndInv

(* The SELECT FOR UPDATE of a rotation keeps the invariant.                *)
LEMMA SelectForUpdatePreserves ==
    ASSUME IndInv, NEW r \in Requests, SelectForUpdate(r)
    PROVE  IndInv'
<1>1. TypeOK'
  BY NullAssumption DEF IndInv, TypeOK, PC, Answers, InTransaction, Live, SelectForUpdate, Answer, Goto, Free, rows, locals
<1>2. LockDiscipline'
  BY NullAssumption DEF IndInv, TypeOK, LockDiscipline, NewTokenFresh, RotationSound, RevokeSound, InTransaction, Live, SelectForUpdate, Answer, Goto, Free, rows, locals
<1>3. RowsConsistent'
  BY NullAssumption DEF IndInv, TypeOK, RowsConsistent, NewTokenFresh, RotationSound, RevokeSound, Live, InTransaction, SelectForUpdate, Answer, Goto, Free, rows, locals
<1>4. NewTokenFresh'
  BY NullAssumption DEF IndInv, TypeOK, NewTokenFresh, RowsConsistent, RevokeSound, Live, InTransaction, SelectForUpdate, Answer, Goto, Free, rows, locals
<1>5. RotationSound'
  BY NullAssumption DEF IndInv, TypeOK, RotationSound, LockDiscipline, RowsConsistent, NewTokenFresh, RevokeSound, Live, InTransaction, SelectForUpdate, Answer, Goto, Free, rows, locals
<1>6. RevokeSound'
  BY NullAssumption DEF IndInv, TypeOK, RevokeSound, LockDiscipline, RowsConsistent, NewTokenFresh, RotationSound, Live, InTransaction, SelectForUpdate, Answer, Goto, Free, rows, locals
<1>7. OneLiveSessionPerLogin'
  BY NullAssumption DEF IndInv, TypeOK, OneLiveSessionPerLogin, LockDiscipline, RowsConsistent, NewTokenFresh, RotationSound, Live, InTransaction, SelectForUpdate, Answer, Goto, Free, rows, locals
<1>8. LogoutRevokesWhatItSaw'
  BY NullAssumption DEF IndInv, TypeOK, LogoutRevokesWhatItSaw, RevokeSound, RotationSound, Live, InTransaction, SelectForUpdate, Answer, Goto, Free, rows, locals
<1> QED  BY <1>1, <1>2, <1>3, <1>4, <1>5, <1>6, <1>7, <1>8 DEF IndInv

(* The uncommitted INSERT of a rotation keeps the invariant.               *)
LEMMA InsertNewPreserves ==
    ASSUME IndInv, NEW r \in Requests, InsertNew(r)
    PROVE  IndInv'
<1>1. TypeOK'
  BY NullAssumption DEF IndInv, TypeOK, PC, Answers, InTransaction, InsertNew, Goto, rows, locals
<1>2. LockDiscipline'
  BY NullAssumption DEF IndInv, TypeOK, LockDiscipline, NewTokenFresh, RotationSound, RevokeSound, InTransaction, InsertNew, Goto, rows, locals
<1>3. RowsConsistent'
  BY NullAssumption DEF IndInv, TypeOK, RowsConsistent, NewTokenFresh, RotationSound, RevokeSound, Live, InTransaction, InsertNew, Goto, rows, locals
<1>4. NewTokenFresh'
  BY NullAssumption DEF IndInv, TypeOK, NewTokenFresh, RowsConsistent, RevokeSound, Live, InTransaction, InsertNew, Goto, rows, locals
<1>5. RotationSound'
  BY NullAssumption DEF IndInv, TypeOK, RotationSound, LockDiscipline, RowsConsistent, NewTokenFresh, RevokeSound, Live, InTransaction, InsertNew, Goto, rows, locals
<1>6. RevokeSound'
  BY NullAssumption DEF IndInv, TypeOK, RevokeSound, LockDiscipline, RowsConsistent, NewTokenFresh, RotationSound, Live, InTransaction, InsertNew, Goto, rows, locals
<1>7. OneLiveSessionPerLogin'
  BY NullAssumption DEF IndInv, TypeOK, OneLiveSessionPerLogin, LockDiscipline, RowsConsistent, NewTokenFresh, RotationSound, Live, InTransaction, InsertNew, Goto, rows, locals
<1>8. LogoutRevokesWhatItSaw'
  BY NullAssumption DEF IndInv, TypeOK, LogoutRevokesWhatItSaw, RevokeSound, RotationSound, Live, InTransaction, InsertNew, Goto, rows, locals
<1> QED  BY <1>1, <1>2, <1>3, <1>4, <1>5, <1>6, <1>7, <1>8 DEF IndInv

(* The uncommitted UPDATE of a rotation keeps the invariant.               *)
LEMMA UpdateOldPreserves ==
    ASSUME IndInv, NEW r \in Requests, UpdateOld(r)
    PROVE  IndInv'
<1>1. TypeOK'
  BY NullAssumption DEF IndInv, TypeOK, NewTokenFresh, PC, Answers, InTransaction, UpdateOld, Goto, rows, locals
<1>2. LockDiscipline'
  BY NullAssumption DEF IndInv, TypeOK, LockDiscipline, NewTokenFresh, RotationSound, RevokeSound, InTransaction, UpdateOld, Goto, rows, locals
<1>3. RowsConsistent'
  BY NullAssumption DEF IndInv, TypeOK, RowsConsistent, NewTokenFresh, RotationSound, RevokeSound, Live, InTransaction, UpdateOld, Goto, rows, locals
<1>4. NewTokenFresh'
  BY NullAssumption DEF IndInv, TypeOK, NewTokenFresh, RowsConsistent, RevokeSound, Live, InTransaction, UpdateOld, Goto, rows, locals
<1>5. RotationSound'
  BY NullAssumption DEF IndInv, TypeOK, RotationSound, LockDiscipline, RowsConsistent, NewTokenFresh, RevokeSound, Live, InTransaction, UpdateOld, Goto, rows, locals
<1>6. RevokeSound'
  BY NullAssumption DEF IndInv, TypeOK, RevokeSound, LockDiscipline, RowsConsistent, NewTokenFresh, RotationSound, Live, InTransaction, UpdateOld, Goto, rows, locals
<1>7. OneLiveSessionPerLogin'
  BY NullAssumption DEF IndInv, TypeOK, OneLiveSessionPerLogin, LockDiscipline, RowsConsistent, NewTokenFresh, RotationSound, Live, InTransaction, UpdateOld, Goto, rows, locals
<1>8. LogoutRevokesWhatItSaw'
  BY NullAssumption DEF IndInv, TypeOK, LogoutRevokesWhatItSaw, RevokeSound, RotationSound, Live, InTransaction, UpdateOld, Goto, rows, locals
<1> QED  BY <1>1, <1>2, <1>3, <1>4, <1>5, <1>6, <1>7, <1>8 DEF IndInv

(* The commit of a rotation keeps the invariant.                           *)
LEMMA CommitRotationPreserves ==
    ASSUME IndInv, NEW r \in Requests, CommitRotation(r)
    PROVE  IndInv'
<1>1. TypeOK'
  BY NullAssumption DEF IndInv, TypeOK, NewTokenFresh, RotationSound, PC, Answers, InTransaction, CommitRotation, Goto, Unlock, rows, locals
<1>2. LockDiscipline'
  BY NullAssumption DEF IndInv, TypeOK, LockDiscipline, NewTokenFresh, RotationSound, RevokeSound, InTransaction, CommitRotation, Goto, Unlock, rows, locals
<1>3. RowsConsistent'
  BY NullAssumption DEF IndInv, TypeOK, RowsConsistent, NewTokenFresh, RotationSound, RevokeSound, Live, InTransaction, CommitRotation, Goto, Unlock, rows, locals
<1>4. NewTokenFresh'
  BY NullAssumption DEF IndInv, TypeOK, NewTokenFresh, RowsConsistent, RevokeSound, Live, InTransaction, CommitRotation, Goto, Unlock, rows, locals
<1>5. RotationSound'
  BY NullAssumption DEF IndInv, TypeOK, RotationSound, LockDiscipline, RowsConsistent, NewTokenFresh, RevokeSound, Live, InTransaction, CommitRotation, Goto, Unlock, rows, locals
<1>6. RevokeSound'
  BY NullAssumption DEF IndInv, TypeOK, RevokeSound, LockDiscipline, RowsConsistent, NewTokenFresh, RotationSound, Live, InTransaction, CommitRotation, Goto, Unlock, rows, locals
<1>7. OneLiveSessionPerLogin'
  BY NullAssumption DEF IndInv, TypeOK, OneLiveSessionPerLogin, LockDiscipline, RowsConsistent, NewTokenFresh, RotationSound, Live, InTransaction, CommitRotation, Goto, Unlock, rows, locals
<1>8. LogoutRevokesWhatItSaw'
  BY NullAssumption DEF IndInv, TypeOK, LogoutRevokesWhatItSaw, RevokeSound, RotationSound, Live, InTransaction, CommitRotation, Goto, Unlock, rows, locals
<1> QED  BY <1>1, <1>2, <1>3, <1>4, <1>5, <1>6, <1>7, <1>8 DEF IndInv

(* The answer to a Refresh keeps the invariant.                            *)
LEMMA RefreshRespondPreserves ==
    ASSUME IndInv, NEW r \in Requests, NEW a \in {"ok", "error"}, RefreshRespond(r, a)
    PROVE  IndInv'
<1>1. TypeOK'
  BY NullAssumption DEF IndInv, TypeOK, PC, Answers, InTransaction, RefreshRespond, Answer, rows, locals
<1>2. LockDiscipline'
  BY NullAssumption DEF IndInv, TypeOK, LockDiscipline, NewTokenFresh, RotationSound, RevokeSound, InTransaction, RefreshRespond, Answer, rows, locals
<1>3. RowsConsistent'
  BY NullAssumption DEF IndInv, TypeOK, RowsConsistent, NewTokenFresh, RotationSound, RevokeSound, Live, InTransaction, RefreshRespond, Answer, rows, locals
<1>4. NewTokenFresh'
  BY NullAssumption DEF IndInv, TypeOK, NewTokenFresh, RowsConsistent, RevokeSound, Live, InTransaction, RefreshRespond, Answer, rows, locals
<1>5. RotationSound'
  BY NullAssumption DEF IndInv, TypeOK, RotationSound, LockDiscipline, RowsConsistent, NewTokenFresh, RevokeSound, Live, InTransaction, RefreshRespond, Answer, rows, locals
<1>6. RevokeSound'
  BY NullAssumption DEF IndInv, TypeOK, RevokeSound, LockDiscipline, RowsConsistent, NewTokenFresh, RotationSound, Live, InTransaction, RefreshRespond, Answer, rows, locals
<1>7. OneLiveSessionPerLogin'
  BY NullAssumption DEF IndInv, TypeOK, OneLiveSessionPerLogin, LockDiscipline, RowsConsistent, NewTokenFresh, RotationSound, Live, InTransaction, RefreshRespond, Answer, rows, locals
<1>8. LogoutRevokesWhatItSaw'
  BY NullAssumption DEF IndInv, TypeOK, LogoutRevokesWhatItSaw, RevokeSound, RotationSound, Live, InTransaction, RefreshRespond, Answer, rows, locals
<1> QED  BY <1>1, <1>2, <1>3, <1>4, <1>5, <1>6, <1>7, <1>8 DEF IndInv

(* The snapshot of the UPDATE of Logout keeps the invariant.               *)
LEMMA LogoutPreserves ==
    ASSUME IndInv, NEW r \in Requests, NEW t \in Tokens, Logout(r, t)
    PROVE  IndInv'
<1>1. TypeOK'
  BY NullAssumption DEF IndInv, TypeOK, PC, Answers, InTransaction, Live, Logout, BeginRevoke, Goto, rows, locals
<1>2. LockDiscipline'
  BY NullAssumption DEF IndInv, TypeOK, LockDiscipline, NewTokenFresh, RotationSound, RevokeSound, InTransaction, Live, Logout, BeginRevoke, Goto, rows, locals
<1>3. RowsConsistent'
  BY NullAssumption DEF IndInv, TypeOK, RowsConsistent, NewTokenFresh, RotationSound, RevokeSound, Live, InTransaction, Logout, BeginRevoke, Goto, rows, locals
<1>4. NewTokenFresh'
  BY NullAssumption DEF IndInv, TypeOK, NewTokenFresh, RowsConsistent, RevokeSound, Live, InTransaction, Logout, BeginRevoke, Goto, rows, locals
<1>5. RotationSound'
  BY NullAssumption DEF IndInv, TypeOK, RotationSound, LockDiscipline, RowsConsistent, NewTokenFresh, RevokeSound, Live, InTransaction, Logout, BeginRevoke, Goto, rows, locals
<1>6. RevokeSound'
  BY NullAssumption DEF IndInv, TypeOK, RevokeSound, LockDiscipline, RowsConsistent, NewTokenFresh, RotationSound, Live, InTransaction, Logout, BeginRevoke, Goto, rows, locals
<1>7. OneLiveSessionPerLogin'
  BY NullAssumption DEF IndInv, TypeOK, OneLiveSessionPerLogin, LockDiscipline, RowsConsistent, NewTokenFresh, RotationSound, Live, InTransaction, Logout, BeginRevoke, Goto, rows, locals
<1>8. LogoutRevokesWhatItSaw'
  BY NullAssumption DEF IndInv, TypeOK, LogoutRevokesWhatItSaw, RevokeSound, RotationSound, Live, InTransaction, Logout, BeginRevoke, Goto, rows, locals
<1> QED  BY <1>1, <1>2, <1>3, <1>4, <1>5, <1>6, <1>7, <1>8 DEF IndInv

(* The snapshot of the UPDATE of LogoutAll keeps the invariant.            *)
LEMMA LogoutAllPreserves ==
    ASSUME IndInv, NEW r \in Requests, NEW u \in Users, LogoutAll(r, u)
    PROVE  IndInv'
<1>1. TypeOK'
  BY NullAssumption DEF IndInv, TypeOK, PC, Answers, InTransaction, Live, LogoutAll, BeginRevoke, Goto, rows, locals
<1>2. LockDiscipline'
  BY NullAssumption DEF IndInv, TypeOK, LockDiscipline, NewTokenFresh, RotationSound, RevokeSound, InTransaction, Live, LogoutAll, BeginRevoke, Goto, rows, locals
<1>3. RowsConsistent'
  BY NullAssumption DEF IndInv, TypeOK, RowsConsistent, NewTokenFresh, RotationSound, RevokeSound, Live, InTransaction, LogoutAll, BeginRevoke, Goto, rows, locals
<1>4. NewTokenFresh'
  BY NullAssumption DEF IndInv, TypeOK, NewTokenFresh, RowsConsistent, RevokeSound, Live, InTransaction, LogoutAll, BeginRevoke, Goto, rows, locals
<1>5. RotationSound'
  BY NullAssumption DEF IndInv, TypeOK, RotationSound, LockDiscipline, RowsConsistent, NewTokenFresh, RevokeSound, Live, InTransaction, LogoutAll, BeginRevoke, Goto, rows, locals
<1>6. RevokeSound'
  BY NullAssumption DEF IndInv, TypeOK, RevokeSound, LockDiscipline, RowsConsistent, NewTokenFresh, RotationSound, Live, InTransaction, LogoutAll, BeginRevoke, Goto, rows, locals
<1>7. OneLiveSessionPerLogin'
  BY NullAssumption DEF IndInv, TypeOK, OneLiveSessionPerLogin, LockDiscipline, RowsConsistent, NewTokenFresh, RotationSound, Live, InTransaction, LogoutAll, BeginRevoke, Goto, rows, locals
<1>8. LogoutRevokesWhatItSaw'
  BY NullAssumption DEF IndInv, TypeOK, LogoutRevokesWhatItSaw, RevokeSound, RotationSound, Live, InTransaction, LogoutAll, BeginRevoke, Goto, rows, locals
<1> QED  BY <1>1, <1>2, <1>3, <1>4, <1>5, <1>6, <1>7, <1>8 DEF IndInv

(* A row visited by the UPDATE of a logout keeps the invariant.            *)
LEMMA RevokeRowPreserves ==
    ASSUME IndInv, NEW r \in Requests, NEW t \in Tokens, RevokeRow(r, t)
    PROVE  IndInv'
<1>1. TypeOK'
  BY NullAssumption DEF IndInv, TypeOK, PC, Answers, InTransaction, RevokeRow, Free, rows, locals
<1>2. LockDiscipline'
  BY NullAssumption DEF IndInv, TypeOK, LockDiscipline, NewTokenFresh, RotationSound, RevokeSound, InTransaction, RevokeRow, Free, rows, locals
<1>3. RowsConsistent'
  BY NullAssumption DEF IndInv, TypeOK, RowsConsistent, NewTokenFresh, RotationSound, RevokeSound, Live, InTransaction, RevokeRow, Free, rows, locals
<1>4. NewTokenFresh'
  BY NullAssumption DEF IndInv, TypeOK, NewTokenFresh, RowsConsistent, RevokeSound, Live, InTransaction, RevokeRow, Free, rows, locals
<1>5. RotationSound'
  BY NullAssumption DEF IndInv, TypeOK, RotationSound, LockDiscipline, RowsConsistent, NewTokenFresh, RevokeSound, Live, InTransaction, RevokeRow, Free, rows, locals
<1>6. RevokeSound'
  <2>1. pc' = pc /\ resp' = resp /\ old' = old /\ new' = new /\ snap' = snap /\ owner' = owner /\ revoked' = revoked
    BY DEF RevokeRow, rows, locals
  <2>2. ASSUME NEW q \in Requests, pc[q] = "revoking"
        PROVE  snap[q] \subseteq todo'[q] \cup marked'[q] \cup revoked
    <3>1. snap[q] \subseteq todo[q] \cup marked[q] \cup revoked
      BY <2>2 DEF IndInv, RevokeSound
    <3>2. CASE q = r
      BY <3>1, <3>2 DEF IndInv, TypeOK, RevokeRow
    <3>3. CASE q # r
      BY <3>1, <3>3 DEF IndInv, TypeOK, RevokeRow
    <3> QED  BY <3>2, <3>3
  <2>3. ASSUME NEW q \in Requests, pc[q] = "revoking"
        PROVE  /\ \A x \in todo'[q] : owner[x] # NoUser
               /\ \A x \in marked'[q] : Live(x)
    <3>0. todo'[q] \subseteq todo[q]
      BY DEF IndInv, TypeOK, RevokeRow
    <3>1. \A x \in marked'[q] : x \in marked[q] \/ (q = r /\ x = t /\ t \notin revoked)
      <4>1. CASE t \in revoked
        BY <4>1 DEF RevokeRow
      <4>2. CASE t \notin revoked
        <5>1. marked' = [marked EXCEPT ![r] = marked[r] \cup {t}]
          BY <4>2 DEF RevokeRow
        <5> QED  BY <4>2, <5>1 DEF IndInv, TypeOK
      <4> QED  BY <4>1, <4>2
    <3>2. /\ \A x \in todo[q] : owner[x] # NoUser
          /\ \A x \in marked[q] : Live(x)
      BY <2>3 DEF IndInv, RevokeSound
    <3>3. q = r => t \in todo[q]
      BY DEF RevokeRow
    <3> QED  BY <3>0, <3>1, <3>2, <3>3 DEF Live
  <2> QED  BY <2>1, <2>2, <2>3 DEF IndInv, RevokeSound, Live
<1>7. OneLiveSessionPerLogin'
  BY NullAssumption DEF IndInv, TypeOK, OneLiveSessionPerLogin, LockDiscipline, RowsConsistent, NewTokenFresh, RotationSound, Live, InTransaction, RevokeRow, Free, rows, locals
<1>8. LogoutRevokesWhatItSaw'
  BY NullAssumption DEF IndInv, TypeOK, LogoutRevokesWhatItSaw, RevokeSound, RotationSound, Live, InTransaction, RevokeRow, Free, rows, locals
<1> QED  BY <1>1, <1>2, <1>3, <1>4, <1>5, <1>6, <1>7, <1>8 DEF IndInv

(* The commit of a logout keeps the invariant.                             *)
LEMMA CommitRevokePreserves ==
    ASSUME IndInv, NEW r \in Requests, NEW a \in {"ok", "error"}, CommitRevoke(r, a)
    PROVE  IndInv'
<1>1. TypeOK'
  BY NullAssumption DEF IndInv, TypeOK, PC, Answers, InTransaction, CommitRevoke, Answer, Unlock, rows, locals
<1>2. LockDiscipline'
  BY NullAssumption DEF IndInv, TypeOK, LockDiscipline, NewTokenFresh, RotationSound, RevokeSound, InTransaction, CommitRevoke, Answer, Unlock, rows, locals
<1>3. RowsConsistent'
  BY NullAssumption DEF IndInv, TypeOK, RowsConsistent, NewTokenFresh, RotationSound, RevokeSound, Live, InTransaction, CommitRevoke, Answer, Unlock, rows, locals
<1>4. NewTokenFresh'
  BY NullAssumption DEF IndInv, TypeOK, NewTokenFresh, RowsConsistent, RevokeSound, Live, InTransaction, CommitRevoke, Answer, Unlock, rows, locals
<1>5. RotationSound'
  BY NullAssumption DEF IndInv, TypeOK, RotationSound, LockDiscipline, RowsConsistent, NewTokenFresh, RevokeSound, Live, InTransaction, CommitRevoke, Answer, Unlock, rows, locals
<1>6. RevokeSound'
  BY NullAssumption DEF IndInv, TypeOK, RevokeSound, LockDiscipline, RowsConsistent, NewTokenFresh, RotationSound, Live, InTransaction, CommitRevoke, Answer, Unlock, rows, locals
<1>7. OneLiveSessionPerLogin'
  BY NullAssumption DEF IndInv, TypeOK, OneLiveSessionPerLogin, LockDiscipline, RowsConsistent, NewTokenFresh, RotationSound, Live, InTransaction, CommitRevoke, Answer, Unlock, rows, locals
<1>8. LogoutRevokesWhatItSaw'
  BY NullAssumption DEF IndInv, TypeOK, LogoutRevokesWhatItSaw, RevokeSound, RotationSound, Live, InTransaction, CommitRevoke, Answer, Unlock, rows, locals
<1> QED  BY <1>1, <1>2, <1>3, <1>4, <1>5, <1>6, <1>7, <1>8 DEF IndInv

(* A rollback keeps the invariant.                                         *)
LEMMA AbortPreserves ==
    ASSUME IndInv, NEW r \in Requests, Abort(r)
    PROVE  IndInv'
<1>1. TypeOK'
  BY NullAssumption DEF IndInv, TypeOK, PC, Answers, InTransaction, Abort, Answer, Unlock, rows, locals
<1>2. LockDiscipline'
  BY NullAssumption DEF IndInv, TypeOK, LockDiscipline, NewTokenFresh, RotationSound, RevokeSound, InTransaction, Abort, Answer, Unlock, rows, locals
<1>3. RowsConsistent'
  BY NullAssumption DEF IndInv, TypeOK, RowsConsistent, NewTokenFresh, RotationSound, RevokeSound, Live, InTransaction, Abort, Answer, Unlock, rows, locals
<1>4. NewTokenFresh'
  BY NullAssumption DEF IndInv, TypeOK, NewTokenFresh, RowsConsistent, RevokeSound, Live, InTransaction, Abort, Answer, Unlock, rows, locals
<1>5. RotationSound'
  BY NullAssumption DEF IndInv, TypeOK, RotationSound, LockDiscipline, RowsConsistent, NewTokenFresh, RevokeSound, Live, InTransaction, Abort, Answer, Unlock, rows, locals
<1>6. RevokeSound'
  BY NullAssumption DEF IndInv, TypeOK, RevokeSound, LockDiscipline, RowsConsistent, NewTokenFresh, RotationSound, Live, InTransaction, Abort, Answer, Unlock, rows, locals
<1>7. OneLiveSessionPerLogin'
  BY NullAssumption DEF IndInv, TypeOK, OneLiveSessionPerLogin, LockDiscipline, RowsConsistent, NewTokenFresh, RotationSound, Live, InTransaction, Abort, Answer, Unlock, rows, locals
<1>8. LogoutRevokesWhatItSaw'
  BY NullAssumption DEF IndInv, TypeOK, LogoutRevokesWhatItSaw, RevokeSound, RotationSound, Live, InTransaction, Abort, Answer, Unlock, rows, locals
<1> QED  BY <1>1, <1>2, <1>3, <1>4, <1>5, <1>6, <1>7, <1>8 DEF IndInv

(* The expiry of a row keeps the invariant.                                *)
LEMMA ExpirePreserves ==
    ASSUME IndInv, NEW t \in Tokens, Expire(t)
    PROVE  IndInv'
<1>1. TypeOK'
  BY NullAssumption DEF IndInv, TypeOK, PC, Answers, InTransaction, Expire, rows, locals
<1>2. LockDiscipline'
  BY NullAssumption DEF IndInv, TypeOK, LockDiscipline, NewTokenFresh, RotationSound, RevokeSound, InTransaction, Expire, rows, locals
<1>3. RowsConsistent'
  BY NullAssumption DEF IndInv, TypeOK, RowsConsistent, NewTokenFresh, RotationSound, RevokeSound, Live, InTransaction, Expire, rows, locals
<1>4. NewTokenFresh'
  BY NullAssumption DEF IndInv, TypeOK, NewTokenFresh, RowsConsistent, RevokeSound, Live, InTransaction, Expire, rows, locals
<1>5. RotationSound'
  BY NullAssumption DEF IndInv, TypeOK, RotationSound, LockDiscipline, RowsConsistent, NewTokenFresh, RevokeSound, Live, InTransaction, Expire, rows, locals
<1>6. RevokeSound'
  BY NullAssumption DEF IndInv, TypeOK, RevokeSound, LockDiscipline, RowsConsistent, NewTokenFresh, RotationSound, Live, InTransaction, Expire, rows, locals
<1>7. OneLiveSessionPerLogin'
  BY NullAssumption DEF IndInv, TypeOK, OneLiveSessionPerLogin, LockDiscipline, RowsConsistent, NewTokenFresh, RotationSound, Live, InTransaction, Expire, rows, locals
<1>8. LogoutRevokesWhatItSaw'
  BY NullAssumption DEF IndInv, TypeOK, LogoutRevokesWhatItSaw, RevokeSound, RotationSound, Live, InTransaction, Expire, rows, locals
<1> QED  BY <1>1, <1>2, <1>3, <1>4, <1>5, <1>6, <1>7, <1>8 DEF IndInv

-----------------------------------------------------------------------------
(* The empty table and idle requests satisfy the invariant.                *)
LEMMA InitEstablishes == Init => IndInv
<1> SUFFICES ASSUME Init PROVE IndInv
  OBVIOUS
<1>1. TypeOK
  BY DEF Init, TypeOK, PC, Answers
<1>2. LockDiscipline
  BY NullAssumption DEF Init, LockDiscipline, InTransaction
<1>3. RowsConsistent /\ NewTokenFresh
  BY DEF Init, RowsConsistent, NewTokenFresh, InTransaction
<1>4. RotationSound /\ RevokeSound
  BY DEF Init, RotationSound, RevokeSound, InTransaction
<1>5. OneLiveSessionPerLogin /\ LogoutRevokesWhatItSaw
  BY DEF Init, OneLiveSessionPerLogin, LogoutRevokesWhatItSaw, Live
<1> QED  BY <1>1, <1>2, <1>3, <1>4, <1>5 DEF IndInv

(* Every step of every request keeps the invariant.                        *)
LEMMA NextPreserves == IndInv /\ [Next]_vars => IndInv'
<1> SUFFICES ASSUME IndInv, [Next]_vars PROVE IndInv'
  OBVIOUS
<1>1. CASE \E r \in Requests, u \in Users, t \in Tokens, a \in {"ok", "error"} : Login(r, u, t, a)
  BY <1>1, LoginPreserves
<1>2. CASE \E r \in Requests, o, n \in Tokens : RefreshBegin(r, o, n)
  BY <1>2, RefreshBeginPreserves
<1>3. CASE \E r \in Requests, t \in Tokens : Logout(r, t)
  BY <1>3, LogoutPreserves
<1>4. CASE \E r \in Requests, u \in Users : LogoutAll(r, u)
  BY <1>4, LogoutAllPreserves
<1>5. CASE \E r \in Requests : Step(r)
  BY <1>5, SelectForUpdatePreserves, InsertNewPreserves, UpdateOldPreserves, CommitRotationPreserves,
     RefreshRespondPreserves, RevokeRowPreserves, CommitRevokePreserves DEF Step
<1>6. CASE \E r \in Requests : Abort(r)
  BY <1>6, AbortPreserves
<1>7. CASE \E t \in Tokens : Expire(t)
  BY <1>7, ExpirePreserves
<1>8. CASE UNCHANGED vars
  <2>0. /\ UNCHANGED <<owner, revoked, replacedBy, expired, lock, pc, resp>>
        /\ UNCHANGED <<old, new, target, todo, marked, drawn, family, snap>>
    BY <1>8 DEF vars, rows, locals
  <2>1. TypeOK'
    BY Zenon, <2>0 DEF IndInv, TypeOK
  <2>2. LockDiscipline' /\ RowsConsistent'
    BY Zenon, <2>0 DEF IndInv, LockDiscipline, RowsConsistent
  <2>3. NewTokenFresh' /\ RotationSound'
    BY Zenon, <2>0 DEF IndInv, NewTokenFresh, RotationSound, Live
  <2>4. RevokeSound' /\ OneLiveSessionPerLogin' /\ LogoutRevokesWhatItSaw'
    BY Zenon, <2>0 DEF IndInv, RevokeSound, OneLiveSessionPerLogin, LogoutRevokesWhatItSaw, Live
  <2> QED  BY <2>1, <2>2, <2>3, <2>4 DEF IndInv
<1> QED  BY <1>1, <1>2, <1>3, <1>4, <1>5, <1>6, <1>7, <1>8 DEF Next

(* IndInv holds in every reachable state.                                  *)
THEOREM Invariance == Spec => []IndInv
BY InitEstablishes, NextPreserves, PTL DEF Spec

(* The state of the table and of the requests keeps its types.             *)
THEOREM TypeCorrect == Spec => []TypeOK
<1>1. IndInv => TypeOK
  BY DEF IndInv
<1> QED  BY <1>1, Invariance, PTL

(* No row lock outlives the transaction that took it.                      *)
THEOREM LocksHeldByTransactions == Spec => []LockDiscipline
<1>1. IndInv => LockDiscipline
  BY DEF IndInv
<1> QED  BY <1>1, Invariance, PTL

(* However many Refresh requests present a token, at most one succeeds:    *)
(* the old row's replaced_by is the new token of each one that did.        *)
THEOREM RefreshTokensSingleUse == Spec => []SingleUse
<1>1. IndInv => SingleUse
  <2> SUFFICES ASSUME RotationSound, NewTokenFresh,
                      NEW r \in Requests, NEW q \in Requests,
                      resp[r] = "ok", resp[q] = "ok",
                      old[r] # NoToken, old[r] = old[q]
               PROVE  r = q
    BY DEF IndInv, SingleUse
  <2>1. new[r] \in Tokens /\ replacedBy[old[r]] = new[r]
    BY DEF RotationSound
  <2>2. replacedBy[old[q]] = new[q]
    BY DEF RotationSound
  <2>3. new[r] = new[q] /\ new[r] # NoToken
    BY <2>1, <2>2, NullAssumption
  <2> QED  BY <2>3 DEF NewTokenFresh
<1> QED  BY <1>1, Invariance, PTL

(* One login never has two live sessions.                                  *)
THEOREM LoginsDoNotFanOut == Spec => []OneLiveSessionPerLogin
<1>1. IndInv => OneLiveSessionPerLogin
  BY DEF IndInv
<1> QED  BY <1>1, Invariance, PTL

(* A logout that reports success has revoked all it saw.                   *)
THEOREM LogoutsRevokeWhatTheySaw == Spec => []LogoutRevokesWhatItSaw
<1>1. IndInv => LogoutRevokesWhatItSaw
  BY DEF IndInv
<1> QED  BY <1>1, Invariance, PTL
-----------------------------------------------------------------------------
(* A Login is an issue.                                                    *)
LEMMA LoginIssues ==
    ASSUME IndInv, NEW r \in Requests, NEW u \in Users, NEW t \in Tokens,
           NEW a \in {"ok", "error"}, Login(r, u, t, a)
    PROVE  Contract!Issue(t, u)
<1>1. t \notin revoked /\ owner[t] = NoUser
  BY DEF IndInv, TypeOK, RowsConsistent, Login
<1>2. owner' = [owner EXCEPT ![t] = u] /\ revoked' = revoked
  BY DEF Login
<1>3. t \notin Contract!Issued
  BY <1>1 DEF Contract!Issued
<1>4. owner \in [Tokens -> Users \cup {NoUser}]
  BY DEF IndInv, TypeOK
<1>5. [x \in Tokens |-> IF x \in revoked' THEN NoUser ELSE owner'[x]]
         = [[x \in Tokens |-> IF x \in revoked THEN NoUser ELSE owner[x]] EXCEPT ![t] = u]
  BY <1>1, <1>2, <1>4
<1>6. family' = [family EXCEPT ![t] = t]
  BY DEF Login
<1> QED  BY <1>2, <1>3, <1>5, <1>6 DEF Contract!Issue

(* The commit of a rotation is the exchange of the old token for the new.  *)
LEMMA CommitExchanges ==
    ASSUME IndInv, NEW r \in Requests, CommitRotation(r),
           NEW o \in Tokens, NEW n \in Tokens, o = old[r], n = new[r]
    PROVE  Contract!Exchange(o, n)
<1>1. owner[n] = NoUser /\ n \notin revoked /\ Live(o) /\ marked[r] = {o}
  BY DEF IndInv, RowsConsistent, NewTokenFresh, RotationSound, CommitRotation, InTransaction
<1>2. owner' = [owner EXCEPT ![n] = owner[o]] /\ revoked' = revoked \cup {o}
  BY <1>1 DEF CommitRotation
<1>3. o # n
  BY <1>1 DEF Live
<1> DEFINE m == [t \in Tokens |-> IF t \in revoked THEN NoUser ELSE owner[t]]
<1>4. m[o] # NoUser /\ n \notin Contract!Issued
  BY <1>1 DEF Live, Contract!Issued
<1>5. [t \in Tokens |-> IF t \in revoked' THEN NoUser ELSE owner'[t]]
         = [m EXCEPT ![o] = NoUser, ![n] = m[o]]
  <2> owner \in [Tokens -> Users \cup {NoUser}]
    BY DEF IndInv, TypeOK
  <2> QED  BY <1>1, <1>2, <1>3 DEF Live
<1>6. family' = [family EXCEPT ![n] = family[o]]
  BY DEF CommitRotation
<1> QED  BY <1>2, <1>4, <1>5, <1>6 DEF Contract!Exchange

(* The commit of a logout spends the rows it had locked.                   *)
LEMMA CommitSpends ==
    ASSUME IndInv, NEW r \in Requests, NEW a \in {"ok", "error"}, CommitRevoke(r, a),
           NEW S \in SUBSET Tokens, S = marked[r]
    PROVE  Contract!Spend(S)
<1>1. \A t \in S : Live(t)
  BY DEF IndInv, RevokeSound, CommitRevoke
<1>2. owner' = owner /\ revoked' = revoked \cup S /\ family' = family
  BY DEF CommitRevoke
<1> QED  BY <1>1, <1>2 DEF IndInv, TypeOK, Live, Contract!Spend

(* Every step of the table is a step of the contract or leaves what the    *)
(* contract sees unchanged.                                                *)
LEMMA StepRefines == IndInv /\ [Next]_vars => [Contract!Next]_(Contract!vars)
<1> SUFFICES ASSUME IndInv, [Next]_vars PROVE [Contract!Next]_(Contract!vars)
  OBVIOUS
<1>1. CASE \E r \in Requests, u \in Users, t \in Tokens, a \in {"ok", "error"} : Login(r, u, t, a)
  BY <1>1, LoginIssues DEF Contract!Next
<1>2. CASE \E r \in Requests : CommitRotation(r)
  <2> PICK r \in Requests : CommitRotation(r)
    BY <1>2
  <2> PICK o \in Tokens, n \in Tokens : o = old[r] /\ n = new[r]
    BY DEF IndInv, NewTokenFresh, CommitRotation, InTransaction
  <2>1. Contract!Exchange(o, n)
    BY CommitExchanges
  <2> QED  BY <2>1 DEF Contract!Next
<1>3. CASE \E r \in Requests, a \in {"ok", "error"} : CommitRevoke(r, a)
  <2> PICK r \in Requests, a \in {"ok", "error"} : CommitRevoke(r, a)
    BY <1>3
  <2> PICK S \in SUBSET Tokens : S = marked[r]
    BY DEF IndInv, TypeOK
  <2>1. Contract!Spend(S)
    BY CommitSpends
  <2> QED  BY <2>1 DEF Contract!Next
<1>4. ASSUME UNCHANGED <<owner, revoked, family>>
      PROVE  UNCHANGED Contract!vars
  BY <1>4 DEF Contract!vars
<1>5. CASE \/ \E r \in Requests : \/ \E o, n \in Tokens : RefreshBegin(r, o, n)
                                  \/ \E t \in Tokens : Logout(r, t)
                                  \/ \E u \in Users : LogoutAll(r, u)
                                  \/ SelectForUpdate(r) \/ InsertNew(r) \/ UpdateOld(r)
                                  \/ \E a \in {"ok", "error"} : RefreshRespond(r, a)
                                  \/ \E t \in Tokens : RevokeRow(r, t)
                                  \/ Abort(r)
           \/ \E t \in Tokens : Expire(t)
           \/ UNCHANGED vars
  <2>1. UNCHANGED <<owner, revoked, family>>
    BY <1>5 DEF RefreshBegin, Logout, LogoutAll, BeginRevoke, SelectForUpdate, InsertNew, UpdateOld,
       RefreshRespond, RevokeRow, Abort, Expire, rows, vars
  <2> QED  BY <2>1, <1>4
<1> QED  BY <1>1, <1>2, <1>3, <1>5 DEF Next, Step

(* RefreshSessions implements SessionLifecycle: every interleaving of the  *)
(* transactions looks, row by committed row, like atomic issues, exchanges *)
(* and revocations.                                                        *)
THEOREM ImplementsLifecycle == Spec => Lifecycle
<1>1. Init => Contract!Init
  <2> SUFFICES ASSUME Init PROVE Contract!Init
    OBVIOUS
  <2>1. revoked = {} /\ \A t \in Tokens : owner[t] = NoUser
    BY DEF Init
  <2>2. Contract!Issued = {}
    BY <2>1 DEF Contract!Issued
  <2> QED  BY <2>1, <2>2 DEF Init, Contract!Init
<1> QED  BY <1>1, StepRefines, Invariance, PTL DEF Spec, Lifecycle, Contract!Spec
=============================================================================
