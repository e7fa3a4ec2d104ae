------------------------- MODULE TokenSessionsProofs -------------------------
(***************************************************************************)
(* Proofs about TokenSessions, for any number of logins, refreshes,        *)
(* logouts and revocations: what a finished request has left in Redis.     *)
(***************************************************************************)
EXTENDS TokenSessions, TLAPS

-----------------------------------------------------------------------------
(* What the requests are.                                                  *)

\* The steps a request takes.
Way(o) ==
    IF o \in Formal THEN Steps \ {"swagger", "redeem"}
    ELSE IF o \in Swaggers THEN {"idle", "lock", "access", "commit"} \cup Ended
    ELSE IF o \in Refreshes THEN Steps \ {"lock", "swagger", "commit"}
    ELSE IF o \in Logouts THEN {"idle", "delete", "srem", "check", "unlist"} \cup Ended
    ELSE Steps \ {"redeem", "access", "refresh"}

Ways ==
    /\ \A o \in Ops : pc[o] \in Way(o)
    /\ \A o \in Ops : goal[o] = "remote" => o \in Refreshes

\* A request that has begun and did not fail at once.
Begun(o) == pc[o] \notin {"idle", "failed"}

\* Whoever wrote an access token is past writing it.
HasWritten(o) == pc[o] \in {"refresh", "commit"} \cup Ended \/ (o \in OAuths /\ pc[o] = "lock")

\* Requests know their sessions, and tokens their writers.
Named ==
    /\ \A o \in Sessions : Begun(o) => sess[o] = o
    /\ \A o \in Refreshes :
          Begun(o) => /\ sess[o] \in Formal /\ tok[o] \in Writers
                      /\ pc[tok[o]] = "done" /\ sess[tok[o]] = sess[o]
    /\ \A o \in Logouts : Begun(o) => sess[o] \in Sessions
    /\ \A o \in Logouts : pc[o] = "delete" => found[o] = {sess[o]}
    /\ \A o \in Ops : sess[o] # None => pc[sess[o]] # "idle"
    /\ \A s \in Sessions :
          /\ access[s] # None => HasWritten(access[s]) /\ sess[access[s]] = s
          /\ refresh[s] # None => /\ HasWritten(refresh[s]) /\ pc[refresh[s]] # "refresh"
                                  /\ sess[refresh[s]] = s /\ s \in Formal

\* What ended before a request began has ended.
Past == \A o, q \in Ops : q \in before[o] => pc[q] \in Ended /\ pc[o] # "idle"

-----------------------------------------------------------------------------

\* A request is of one kind.
LEMMA Kinds ==
    /\ Logins \cap OAuths = {} /\ Logins \cap Swaggers = {} /\ Logins \cap Refreshes = {}
    /\ Logins \cap Logouts = {} /\ Logins \cap Resets = {} /\ Logins \cap Toggles = {}
    /\ OAuths \cap Swaggers = {} /\ OAuths \cap Refreshes = {} /\ OAuths \cap Logouts = {}
    /\ OAuths \cap Resets = {} /\ OAuths \cap Toggles = {} /\ Swaggers \cap Refreshes = {}
    /\ Swaggers \cap Logouts = {} /\ Swaggers \cap Resets = {} /\ Swaggers \cap Toggles = {}
    /\ Refreshes \cap Logouts = {} /\ Refreshes \cap Resets = {} /\ Refreshes \cap Toggles = {}
    /\ Logouts \cap Resets = {} /\ Logouts \cap Toggles = {} /\ Resets \cap Toggles = {}
  <1> DEFINE kinds == <<Logins, OAuths, Swaggers, Refreshes, Logouts, Resets, Toggles>>
  <1>1. \A i, j \in 1..7 : i # j => kinds[i] \cap kinds[j] = {}
    BY TokenAssumption
  <1> HIDE DEF kinds
  <1>2. /\ kinds[1] = Logins /\ kinds[2] = OAuths /\ kinds[3] = Swaggers /\ kinds[4] = Refreshes
        /\ kinds[5] = Logouts /\ kinds[6] = Resets /\ kinds[7] = Toggles
    BY DEF kinds
  <1>3. /\ 1 \in 1..7 /\ 2 \in 1..7 /\ 3 \in 1..7 /\ 4 \in 1..7 /\ 5 \in 1..7
        /\ 6 \in 1..7 /\ 7 \in 1..7
    OBVIOUS
  <1> QED
    BY <1>1, <1>2, <1>3

\* What a step of a request leaves alone.
Frame(o) ==
    /\ pc[o] \notin Ended /\ pc'[o] # "idle"
    /\ \A q \in Ops \ {o} :
          /\ pc'[q] = pc[q] /\ goal'[q] = goal[q] /\ flag'[q] = flag[q] /\ sess'[q] = sess[q]
          /\ tok'[q] = tok[q] /\ snap'[q] = snap[q] /\ found'[q] = found[q]
          /\ before'[q] = before[q]
    /\ pc[o] # "idle" => sess'[o] = sess[o] /\ tok'[o] = tok[o] /\ before'[o] = before[o]
    /\ pc[o] = "idle" => before'[o] = {q \in Ops : pc[q] \in Ended}
    /\ pc[o] \notin {"idle", "lock"} \/ (o \in OAuths /\ pc[o] = "lock") => flag'[o] = flag[o]
    /\ \A s \in Sessions :
          /\ \/ access'[s] \in {access[s], None}
             \/ pc[o] = "access" /\ s = sess[o] /\ access'[s] = o
          /\ \/ refresh'[s] \in {refresh[s], None}
             \/ pc[o] = "refresh" /\ s = sess[o] /\ refresh'[s] = o

LEMMA StepFrame == ASSUME TypeOK, NEW o \in Ops, Step(o) PROVE Frame(o)
  <1> USE DEF TypeOK, Goto, Ended, redisVars, dbVars
  <1>1. CASE BeginLogin(o) BY <1>1 DEF BeginLogin, Begin, Frame
  <1>2. CASE LockLogin(o) BY <1>2, Kinds DEF LockLogin, FirstStep, Frame
  <1>3. CASE BeginOAuth(o) BY <1>3 DEF BeginOAuth, Begin, FirstStep, Frame
  <1>4. CASE LockOAuth(o) BY <1>4 DEF LockOAuth, Frame
  <1>5. CASE BeginRefresh(o) BY <1>5 DEF BeginRefresh, Begin, Frame
  <1>6. CASE BeginLogout(o) BY <1>6 DEF BeginLogout, Begin, Frame
  <1>7. CASE BeginReset(o) BY <1>7 DEF BeginReset, Begin, Frame
  <1>8. CASE BeginToggle(o) BY <1>8 DEF BeginToggle, Begin, Frame
  <1>9. CASE LockUpdate(o) BY <1>9 DEF LockUpdate, Frame
  <1>10. CASE ReadIndex(o) BY <1>10 DEF ReadIndex, Frame
  <1>11. CASE Probe(o) BY <1>11 DEF Probe, Frame
  <1>12. CASE Prune(o) BY <1>12 DEF Prune, Frame
  <1>13. CASE ReadSwagger(o) BY <1>13 DEF ReadSwagger, AfterRevoke, Frame
  <1>14. CASE DeleteKeys(o) BY <1>14 DEF DeleteKeys, RevokedRefresh, Frame
  <1>15. CASE RemoveMembers(o) BY <1>15 DEF RemoveMembers, Frame
  <1>16. CASE CheckIndex(o) BY <1>16 DEF CheckIndex, AfterRevoke, Frame
  <1>17. CASE Unlist(o) BY <1>17 DEF Unlist, AfterRevoke, Frame
  <1>18. CASE Redeem(o) BY <1>18 DEF Redeem, FirstStep, Frame
  <1>19. CASE WriteAccess(o) BY <1>19 DEF WriteAccess, Frame
  <1>20. CASE WriteRefresh(o) BY <1>20 DEF WriteRefresh, NewRefresh, Frame
  <1>21. CASE Commit(o) BY <1>21 DEF Commit, Frame
  <1>22. CASE Abort(o) BY <1>22 DEF Abort, Frame
  <1> QED
    BY <1>1, <1>2, <1>3, <1>4, <1>5, <1>6, <1>7, <1>8, <1>9, <1>10, <1>11, <1>12, <1>13,
       <1>14, <1>15, <1>16, <1>17, <1>18, <1>19, <1>20, <1>21, <1>22 DEF Step

-----------------------------------------------------------------------------
(* Types.                                                                  *)

\* The types of the variables, without the row.
Typed ==
    /\ multi \in BOOLEAN
    /\ rowLock \in Locking \cup {None}
    /\ access \in [Sessions -> Sessions \cup Refreshes \cup {None}]
    /\ refresh \in [Sessions -> Writers \cup {None}]
    /\ index \subseteq Formal
    /\ swagger \subseteq Swaggers
    /\ users \in BOOLEAN
    /\ pc \in [Ops -> Steps]
    /\ goal \in [Ops -> {"remote", "revoke"}]
    /\ flag \in [Ops -> BOOLEAN]
    /\ sess \in [Ops -> Sessions \cup {None}]
    /\ tok \in [Ops -> Writers \cup {None}]
    /\ snap \in [Ops -> SUBSET Formal]
    /\ found \in [Ops -> SUBSET Sessions]
    /\ before \in [Ops -> SUBSET Ops]
    /\ expiries \in Nat /\ aborts \in Nat

\* Where each step leads is on the way of its request.
LEMMA StepWays == ASSUME TypeOK, Ways, NEW o \in Ops, Step(o) PROVE Ways'
  <1> USE DEF Ways, Way, TypeOK, Goto, Ended, Steps, Ops, Sessions, Formal, Writers
  <1>1. CASE BeginLogin(o) BY <1>1, Kinds DEF BeginLogin, Begin
  <1>2. CASE LockLogin(o) BY <1>2, Kinds DEF LockLogin, FirstStep, RowFree
  <1>3. CASE BeginOAuth(o) BY <1>3, Kinds DEF BeginOAuth, Begin, FirstStep
  <1>4. CASE LockOAuth(o) BY <1>4, Kinds DEF LockOAuth, RowFree
  <1>5. CASE BeginRefresh(o) BY <1>5, Kinds DEF BeginRefresh, Begin
  <1>6. CASE BeginLogout(o) BY <1>6, Kinds DEF BeginLogout, Begin
  <1>7. CASE BeginReset(o) BY <1>7, Kinds DEF BeginReset, Begin
  <1>8. CASE BeginToggle(o) BY <1>8, Kinds DEF BeginToggle, Begin
  <1>9. CASE LockUpdate(o) BY <1>9, Kinds DEF LockUpdate, RowFree
  <1>10. CASE ReadIndex(o) BY <1>10, Kinds DEF ReadIndex
  <1>11. CASE Probe(o) BY <1>11, Kinds DEF Probe
  <1>12. CASE Prune(o) BY <1>12, Kinds DEF Prune, PrunedIndex, Targets
  <1>13. CASE ReadSwagger(o) BY <1>13, Kinds DEF ReadSwagger, AllTargets, AfterRevoke
  <1>14. CASE DeleteKeys(o) BY <1>14, Kinds DEF DeleteKeys, RevokedRefresh
  <1>15. CASE RemoveMembers(o) BY <1>15, Kinds DEF RemoveMembers
  <1>16. CASE CheckIndex(o) BY <1>16, Kinds DEF CheckIndex, AfterRevoke
  <1>17. CASE Unlist(o) BY <1>17, Kinds DEF Unlist, AfterRevoke
  <1>18. CASE Redeem(o) BY <1>18, Kinds DEF Redeem, FirstStep
  <1>19. CASE WriteAccess(o) BY <1>19, Kinds DEF WriteAccess, Indexed
  <1>20. CASE WriteRefresh(o) BY <1>20, Kinds DEF WriteRefresh, Indexed, NewRefresh
  <1>21. CASE Commit(o) BY <1>21, Kinds DEF Commit
  <1>22. CASE Abort(o) BY <1>22, Kinds DEF Abort
  <1> QED
    BY <1>1, <1>2, <1>3, <1>4, <1>5, <1>6, <1>7, <1>8, <1>9, <1>10, <1>11, <1>12, <1>13, <1>14,
       <1>15, <1>16, <1>17, <1>18, <1>19, <1>20, <1>21, <1>22 DEF Step

\* Whether a request is between its UPDATE and its end.
Holds(o) == IF o \in OAuths THEN pc[o] = "commit" ELSE pc[o] \notin {"idle", "lock"} \cup Ended

\* A step takes the row when it is free, gives back its own, or leaves it.
LEMMA StepHolds ==
    ASSUME TypeOK, Ways, NEW o \in Ops, Step(o)
    PROVE  \/ rowLock' = rowLock /\ (o \in Locking => (Holds(o)' <=> Holds(o)))
           \/ rowLock = None /\ rowLock' = o /\ Holds(o)'
           \/ rowLock = o /\ rowLock' = None /\ ~Holds(o)'
  <1> USE DEF Holds, Ways, Way, TypeOK, Goto, Ended, Ops, Sessions, Formal, Writers, Locking, dbVars
  <1>0. pc[o] \in Way(o)
    BY DEF Ways
  <1>1. CASE BeginLogin(o) BY <1>1, <1>0, Kinds DEF BeginLogin, Begin
  <1>2. CASE LockLogin(o) BY <1>2, <1>0, Kinds DEF LockLogin, FirstStep, RowFree
  <1>3. CASE BeginOAuth(o) BY <1>3, <1>0, Kinds DEF BeginOAuth, Begin, FirstStep
  <1>4. CASE LockOAuth(o) BY <1>4, <1>0, Kinds DEF LockOAuth, RowFree
  <1>5. CASE BeginRefresh(o) BY <1>5, <1>0, Kinds DEF BeginRefresh, Begin
  <1>6. CASE BeginLogout(o) BY <1>6, <1>0, Kinds DEF BeginLogout, Begin
  <1>7. CASE BeginReset(o) BY <1>7, <1>0, Kinds DEF BeginReset, Begin
  <1>8. CASE BeginToggle(o) BY <1>8, <1>0, Kinds DEF BeginToggle, Begin
  <1>9. CASE LockUpdate(o) BY <1>9, <1>0, Kinds DEF LockUpdate, RowFree
  <1>10. CASE ReadIndex(o) BY <1>10, <1>0, Kinds DEF ReadIndex
  <1>11. CASE Probe(o) BY <1>11, <1>0, Kinds DEF Probe
  <1>12. CASE Prune(o) BY <1>12, <1>0, Kinds DEF Prune, PrunedIndex, Targets
  <1>13. CASE ReadSwagger(o) BY <1>13, <1>0, Kinds DEF ReadSwagger, AllTargets, AfterRevoke
  <1>14. CASE DeleteKeys(o) BY <1>14, <1>0, Kinds DEF DeleteKeys, RevokedRefresh
  <1>15. CASE RemoveMembers(o) BY <1>15, <1>0, Kinds DEF RemoveMembers
  <1>16. CASE CheckIndex(o) BY <1>16, <1>0, Kinds DEF CheckIndex, AfterRevoke
  <1>17. CASE Unlist(o) BY <1>17, <1>0, Kinds DEF Unlist, AfterRevoke
  <1>18. CASE Redeem(o) BY <1>18, <1>0, Kinds DEF Redeem, FirstStep
  <1>19. CASE WriteAccess(o) BY <1>19, <1>0, Kinds DEF WriteAccess, Indexed
  <1>20. CASE WriteRefresh(o) BY <1>20, <1>0, Kinds DEF WriteRefresh, Indexed, NewRefresh
  <1>21. CASE Commit(o) BY <1>21, <1>0, Kinds DEF Commit, RowHeld
  <1>22. CASE Abort(o) BY <1>22, <1>0, Kinds DEF Abort, RowHeld
  <1> QED
    BY <1>1, <1>2, <1>3, <1>4, <1>5, <1>6, <1>7, <1>8, <1>9, <1>10, <1>11, <1>12, <1>13, <1>14,
       <1>15, <1>16, <1>17, <1>18, <1>19, <1>20, <1>21, <1>22 DEF Step

\* The row is held by the request between its UPDATE and its end, and by no other.
LEMMA StepRow == ASSUME TypeOK, Ways, NEW o \in Ops, Step(o) PROVE RowHeld'
  <1>1. \A p \in Locking : rowLock = p <=> Holds(p)
    BY DEF TypeOK, RowHeld, Holds
  <1>2. \A p \in Locking \ {o} : Holds(p)' <=> Holds(p)
    BY StepFrame DEF Frame, Holds, Locking, Sessions, Ops
  <1>3. \A p \in Locking : p # None
    BY TokenAssumption DEF Locking, Sessions, Ops
  <1>4. \A p \in Locking : rowLock' = p <=> Holds(p)'
    BY <1>1, <1>2, <1>3, StepHolds
  <1> QED
    BY <1>4 DEF RowHeld, Holds

LEMMA StepTyped == ASSUME TypeOK, Ways, Named, NEW o \in Ops, Step(o) PROVE Typed'
  <1> USE DEF Typed, Ways, Way, TypeOK, Goto, Ended, Steps, Ops, Sessions, Formal, Writers, Locking, redisVars, dbVars
  <1>1. CASE BeginLogin(o) BY <1>1, Kinds DEF BeginLogin, Begin
  <1>2. CASE LockLogin(o) BY <1>2, Kinds DEF LockLogin, FirstStep, RowFree
  <1>3. CASE BeginOAuth(o) BY <1>3, Kinds DEF BeginOAuth, Begin, FirstStep
  <1>4. CASE LockOAuth(o) BY <1>4, Kinds DEF LockOAuth, RowFree
  <1>5. CASE BeginRefresh(o) BY <1>5, Kinds DEF BeginRefresh, Begin, Named, Begun
  <1>6. CASE BeginLogout(o) BY <1>6, Kinds DEF BeginLogout, Begin, Named, Begun
  <1>7. CASE BeginReset(o) BY <1>7, Kinds DEF BeginReset, Begin
  <1>8. CASE BeginToggle(o)
    <2>1. before' \in [Ops -> SUBSET Ops] /\ pc' \in [Ops -> Steps]
      BY <1>8 DEF BeginToggle, Begin
    <2>2. UNCHANGED <<redisVars, dbVars, goal, tok, snap, found, expiries, aborts>>
      BY <1>8 DEF BeginToggle
    <2>3. CASE flag' = [flag EXCEPT ![o] = ~multi] /\ UNCHANGED sess
      <3>1. (~multi) \in {TRUE, FALSE}
        BY multi \in BOOLEAN
      <3>2. flag' \in [Ops -> BOOLEAN]
        BY <2>3, <3>1
      <3> QED
        BY <2>1, <2>2, <2>3, <3>2
    <2>4. CASE \E s \in Sessions, b \in BOOLEAN :
                  sess' = [sess EXCEPT ![o] = s] /\ flag' = [flag EXCEPT ![o] = b]
      <3>1. sess' \in [Ops -> Sessions \cup {None}] /\ flag' \in [Ops -> BOOLEAN]
        BY <2>4
      <3> QED
        BY <2>1, <2>2, <3>1
    <2> QED
      BY <1>8, <2>3, <2>4 DEF BeginToggle
  <1>9. CASE LockUpdate(o) BY <1>9, Kinds DEF LockUpdate, RowFree
  <1>10. CASE ReadIndex(o) BY <1>10, Kinds DEF ReadIndex
  <1>11. CASE Probe(o) BY <1>11, Kinds DEF Probe
  <1>12. CASE Prune(o) BY <1>12, Kinds DEF Prune, PrunedIndex, Targets
  <1>13. CASE ReadSwagger(o) BY <1>13, Kinds DEF ReadSwagger, AllTargets, AfterRevoke
  <1>14. CASE DeleteKeys(o) BY <1>14, Kinds DEF DeleteKeys, RevokedRefresh
  <1>15. CASE RemoveMembers(o) BY <1>15, Kinds DEF RemoveMembers
  <1>16. CASE CheckIndex(o) BY <1>16, Kinds DEF CheckIndex, AfterRevoke
  <1>17. CASE Unlist(o) BY <1>17, Kinds DEF Unlist, AfterRevoke
  <1>18. CASE Redeem(o) BY <1>18, Kinds DEF Redeem, FirstStep
  <1>19. CASE WriteAccess(o)
    <2>1. /\ o \in Sessions \cup Refreshes /\ sess[o] \in Sessions
          /\ o \in Swaggers => sess[o] = o
          /\ o \notin Swaggers => sess[o] \in Formal
      BY <1>19, Kinds DEF WriteAccess, Named, Begun
    <2>2. access' \in [Sessions -> Sessions \cup Refreshes \cup {None}]
      BY <1>19, <2>1 DEF WriteAccess
    <2>3. CASE o \in Swaggers
      BY <1>19, <2>1, <2>2, <2>3 DEF WriteAccess
    <2>5. CASE o \notin Swaggers
      BY <1>19, <2>1, <2>2, <2>5 DEF WriteAccess, Indexed
    <2> QED
      BY <2>3, <2>5
  <1>20. CASE WriteRefresh(o) BY <1>20, Kinds DEF WriteRefresh, Indexed, NewRefresh, Named, Begun
  <1>21. CASE Commit(o) BY <1>21, Kinds DEF Commit
  <1>22. CASE Abort(o) BY <1>22, Kinds DEF Abort
  <1> QED
    BY <1>1, <1>2, <1>3, <1>4, <1>5, <1>6, <1>7, <1>8, <1>9, <1>10, <1>11, <1>12, <1>13, <1>14,
       <1>15, <1>16, <1>17, <1>18, <1>19, <1>20, <1>21, <1>22 DEF Step

\* A key expires.
Expires == \E s \in Sessions : ExpireAccess(s) \/ ExpireRefresh(s)

LEMMA ExpireTyped ==
    ASSUME TypeOK, Expires
    PROVE  /\ TypeOK'
           /\ UNCHANGED <<index, swagger, users, opVars>>
           /\ \A s \in Sessions : access'[s] \in {access[s], None} /\ refresh'[s] \in {refresh[s], None}
  <1>1. PICK s \in Sessions : ExpireAccess(s) \/ ExpireRefresh(s)
    BY DEF Expires
  <1>2. UNCHANGED <<index, swagger, users, dbVars, opVars>>
    BY <1>1 DEF ExpireAccess, ExpireRefresh
  <1>3. /\ access' \in [Sessions -> Sessions \cup Refreshes \cup {None}]
        /\ refresh' \in [Sessions -> Writers \cup {None}]
        /\ expiries' \in Nat /\ aborts' \in Nat
        /\ \A t \in Sessions : access'[t] \in {access[t], None} /\ refresh'[t] \in {refresh[t], None}
    BY <1>1 DEF ExpireAccess, ExpireRefresh, TypeOK
  <1>4. RowHeld'
    BY <1>2 DEF TypeOK, RowHeld, dbVars, opVars
  <1>5. TypeOK'
    BY <1>2, <1>3, <1>4 DEF TypeOK, dbVars, opVars
  <1> QED
    BY <1>2, <1>3, <1>5

LEMMA StepType == ASSUME TypeOK, Ways, Named, NEW o \in Ops, Step(o) PROVE TypeOK'
  BY StepTyped, StepRow DEF TypeOK, Typed

-----------------------------------------------------------------------------
(* Names and the past.                                                     *)

\* What has been written stays written.
LEMMA StaysWritten ==
    ASSUME TypeOK, Ways, NEW o \in Ops, Step(o), NEW q \in Ops, HasWritten(q)
    PROVE  HasWritten(q)' /\ (pc[q] # "refresh" => pc'[q] # "refresh")
  <1>1. CASE q # o
    BY <1>1, StepFrame DEF Frame, HasWritten
  <1>2. CASE q = o
    <2>1. pc[o] \in Way(o) /\ pc[o] \notin Ended
      BY StepFrame DEF Frame, Ways
    <2> USE <1>2, <2>1 DEF HasWritten, TypeOK, Goto, Ended, Way, Ops, Sessions, Formal
    <2>2. CASE WriteRefresh(o) BY <2>2, Kinds DEF WriteRefresh
    <2>3. CASE Commit(o) BY <2>3, Kinds DEF Commit
    <2>4. CASE LockOAuth(o) BY <2>4, Kinds DEF LockOAuth
    <2>5. CASE Abort(o) BY <2>5 DEF Abort
    <2> QED
      BY <2>2, <2>3, <2>4, <2>5, Kinds DEF Step, BeginLogin, LockLogin, BeginOAuth, BeginRefresh,
         BeginLogout, BeginReset, BeginToggle, LockUpdate, ReadIndex, Probe, Prune,
         ReadSwagger, DeleteKeys, RemoveMembers, CheckIndex, Unlist, Redeem, WriteAccess, Begin
  <1> QED
    BY <1>1, <1>2

LEMMA StepPast == ASSUME TypeOK, Past, NEW o \in Ops, Step(o) PROVE Past'
  <1>1. Frame(o)
    BY StepFrame
  <1> SUFFICES ASSUME NEW p \in Ops, NEW q \in Ops, q \in before'[p]
               PROVE  pc'[q] \in Ended /\ pc'[p] # "idle"
    BY DEF Past
  <1>2. q # o
    <2>1. CASE p = o /\ pc[o] = "idle"
      BY <1>1, <2>1 DEF Frame
    <2>2. CASE ~(p = o /\ pc[o] = "idle")
      BY <1>1, <2>2 DEF Frame, Past
    <2> QED
      BY <2>1, <2>2
  <1>3. pc'[q] = pc[q] /\ pc[q] \in Ended
    BY <1>1, <1>2 DEF Frame, Past
  <1> QED
    BY <1>1, <1>3 DEF Frame, Past

\* Where a request begins.
LEMMA Beginning ==
    ASSUME NEW o \in Ops, Step(o), pc[o] = "idle"
    PROVE  \/ BeginLogin(o) \/ BeginOAuth(o) \/ BeginRefresh(o) \/ BeginLogout(o) \/ BeginReset(o)
           \/ BeginToggle(o)
  BY DEF Step, LockLogin, LockOAuth, LockUpdate, ReadIndex, Probe, Prune, ReadSwagger, DeleteKeys,
         RemoveMembers, CheckIndex, Unlist, Redeem, WriteAccess, WriteRefresh, Commit, Abort, Ended

\* The session a request begins with is one that has begun.
LEMMA SessBegun ==
    ASSUME TypeOK, Named, NEW o \in Ops, Step(o), pc[o] = "idle"
    PROVE  /\ o \in Sessions => sess'[o] = o
           /\ o \in Refreshes => /\ sess'[o] \in Formal /\ tok'[o] \in Writers
                                 /\ pc[tok'[o]] = "done" /\ sess[tok'[o]] = sess'[o]
           /\ o \in Logouts => sess'[o] \in Sessions /\ found'[o] = {sess'[o]}
           /\ sess'[o] \in {None, sess[o], o} \/ (sess'[o] \in Sessions /\ pc[sess'[o]] # "idle")
  <1> USE Kinds DEF TypeOK, Begin, Goto, Sessions, Formal, Ops, Writers
  <1>1. CASE BeginLogin(o) BY <1>1 DEF BeginLogin
  <1>2. CASE BeginOAuth(o) BY <1>2 DEF BeginOAuth
  <1>3. CASE BeginRefresh(o)
    <2>1. PICK w \in Writers : pc[w] = "done" /\ tok' = [tok EXCEPT ![o] = w]
                                /\ sess' = [sess EXCEPT ![o] = sess[w]]
      BY <1>3 DEF BeginRefresh
    <2>2. sess[w] \in Formal
      BY <2>1 DEF Named, Begun
    <2>3. sess'[o] = sess[w] /\ tok'[o] = w
      BY <2>1
    <2>4. o \in Refreshes
      BY <1>3 DEF BeginRefresh
    <2>5. sess[w] # None /\ pc[sess[w]] # "idle"
      BY <2>2, TokenAssumption DEF Named
    <2> QED
      BY <2>1, <2>2, <2>3, <2>4, <2>5
  <1>4. CASE BeginLogout(o)
    <2>1. PICK s \in Sessions : /\ access[s] # None \/ pc[s] = "done"
                                /\ sess' = [sess EXCEPT ![o] = s]
                                /\ found' = [found EXCEPT ![o] = {s}]
      BY <1>4 DEF BeginLogout
    <2>2. pc[s] # "idle"
      <3>1. CASE access[s] # None
        <4>1. access[s] \in Ops /\ sess[access[s]] = s
          BY <3>1 DEF Named
        <4> QED
          BY <4>1, TokenAssumption DEF Named
      <3> QED
        BY <2>1, <3>1
    <2> QED
      BY <1>4, <2>1, <2>2 DEF BeginLogout
  <1>5. CASE BeginReset(o) BY <1>5 DEF BeginReset
  <1>6. CASE BeginToggle(o)
    <2>1. o \in Toggles
      BY <1>6 DEF BeginToggle
    <2>2. CASE sess' = sess
      BY <2>1, <2>2
    <2>3. ASSUME NEW s \in Sessions, access[s] # None, sess' = [sess EXCEPT ![o] = s]
          PROVE  sess'[o] \in Sessions /\ pc[sess'[o]] # "idle"
      <3>1. access[s] \in Ops /\ sess[access[s]] = s
        BY <2>3 DEF Named
      <3> QED
        BY <2>3, <3>1, TokenAssumption DEF Named
    <2> QED
      BY <1>6, <2>1, <2>2, <2>3 DEF BeginToggle
  <1> QED
    BY <1>1, <1>2, <1>3, <1>4, <1>5, <1>6, Beginning

LEMMA StepNamed ==
    ASSUME TypeOK, Ways, Named, NEW o \in Ops, Step(o)
    PROVE  Named'
  <1>1. Frame(o)
    BY StepFrame
  <1>2. ASSUME NEW q \in Sessions, Begun(q)' PROVE sess'[q] = q
    <2>1. CASE q # o
      BY <1>1, <1>2, <2>1 DEF Frame, Begun, Named, Ops, Sessions
    <2>2. CASE q = o /\ pc[o] = "idle"
      BY <2>2, SessBegun
    <2>3. CASE q = o /\ pc[o] # "idle"
      BY <1>1, <2>3 DEF Frame, Begun, Named, Ended
    <2> QED
      BY <2>1, <2>2, <2>3
  <1>3. ASSUME NEW q \in Refreshes, Begun(q)'
        PROVE  /\ sess'[q] \in Formal /\ tok'[q] \in Writers
               /\ pc'[tok'[q]] = "done" /\ sess'[tok'[q]] = sess'[q]
    <2>1. /\ sess'[q] \in Formal /\ tok'[q] \in Writers
          /\ pc[tok'[q]] = "done" /\ sess[tok'[q]] = sess'[q]
      BY <1>1, <1>3, SessBegun DEF Frame, Begun, Named, Ended, Ops
    <2>2. tok'[q] \in Ops /\ tok'[q] # o
      BY <1>1, <2>1 DEF Frame, Ended, Writers, Formal, Ops
    <2> QED
      BY <1>1, <2>1, <2>2 DEF Frame
  <1>4. ASSUME NEW q \in Logouts, Begun(q)' PROVE sess'[q] \in Sessions
    BY <1>1, <1>4, SessBegun DEF Frame, Begun, Named, Ended, Ops
  <1>5. ASSUME NEW q \in Logouts, pc'[q] = "delete" PROVE found'[q] = {sess'[q]}
    <2>1. CASE q # o
      BY <1>1, <1>5, <2>1 DEF Frame, Named, Ops
    <2>2. CASE q = o /\ pc[o] = "idle"
      BY <2>2, SessBegun
    <2>3. CASE q = o /\ pc[o] # "idle"
      <3>1. pc[o] \in {"delete", "srem", "check", "unlist"}
        BY <1>1, <2>3, Kinds DEF Frame, Ways, Way, Formal, Ended, Ops
      <3> QED
        BY <1>5, <2>3, <3>1, Kinds DEF Step, BeginLogin, LockLogin, BeginOAuth, LockOAuth, BeginRefresh,
           BeginLogout, BeginReset, BeginToggle, LockUpdate, ReadIndex, Probe, Prune, ReadSwagger,
           DeleteKeys, RemoveMembers, CheckIndex, Unlist, Redeem, WriteAccess, WriteRefresh,
           Commit, Abort, Begin, Goto, AfterRevoke, TypeOK, Writers, Formal, Ops
    <2> QED
      BY <2>1, <2>2, <2>3
  <1>6. ASSUME NEW q \in Ops, sess'[q] # None PROVE pc'[sess'[q]] # "idle"
    <2>1. sess'[q] \in Sessions /\ (sess'[q] = o \/ pc[sess'[q]] # "idle")
      <3>1. CASE q # o \/ pc[o] # "idle"
        BY <1>1, <1>6, <3>1 DEF Frame, Named, TypeOK
      <3>2. CASE q = o /\ pc[o] = "idle"
        <4>1. CASE sess'[o] = o
          <5>1. sess' \in [Ops -> Sessions \cup {None}]
            BY StepType DEF TypeOK
          <5> QED
            BY <1>6, <3>2, <4>1, <5>1
        <4>2. CASE sess'[o] = sess[o]
          BY <1>6, <3>2, <4>2 DEF TypeOK, Named
        <4> QED
          BY <1>6, <3>2, <4>1, <4>2, SessBegun
      <3> QED
        BY <3>1, <3>2
    <2>2. sess'[q] \in Ops
      BY <2>1 DEF Ops, Sessions
    <2>3. CASE sess'[q] = o
      BY <1>1, <2>3 DEF Frame
    <2>4. CASE sess'[q] # o
      <3>1. pc'[sess'[q]] = pc[sess'[q]]
        BY <1>1, <2>2, <2>4 DEF Frame
      <3> QED
        BY <2>1, <2>4, <3>1
    <2> QED
      BY <2>3, <2>4
  <1>a. \A q \in Ops : HasWritten(q) =>
            HasWritten(q)' /\ sess'[q] = sess[q] /\ (pc[q] # "refresh" => pc'[q] # "refresh")
    <2> SUFFICES ASSUME NEW q \in Ops, HasWritten(q)
                 PROVE  HasWritten(q)' /\ sess'[q] = sess[q] /\ (pc[q] # "refresh" => pc'[q] # "refresh")
      OBVIOUS
    <2>1. pc[q] # "idle"
      BY DEF HasWritten, Ended
    <2>2. sess'[q] = sess[q]
      BY <1>1, <2>1 DEF Frame
    <2> QED
      BY <2>2, StaysWritten
  <1>7. ASSUME NEW s \in Sessions, NEW w, w = access'[s], w # None
        PROVE  HasWritten(w)' /\ sess'[w] = s
    <2>1. CASE w = access[s]
      <3>1. w \in Ops /\ HasWritten(w) /\ sess[w] = s
        BY <1>7, <2>1 DEF TypeOK, Named, Ops, Sessions
      <3> QED
        BY <1>a, <3>1
    <2>2. CASE pc[o] = "access" /\ s = sess[o] /\ w = o
      <3>1. WriteAccess(o) \/ Abort(o)
        BY <2>2 DEF Step, BeginLogin, LockLogin, BeginOAuth, LockOAuth, BeginRefresh,
           BeginLogout, BeginReset, BeginToggle, LockUpdate, ReadIndex, Probe, Prune, ReadSwagger,
           DeleteKeys, RemoveMembers, CheckIndex, Unlist, Redeem, WriteRefresh, Commit, Begin
      <3>2. HasWritten(o)'
        BY <3>1 DEF WriteAccess, Abort, Goto, HasWritten, Ended, TypeOK
      <3>3. sess'[o] = sess[o]
        BY <1>1, <2>2 DEF Frame
      <3> QED
        BY <2>2, <3>2, <3>3
    <2> QED
      BY <1>1, <1>7, <2>1, <2>2 DEF Frame
  <1>8. ASSUME NEW s \in Sessions, NEW w, w = refresh'[s], w # None
        PROVE  HasWritten(w)' /\ pc'[w] # "refresh" /\ sess'[w] = s /\ s \in Formal
    <2>1. CASE w = refresh[s]
      <3>1. w \in Ops /\ HasWritten(w) /\ sess[w] = s /\ pc[w] # "refresh" /\ s \in Formal
        BY <1>8, <2>1 DEF TypeOK, Named, Ops, Writers, Formal
      <3> QED
        BY <1>a, <3>1
    <2>2. CASE pc[o] = "refresh" /\ s = sess[o] /\ w = o
      <3>1. WriteRefresh(o) \/ Abort(o)
        BY <2>2 DEF Step, BeginLogin, LockLogin, BeginOAuth, LockOAuth, BeginRefresh,
           BeginLogout, BeginReset, BeginToggle, LockUpdate, ReadIndex, Probe, Prune, ReadSwagger,
           DeleteKeys, RemoveMembers, CheckIndex, Unlist, Redeem, WriteAccess, Commit, Begin
      <3>2. HasWritten(o)' /\ pc'[o] # "refresh"
        BY <3>1 DEF WriteRefresh, Abort, Goto, HasWritten, Ended, TypeOK
      <3>3. sess'[o] = sess[o]
        BY <1>1, <2>2 DEF Frame
      <3>4. sess[o] \in Formal
        BY <2>2, Kinds DEF Ways, Way, Named, Begun, Formal, Sessions, Ops, Ended
      <3> QED
        BY <2>2, <3>2, <3>3, <3>4
    <2> QED
      BY <1>1, <1>8, <2>1, <2>2 DEF Frame
  <1>9. /\ \A s \in Sessions : access'[s] # None => HasWritten(access[s])' /\ sess'[access'[s]] = s
        /\ \A s \in Sessions : refresh'[s] # None =>
              HasWritten(refresh[s])' /\ pc'[refresh'[s]] # "refresh" /\ sess'[refresh'[s]] = s /\ s \in Formal
    BY <1>7, <1>8
  <1> QED
    BY <1>2, <1>3, <1>4, <1>5, <1>6, <1>9 DEF Named

\* What every later argument rests on.
Base == TypeOK /\ Ways /\ Named /\ Past

LEMMA StepBase == ASSUME Base, NEW o \in Ops, Step(o) PROVE Base' /\ Frame(o)
  BY StepType, StepWays, StepNamed, StepPast, StepFrame DEF Base

LEMMA ExpireBase == ASSUME Base, Expires PROVE Base'
  <1>1. TypeOK' /\ UNCHANGED opVars
        /\ \A s \in Sessions : access'[s] \in {access[s], None} /\ refresh'[s] \in {refresh[s], None}
    BY ExpireTyped DEF Base
  <1>2. Ways' /\ Past'
    BY <1>1 DEF Base, opVars, Ways, Past
  <1>3. /\ \A s \in Sessions : access'[s] # None => HasWritten(access[s])' /\ sess'[access'[s]] = s
        /\ \A s \in Sessions : refresh'[s] # None =>
              HasWritten(refresh[s])' /\ pc'[refresh'[s]] # "refresh" /\ sess'[refresh'[s]] = s /\ s \in Formal
    <2>1. \A w : HasWritten(w)' <=> HasWritten(w)
      BY <1>1 DEF opVars, HasWritten
    <2>2. ASSUME NEW s \in Sessions, NEW w, w = access'[s], w # None
          PROVE  HasWritten(w)' /\ sess'[w] = s
      BY <1>1, <2>1, <2>2 DEF Base, Named, opVars
    <2>3. ASSUME NEW s \in Sessions, NEW w, w = refresh'[s], w # None
          PROVE  HasWritten(w)' /\ pc'[w] # "refresh" /\ sess'[w] = s /\ s \in Formal
      BY <1>1, <2>1, <2>3 DEF Base, Named, opVars
    <2> QED
      BY <2>2, <2>3
  <1>4. Named'
    BY <1>1, <1>3 DEF Base, opVars, Named, Begun
  <1> QED
    BY <1>1, <1>2, <1>4 DEF Base

LEMMA InitBase == ASSUME Init PROVE Base
  <1>1. PICK cast \in Casts : /\ pc = [o \in Ops |-> IF o \in cast.ops THEN "idle" ELSE "failed"]
                               /\ expiries = cast.expiries /\ aborts = cast.aborts
    BY DEF Init
  <1>2. expiries \in Nat /\ aborts \in Nat
    BY <1>1, TokenAssumption
  <1>3. \A o \in Ops : pc[o] \in {"idle", "failed"}
    BY <1>1
  <1>4. pc \in [Ops -> Steps]
    BY <1>1 DEF Steps, Ended
  <1>5. \A o \in Locking : o \in Ops /\ o # None
    BY TokenAssumption DEF Locking, Sessions, Ops
  <1>6. RowHeld
    <2>1. \A o \in Locking : rowLock # o
      BY <1>5 DEF Init
    <2> QED
      BY <1>3, <1>5, <2>1 DEF RowHeld, Ended
  <1>7. TypeOK
    BY <1>2, <1>4, <1>6 DEF Init, TypeOK
  <1>8. Ways
    BY <1>3 DEF Init, Ways, Way, Steps, Ended
  <1>9. Named
    <2>1. \A o \in Ops : ~Begun(o) /\ pc[o] # "delete" /\ sess[o] = None
      BY <1>3 DEF Begun, Init
    <2>2. \A s \in Sessions : access[s] = None /\ refresh[s] = None
      BY DEF Init
    <2> QED
      BY <2>1, <2>2 DEF Named, Ops, Sessions
  <1>10. Past
    BY DEF Init, Past
  <1> QED
    BY <1>7, <1>8, <1>9, <1>10 DEF Base

-----------------------------------------------------------------------------
(* Refresh tokens work once.                                               *)

\* A refresh that has not compared its token yet.
Unredeemed(g) == pc[g] = "redeem" \/ (pc[g] \in {"snap", "probe", "prune"} /\ goal[g] = "remote")

\* Where an unredeemed refresh goes.
LEMMA StepUnredeemed ==
    ASSUME Base, NEW o \in Ops, Step(o), Unredeemed(o)
    PROVE  /\ Unredeemed(o)' \/ pc'[o] = "failed" \/ (pc[o] = "redeem" /\ Redeemable(o))
           /\ UNCHANGED <<access, refresh>>
  <1> USE DEF Base, TypeOK, Unredeemed, Goto, redisVars
  <1>1. CASE ReadIndex(o) BY <1>1 DEF ReadIndex
  <1>2. CASE Probe(o) BY <1>2 DEF Probe
  <1>3. CASE Prune(o) BY <1>3 DEF Prune
  <1>4. CASE Redeem(o) BY <1>4 DEF Redeem
  <1>5. CASE Abort(o) BY <1>5 DEF Abort
  <1> QED
    BY <1>1, <1>2, <1>3, <1>4, <1>5 DEF Step, BeginLogin, LockLogin, BeginOAuth, LockOAuth,
       BeginRefresh, BeginLogout, BeginReset, BeginToggle, LockUpdate, ReadSwagger, DeleteKeys,
       RemoveMembers, CheckIndex, Unlist, WriteAccess, WriteRefresh, Commit, Begin

LEMMA BeginUnredeemed ==
    ASSUME Base, NEW o \in Refreshes, Step(o), pc[o] = "idle"
    PROVE  Unredeemed(o)' /\ UNCHANGED <<access, refresh>>
  <1>1. BeginRefresh(o)
    BY Beginning, Kinds DEF BeginLogin, BeginOAuth, BeginLogout, BeginReset, BeginToggle, Ops
  <1> QED
    BY <1>1 DEF BeginRefresh, Goto, Unredeemed, Base, TypeOK, Ops, redisVars

\* A redeemed token is gone, and a refresh that comes with it later fails.
Redeemed ==
    /\ \A f \in Refreshes, s \in Sessions : pc[f] = "done" => refresh[s] # tok[f]
    /\ \A f, g \in Refreshes :
          (f \in before[g] /\ pc[f] = "done" /\ tok[f] = tok[g]) => Unredeemed(g) \/ pc[g] = "failed"

LEMMA StepRedeemed == ASSUME Base, Redeemed, NEW o \in Ops, Step(o) PROVE Redeemed'
  <1>1. Frame(o)
    BY StepBase
  <1>2. ASSUME NEW f \in Refreshes, NEW s \in Sessions, pc'[f] = "done" PROVE refresh'[s] # tok'[f]
    <2>1. pc[f] # "idle"
      <3>1. CASE f = o /\ pc[o] = "idle"
        BY <1>2, <3>1, BeginUnredeemed DEF Unredeemed
      <3>2. CASE f # o
        BY <1>1, <1>2, <3>2 DEF Frame, Ops
      <3> QED
        BY <3>1, <3>2
    <2>2. Begun(f)
      BY <1>1, <1>2, <2>1 DEF Frame, Begun, Ended, Ops
    <2>3. /\ tok'[f] = tok[f] /\ tok[f] \in Writers /\ tok[f] # None
          /\ pc[tok[f]] = "done" /\ sess[tok[f]] = sess[f]
      BY <1>1, <2>1, <2>2, TokenAssumption DEF Frame, Base, Named, Ops, Writers, Formal
    <2>4. CASE f # o
      <3>1. pc[f] = "done"
        BY <1>1, <1>2, <2>4 DEF Frame, Ops
      <3>2. tok[f] # o
        BY <1>1, <2>3 DEF Frame, Ended
      <3> QED
        BY <1>1, <2>3, <3>1, <3>2 DEF Frame, Redeemed
    <2>5. CASE f = o
      <3>1. WriteRefresh(o)
        BY <1>1, <1>2, <2>1, <2>5, Kinds DEF Frame, Step, BeginLogin, LockLogin, BeginOAuth,
           LockOAuth, BeginRefresh, BeginLogout, BeginReset,
           BeginToggle, LockUpdate, ReadIndex, Probe, Prune, ReadSwagger, DeleteKeys, RemoveMembers,
           CheckIndex, Unlist, Redeem, WriteAccess, WriteRefresh, Commit, Abort,
           Begin, Goto, AfterRevoke, FirstStep, Base, TypeOK, Ways, Way, Formal, Writers, Ops, Ended,
           Sessions
      <3>2. refresh' = [refresh EXCEPT ![sess[o]] = o] /\ pc[o] = "refresh"
        BY <3>1 DEF WriteRefresh, NewRefresh
      <3>3. CASE s = sess[o]
        <4>1. refresh'[s] = o
          BY <3>2, <3>3 DEF Base, TypeOK
        <4> QED
          BY <2>3, <2>5, <3>2, <4>1
      <3>4. CASE s # sess[o]
        <4>1. refresh'[s] = refresh[s]
          BY <3>2, <3>4 DEF Base, TypeOK
        <4>2. refresh[s] # None => sess[refresh[s]] = s
          BY DEF Base, Named
        <4> QED
          BY <2>3, <2>5, <3>4, <4>1, <4>2
      <3> QED
        BY <3>3, <3>4
    <2> QED
      BY <2>4, <2>5
  <1>3. ASSUME NEW f \in Refreshes, NEW g \in Refreshes, f \in before'[g], pc'[f] = "done", tok'[f] = tok'[g]
        PROVE  Unredeemed(g)' \/ pc'[g] = "failed"
    <2>1. CASE g = o /\ pc[o] = "idle"
      BY <2>1, BeginUnredeemed
    <2>2. CASE ~(g = o /\ pc[o] = "idle")
      <3>1. f \in before[g] /\ pc[f] \in Ended /\ f # o /\ pc[g] # "idle"
        BY <1>1, <1>3, <2>2 DEF Frame, Base, Past, Ops
      <3>2. pc[f] = "done" /\ tok[f] = tok[g]
        BY <1>1, <1>3, <2>2, <3>1 DEF Frame, Ops
      <3>3. Unredeemed(g) \/ pc[g] = "failed"
        BY <3>1, <3>2 DEF Redeemed
      <3>4. CASE g # o
        BY <1>1, <3>3, <3>4 DEF Frame, Unredeemed, Ops
      <3>5. CASE g = o
        <4>1. Unredeemed(o)
          BY <1>1, <3>3, <3>5 DEF Frame, Ended
        <4>2. ~(pc[o] = "redeem" /\ Redeemable(o))
          <5>1. Begun(g)
            BY <4>1, <3>5 DEF Unredeemed, Begun
          <5>2. sess[g] \in Sessions
            BY <5>1 DEF Base, Named, Sessions, Formal
          <5> QED
            BY <3>2, <3>5, <5>2 DEF Redeemable, Redeemed
        <4> QED
          BY <3>5, <4>1, <4>2, StepUnredeemed
      <3> QED
        BY <3>4, <3>5
    <2> QED
      BY <2>1, <2>2
  <1> QED
    BY <1>2, <1>3 DEF Redeemed

LEMMA ExpireRedeemed == ASSUME Base, Redeemed, Expires PROVE Redeemed'
  <1>1. /\ UNCHANGED opVars
        /\ \A s \in Sessions : refresh'[s] \in {refresh[s], None}
    BY ExpireTyped DEF Base
  <1>2. \A f \in Refreshes : pc[f] = "done" => tok[f] # None
    BY TokenAssumption DEF Base, Named, Begun, Ops, Writers, Formal
  <1> QED
    BY <1>1, <1>2 DEF opVars, Redeemed, Unredeemed

LEMMA InitRedeemed == ASSUME Init PROVE Redeemed
  <1>1. \A o \in Ops : pc[o] # "done"
    BY DEF Init
  <1> QED
    BY <1>1 DEF Redeemed, Ops

LEMMA RedeemedOnce == ASSUME Base, Redeemed PROVE RedeemOnce
  <1> SUFFICES ASSUME NEW f \in Refreshes, NEW g \in Refreshes, f # g, pc[f] = "done", pc[g] = "done",
                      tok[f] = tok[g]
               PROVE  Overlap(f, g)
    BY DEF RedeemOnce
  <1> QED
    BY DEF Redeemed, Unredeemed, Overlap

-----------------------------------------------------------------------------
(* Two requests that ran together have run together for ever.              *)

LEMMA OverlapStays ==
    ASSUME Base, NEW o \in Ops, Step(o), NEW p \in Ops, NEW q \in Ops, Overlap(p, q)
    PROVE  Overlap(p, q)'
  <1>1. Frame(o)
    BY StepBase
  <1>2. pc[p] # "idle" /\ pc[q] # "idle" /\ p \notin before[q] /\ q \notin before[p]
    BY DEF Overlap
  <1>3. before'[p] = before[p] /\ before'[q] = before[q] /\ pc'[p] # "idle" /\ pc'[q] # "idle"
    BY <1>1, <1>2 DEF Frame
  <1> QED
    BY <1>2, <1>3 DEF Overlap

\* A request that is not over has run together with every other that has begun,
\* but for those it came after.
LEMMA OverlapNow ==
    ASSUME Base, NEW o \in Ops, pc[o] \notin Ended \cup {"idle"}, NEW q \in Ops, pc[q] # "idle"
    PROVE  Overlap(o, q) \/ q \in before[o]
  BY DEF Base, Past, Overlap

-----------------------------------------------------------------------------
(* Logging out.                                                            *)

\* A request of the session that was logged out ran during the logout.
Meets(k) == \E w \in Sessions \cup Refreshes : sess[w] = sess[k] /\ Overlap(w, k)

\* A session that lives on after its keys were deleted has a request that ran
\* meanwhile; and so has a refresh that came later and found its token.
Logged ==
    /\ \A k \in Logouts : pc[k] \in {"srem", "check", "unlist", "done"} /\ Alive(sess[k]) => Meets(k)
    /\ \A k \in Logouts : Begun(k) => k \notin before[sess[k]]
    /\ \A k \in Logouts, w \in Refreshes :
          (k \in before[w] /\ pc[k] = "done" /\ sess[w] = sess[k]) =>
              Unredeemed(w) \/ pc[w] = "failed" \/ Meets(k)

LEMMA MeetsStays == ASSUME Base, NEW o \in Ops, Step(o), NEW k \in Ops, Meets(k) PROVE Meets(k)'
  <1>1. PICK w \in Sessions \cup Refreshes : sess[w] = sess[k] /\ Overlap(w, k)
    BY DEF Meets
  <1>2. w \in Ops /\ pc[w] # "idle" /\ pc[k] # "idle"
    BY <1>1 DEF Overlap, Ops, Sessions
  <1>3. sess'[w] = sess[w] /\ sess'[k] = sess[k]
    BY <1>2, StepBase DEF Frame
  <1> QED
    BY <1>1, <1>2, <1>3, OverlapStays DEF Meets

LEMMA StepLogged == ASSUME Base, Logged, NEW o \in Ops, Step(o) PROVE Logged'
  <1>1. Frame(o) /\ Base'
    BY StepBase
  <1>2. ASSUME NEW k \in Logouts, pc'[k] \in {"srem", "check", "unlist", "done"}, Alive(sess[k])'
        PROVE  Meets(k)'
    <2>1. k \in Ops /\ sess'[k] \in Sessions /\ pc[k] # "idle" /\ sess'[k] = sess[k]
      <3>1. k \in Ops
        BY DEF Ops
      <3>2. CASE k = o /\ pc[o] = "idle"
        <4>1. BeginLogout(o)
          BY <3>1, <3>2, Beginning, Kinds DEF BeginLogin, BeginOAuth, BeginRefresh, BeginReset,
             BeginToggle
        <4> QED
          BY <1>2, <3>2, <4>1 DEF BeginLogout, Goto, Base, TypeOK
      <3>3. CASE k # o \/ pc[o] # "idle"
        <4>1. pc[k] # "idle" /\ sess'[k] = sess[k]
          BY <1>1, <1>2, <3>1, <3>3 DEF Frame
        <4> QED
          BY <1>1, <1>2, <3>1, <4>1 DEF Base, Named, Begun
      <3> QED
        BY <3>2, <3>3
    <2>2. CASE k # o
      <3>1. pc[k] \in {"srem", "check", "unlist", "done"}
        BY <1>1, <1>2, <2>1, <2>2 DEF Frame
      <3>2. CASE Alive(sess[k])
        BY <2>1, <3>1, <3>2, MeetsStays DEF Logged
      <3>3. CASE ~Alive(sess[k])
        <4>1. pc[o] \in {"access", "refresh"} /\ sess[o] = sess[k]
          BY <1>1, <1>2, <2>1, <3>3 DEF Frame, Alive
        <4>2. o \in Sessions \cup Refreshes
          BY <4>1, Kinds DEF Base, Ways, Way, Ended, Steps, Formal, Sessions, Ops
        <4>3. CASE Overlap(o, k)
          BY <2>1, <4>2, <4>3, <4>1, MeetsStays DEF Meets
        <4>4. CASE k \in before[o]
          <5>1. pc[k] = "done"
            BY <3>1, <2>1, <4>4 DEF Base, Past, Ended
          <5>2. CASE o \in Refreshes
            BY <2>1, <4>1, <4>4, <5>1, <5>2, MeetsStays DEF Logged, Unredeemed
          <5>3. CASE o \in Sessions
            <6>1. sess[o] = o
              BY <4>1, <5>3 DEF Base, Named, Begun
            <6> QED
              BY <4>1, <4>4, <5>1, <6>1 DEF Logged, Begun
          <5> QED
            BY <4>2, <5>2, <5>3
        <4> QED
          BY <2>1, <4>1, <4>3, <4>4, OverlapNow DEF Ended
      <3> QED
        BY <3>2, <3>3
    <2>3. CASE k = o
      <3>1. pc[o] \in {"delete", "srem", "check", "unlist"}
        BY <1>1, <2>1, <2>3, Kinds DEF Frame, Base, Ways, Way, Formal, Ended
      <3>2. CASE pc[o] = "delete"
        <4>1. DeleteKeys(o) \/ Abort(o)
          BY <3>2 DEF Step, BeginLogin, LockLogin, BeginOAuth, LockOAuth, BeginRefresh,
             BeginLogout, BeginReset, BeginToggle, LockUpdate, ReadIndex, Probe, Prune, ReadSwagger,
             RemoveMembers, CheckIndex, Unlist, Redeem, WriteAccess, WriteRefresh, Commit, Begin
        <4>2. DeleteKeys(o)
          BY <1>2, <2>3, <4>1 DEF Abort, Goto, Base, TypeOK
        <4>3. found[o] = {sess[k]}
          BY <2>3, <3>2 DEF Base, Named
        <4>4. access'[sess[k]] = None /\ refresh'[sess[k]] = None
          BY <2>1, <4>2, <4>3 DEF DeleteKeys, RevokedRefresh
        <4> QED
          BY <1>2, <2>1, <4>4 DEF Alive
      <3>3. CASE pc[o] # "delete"
        <4>1. Alive(sess[k])
          BY <1>1, <1>2, <2>1, <3>1 DEF Frame, Alive
        <4> QED
          BY <2>1, <2>3, <3>1, <3>3, <4>1, MeetsStays DEF Logged
      <3> QED
        BY <3>2, <3>3
    <2> QED
      BY <2>2, <2>3
  <1>3. ASSUME NEW k \in Logouts, Begun(k)' PROVE k \notin before'[sess'[k]]
    <2>1. k \in Ops /\ sess'[k] \in Sessions /\ sess'[k] \in Ops /\ sess'[k] # k
      BY <1>1, <1>3, Kinds DEF Base, Named, Ops, Sessions
    <2>2. CASE k = o /\ pc[o] = "idle"
      <3>1. before'[sess'[k]] = before[sess'[k]]
        BY <1>1, <2>1, <2>2 DEF Frame
      <3> QED
        BY <2>1, <2>2, <3>1 DEF Base, Past, Ended
    <2>3. CASE ~(k = o /\ pc[o] = "idle")
      <3>1. Begun(k) /\ sess'[k] = sess[k]
        BY <1>1, <1>3, <2>1, <2>3 DEF Frame, Begun, Ended
      <3>2. pc[sess[k]] # "idle"
        BY <2>1, <3>1, TokenAssumption DEF Base, Named
      <3>3. before'[sess[k]] = before[sess[k]]
        BY <1>1, <2>1, <3>1, <3>2 DEF Frame
      <3> QED
        BY <3>1, <3>3 DEF Logged
    <2> QED
      BY <2>2, <2>3
  <1>4. ASSUME NEW k \in Logouts, NEW w \in Refreshes, k \in before'[w], pc'[k] = "done", sess'[w] = sess'[k]
        PROVE  Unredeemed(w)' \/ pc'[w] = "failed" \/ Meets(k)'
    <2>1. CASE w = o /\ pc[o] = "idle"
      BY <2>1, BeginUnredeemed
    <2>2. CASE ~(w = o /\ pc[o] = "idle")
      <3>1. k \in Ops /\ k \in before[w] /\ pc[k] \in Ended /\ k # o /\ pc[w] # "idle"
        BY <1>1, <1>4, <2>2 DEF Frame, Base, Past, Ops
      <3>2. pc[k] = "done" /\ sess[w] = sess[k]
        BY <1>1, <1>4, <2>2, <3>1 DEF Frame, Ops
      <3>3. Unredeemed(w) \/ pc[w] = "failed" \/ Meets(k)
        BY <3>1, <3>2 DEF Logged
      <3>4. CASE Meets(k)
        BY <3>1, <3>4, MeetsStays
      <3>5. CASE w # o /\ ~Meets(k)
        BY <1>1, <3>3, <3>5 DEF Frame, Unredeemed, Ops
      <3>6. CASE w = o /\ ~Meets(k)
        <4>1. Unredeemed(o)
          BY <1>1, <3>3, <3>6 DEF Frame, Ended
        <4>2. ~(pc[o] = "redeem" /\ Redeemable(o))
          <5>1. Begun(w)
            BY <4>1, <3>6 DEF Unredeemed, Begun
          <5>2. sess[w] \in Sessions /\ tok[w] # None
            BY <5>1, TokenAssumption DEF Base, Named, Sessions, Formal, Writers, Ops
          <5> QED
            BY <3>1, <3>2, <3>6, <5>2 DEF Redeemable, Logged, Alive
        <4> QED
          BY <3>6, <4>1, <4>2, StepUnredeemed
      <3> QED
        BY <3>4, <3>5, <3>6
    <2> QED
      BY <2>1, <2>2
  <1> QED
    BY <1>2, <1>3, <1>4 DEF Logged

LEMMA ExpireLogged == ASSUME Base, Logged, Expires PROVE Logged'
  <1>1. /\ UNCHANGED opVars
        /\ \A s \in Sessions : access'[s] \in {access[s], None} /\ refresh'[s] \in {refresh[s], None}
    BY ExpireTyped DEF Base
  <1>2. \A k : Meets(k)' <=> Meets(k)
    BY <1>1 DEF opVars, Meets, Overlap
  <1>3. \A k \in Logouts : pc[k] \in {"srem", "check", "unlist", "done"} => sess[k] \in Sessions
    BY DEF Base, Named, Begun
  <1>4. \A s \in Sessions : Alive(s)' => Alive(s)
    BY <1>1 DEF Alive
  <1>5. \A k \in Logouts : pc'[k] \in {"srem", "check", "unlist", "done"} /\ Alive(sess[k])' => Meets(k)'
    BY <1>1, <1>2, <1>3, <1>4 DEF opVars, Logged
  <1> QED
    BY <1>1, <1>2, <1>5 DEF opVars, Logged, Unredeemed, Begun

LEMMA InitLogged == ASSUME Init PROVE Logged
  <1>1. \A o \in Ops : pc[o] \in {"idle", "failed"} /\ before[o] = {}
    BY DEF Init
  <1> QED
    BY <1>1 DEF Logged, Ops, Begun

-----------------------------------------------------------------------------
(* The two tokens of a session.                                            *)

\* Who writes a token has not come after who wrote the other, unless that one is
\* between the two or failed there.
Paired ==
    /\ \A x, y \in Ops : pc[y] = "refresh" /\ access[sess[y]] = x => x \notin before[y]
    /\ \A x, y \in Ops, s \in Sessions : access[s] = x /\ refresh[s] = y => x \notin before[y]
    /\ \A x, y \in Ops, s \in Formal :
          access[s] = x /\ refresh[s] = y /\ pc[x] \notin {"refresh", "failed"} => y \notin before[x]

LEMMA StepPaired == ASSUME Base, Paired, NEW o \in Ops, Step(o) PROVE Paired'
  <1>1. Frame(o) /\ Base'
    BY StepBase
  <1>2. \A q \in Ops : o \notin before[q]
    BY <1>1 DEF Frame, Base, Past
  <1>3. \A s \in Sessions, x \in Ops :
            access[s] = x \/ refresh[s] = x => HasWritten(x) /\ sess[x] = s /\ pc[x] # "idle"
    BY TokenAssumption DEF Base, Named, HasWritten, Ended
  <1>4. ASSUME NEW x \in Ops, NEW y \in Ops, pc'[y] = "refresh", access'[sess'[y]] = x
        PROVE  x \notin before'[y]
    <2>1. sess'[y] \in Formal
      BY <1>1, <1>4, Kinds DEF Base, Ways, Way, Named, Begun, Formal, Sessions, Ops, Ended
    <2>2. CASE y # o
      <3>1. pc[y] = "refresh" /\ sess'[y] = sess[y] /\ before'[y] = before[y]
        BY <1>1, <1>4, <2>2 DEF Frame
      <3> QED
        BY <1>1, <1>2, <1>4, <2>1, <3>1, TokenAssumption DEF Frame, Paired, Sessions, Formal
    <2>3. CASE y = o
      <3>1. WriteAccess(o)
        BY <1>1, <1>4, <2>3, Kinds DEF Frame, Step, BeginLogin, LockLogin, BeginOAuth, LockOAuth,
           BeginRefresh, BeginLogout, BeginReset, BeginToggle, LockUpdate, ReadIndex, Probe, Prune,
           ReadSwagger, DeleteKeys, RemoveMembers, CheckIndex, Unlist, Redeem, WriteRefresh, Commit,
           Abort, Begin, Goto, AfterRevoke, FirstStep, Base, TypeOK
      <3>2. access' = [access EXCEPT ![sess[o]] = o] /\ sess' = sess /\ before' = before
        BY <3>1 DEF WriteAccess
      <3>3. x = o
        BY <1>4, <2>1, <2>3, <3>2 DEF Base, TypeOK, Sessions, Formal
      <3> QED
        BY <1>2, <3>2, <3>3
    <2> QED
      BY <2>2, <2>3
  <1>5. ASSUME NEW x \in Ops, NEW y \in Ops, NEW s \in Sessions, access'[s] = x, refresh'[s] = y
        PROVE  x \notin before'[y]
    <2>1. access[s] = x \/ (x = o /\ pc[o] = "access")
      BY <1>1, <1>5, TokenAssumption DEF Frame
    <2>2. CASE refresh[s] = y
      <3>1. before'[y] = before[y]
        BY <1>1, <1>3, <2>2 DEF Frame
      <3> QED
        BY <1>2, <2>1, <2>2, <3>1 DEF Paired
    <2>3. CASE y = o /\ pc[o] = "refresh" /\ s = sess[o]
      <3>1. before'[y] = before[y]
        BY <1>1, <2>3 DEF Frame
      <3> QED
        BY <2>1, <2>3, <3>1 DEF Paired
    <2> QED
      BY <1>1, <1>5, <2>2, <2>3, TokenAssumption DEF Frame
  <1>6. ASSUME NEW x \in Ops, NEW y \in Ops, NEW s \in Formal, access'[s] = x, refresh'[s] = y,
               pc'[x] \notin {"refresh", "failed"}
        PROVE  y \notin before'[x]
    <2>0. s \in Sessions
      BY DEF Sessions, Formal
    <2>1. CASE x = o /\ pc[o] = "access" /\ s = sess[o]
      <3>1. o \notin Swaggers
        BY <2>1, Kinds DEF Base, Named, Begun, Sessions, Formal
      <3>2. WriteAccess(o) \/ Abort(o)
        BY <2>1 DEF Step, BeginLogin, LockLogin, BeginOAuth, LockOAuth, BeginRefresh,
           BeginLogout, BeginReset, BeginToggle, LockUpdate, ReadIndex, Probe, Prune, ReadSwagger,
           DeleteKeys, RemoveMembers, CheckIndex, Unlist, Redeem, WriteRefresh, Commit, Begin
      <3> QED
        BY <1>6, <2>1, <3>1, <3>2 DEF WriteAccess, Abort, Goto, Base, TypeOK
    <2>2. CASE access[s] = x
      <3>1. before'[x] = before[x]
        BY <1>1, <1>3, <2>0, <2>2 DEF Frame
      <3>2. CASE refresh[s] = y
        <4>1. CASE pc[x] \notin {"refresh", "failed"}
          BY <2>2, <3>1, <3>2, <4>1 DEF Paired
        <4>2. CASE pc[x] = "failed"
          BY <1>1, <1>6, <4>2 DEF Frame, Ended
        <4>3. CASE pc[x] = "refresh"
          <5>1. x = o
            BY <1>1, <1>6, <4>3 DEF Frame
          <5>2. WriteRefresh(o) \/ Abort(o)
            BY <4>3, <5>1 DEF Step, BeginLogin, LockLogin, BeginOAuth, LockOAuth, BeginRefresh,
               BeginLogout, BeginReset, BeginToggle, LockUpdate, ReadIndex, Probe, Prune, ReadSwagger,
               DeleteKeys, RemoveMembers, CheckIndex, Unlist, Redeem, WriteAccess, Commit, Begin
          <5>3. WriteRefresh(o)
            BY <1>6, <5>1, <5>2 DEF Abort, Goto, Base, TypeOK
          <5>4. sess[o] = s
            BY <1>3, <2>0, <2>2, <5>1
          <5>5. refresh'[s] = o
            BY <2>0, <5>3, <5>4 DEF WriteRefresh, NewRefresh, Base, TypeOK
          <5> QED
            BY <1>2, <1>6, <3>1, <5>1, <5>5
        <4> QED
          BY <4>1, <4>2, <4>3
      <3>3. CASE y = o
        BY <1>2, <3>1, <3>3
      <3> QED
        BY <1>1, <1>6, <2>0, <3>2, <3>3, TokenAssumption DEF Frame
    <2> QED
      BY <1>1, <1>6, <2>0, <2>1, <2>2, TokenAssumption DEF Frame
  <1> QED
    BY <1>4, <1>5, <1>6 DEF Paired

LEMMA ExpirePaired == ASSUME Base, Paired, Expires PROVE Paired'
  <1>1. /\ UNCHANGED opVars
        /\ \A s \in Sessions : access'[s] \in {access[s], None} /\ refresh'[s] \in {refresh[s], None}
    BY ExpireTyped DEF Base
  <1>2. \A y \in Ops : pc[y] = "refresh" => sess[y] \in Sessions
    BY Kinds DEF Base, Ways, Way, Named, Begun, Formal, Sessions, Ops, Ended
  <1>3. /\ \A x, y \in Ops : pc'[y] = "refresh" /\ access'[sess'[y]] = x => x \notin before'[y]
        /\ \A x, y \in Ops, s \in Sessions : access'[s] = x /\ refresh'[s] = y => x \notin before'[y]
    BY <1>1, <1>2, TokenAssumption DEF Paired, opVars
  <1>4. \A x, y \in Ops, s \in Formal :
          access'[s] = x /\ refresh'[s] = y /\ pc'[x] \notin {"refresh", "failed"} => y \notin before'[x]
    BY <1>1, TokenAssumption DEF Paired, opVars, Sessions, Formal
  <1> QED
    BY <1>3, <1>4 DEF Paired

LEMMA InitPaired == ASSUME Init PROVE Paired
  BY DEF Init, Paired

LEMMA PairedIntact == ASSUME Base, Paired PROVE PairIntact
  <1> SUFFICES ASSUME NEW s \in Formal, NEW x, NEW y, x = access[s], y = refresh[s], x # None, y # None,
                      pc[x] \notin {"refresh", "failed"}
               PROVE  Overlap(x, y)
    BY DEF PairIntact
  <1>1. /\ s \in Sessions /\ x \in Ops /\ y \in Ops /\ HasWritten(x) /\ HasWritten(y)
    BY DEF Base, TypeOK, Named, Sessions, Formal, Ops, Writers
  <1> QED
    BY <1>1 DEF Paired, Overlap, HasWritten, Ended

-----------------------------------------------------------------------------
(* The index of the sessions.                                              *)

\* A request that reads the sessions to take some out of the index, and not one
\* that may yet learn from the row that it need not.
Sure(q) ==
    \/ q \in Logouts \cup Resets \cup Toggles
    \/ q \in Writers /\ ~flag[q] /\ ~(q \in Logins /\ pc[q] \in {"idle", "lock"})

\* Such a request ran with w.
Shaken(w) == \E q \in Ops \ {w} : Sure(q) /\ Overlap(q, w)

LEMMA SureStays ==
    ASSUME Base, NEW o \in Ops, Step(o), NEW q \in Ops, pc[q] # "idle", Sure(q)
    PROVE  Sure(q)'
  <1>1. Frame(o)
    BY StepBase
  <1>2. CASE q # o
    BY <1>1, <1>2 DEF Frame, Sure
  <1>3. CASE q \in Logouts \cup Resets \cup Toggles
    BY <1>3 DEF Sure
  <1>4. CASE q = o /\ q \in Writers /\ ~flag[q] /\ ~(q \in Logins /\ pc[q] \in {"idle", "lock"})
    <2>1. flag'[o] = flag[o]
      BY <1>1, <1>4, Kinds DEF Frame, Base, Ways, Way, Writers, Formal
    <2>2. ASSUME o \in Logins, pc'[o] \in {"idle", "lock"} PROVE FALSE
      BY <1>1, <1>4, <2>2, Kinds DEF Frame, Step, BeginLogin, LockLogin, BeginOAuth, LockOAuth,
         BeginRefresh, BeginLogout, BeginReset, BeginToggle, LockUpdate, ReadIndex, Probe, Prune,
         ReadSwagger, DeleteKeys, RemoveMembers, CheckIndex, Unlist, Redeem, WriteAccess, WriteRefresh,
         Commit, Abort, Begin, Goto, AfterRevoke, FirstStep, Base, TypeOK, Ended
    <2> QED
      BY <1>4, <2>1, <2>2 DEF Sure
  <1> QED
    BY <1>2, <1>3, <1>4 DEF Sure

LEMMA ShakenStays == ASSUME Base, NEW o \in Ops, Step(o), NEW w \in Ops, Shaken(w) PROVE Shaken(w)'
  <1>1. PICK q \in Ops \ {w} : Sure(q) /\ Overlap(q, w)
    BY DEF Shaken
  <1>2. Sure(q)' /\ Overlap(q, w)'
    BY <1>1, SureStays, OverlapStays DEF Overlap
  <1> QED
    BY <1>2 DEF Shaken

\* A request that shrinks the index runs with all that have begun, but for those
\* it came after.
LEMMA ShakenNow ==
    ASSUME Base, NEW o \in Ops, Sure(o), pc[o] \notin Ended \cup {"idle"},
           NEW w \in Ops, pc[w] # "idle", w # o, w \notin before[o]
    PROVE  Shaken(w)
  BY OverlapNow DEF Shaken

\* Who wrote a token, and who writes one now.
LEMMA Writing ==
    ASSUME Base, NEW s \in Sessions, NEW w, w \in WroteLast(s)
    PROVE  w \in Ops /\ HasWritten(w) /\ sess[w] = s /\ pc[w] # "idle" /\ Alive(s)
  <1>1. w \in Ops
    BY DEF WroteLast, Base, TypeOK, Ops, Sessions, Writers, Formal
  <1>2. HasWritten(w) /\ sess[w] = s
    BY DEF WroteLast, Base, Named
  <1> QED
    BY <1>1, <1>2 DEF HasWritten, Ended, WroteLast, Alive

LEMMA StepWriting ==
    ASSUME Base, NEW o \in Ops, Step(o), NEW s \in Sessions, NEW w, w \in WroteLast(s)'
    PROVE  w \in WroteLast(s) \/ (w = o /\ s = sess[o] /\ (WriteAccess(o) \/ WriteRefresh(o)))
  <1>1. Frame(o)
    BY StepBase
  <1>2. CASE WriteAccess(o) \/ WriteRefresh(o)
    BY <1>1, <1>2 DEF Frame, WroteLast
  <1>3. CASE UNCHANGED <<access, refresh>>
    BY <1>3 DEF WroteLast
  <1>4. CASE DeleteKeys(o)
    BY <1>4 DEF DeleteKeys, RevokedRefresh, WroteLast
  <1> QED
    BY <1>2, <1>3, <1>4 DEF Step, BeginLogin, LockLogin, BeginOAuth, LockOAuth, BeginRefresh,
       BeginLogout, BeginReset, BeginToggle, LockUpdate, ReadIndex, Probe, Prune, ReadSwagger,
       RemoveMembers, CheckIndex, Unlist, Redeem, Commit, Abort, redisVars

\* A request that has revoked the other sessions, as it had to.
Cleared(o) ==
    \/ (o \in Resets \/ (o \in Toggles /\ ~flag[o])) /\ pc[o] \in {"srem", "check", "unlist", "commit", "done"}
    \/ /\ o \in Writers /\ ~flag[o]
       /\ \/ pc[o] \in {"srem", "check", "unlist", "access", "refresh"}
          \/ \E z \in Formal : o \in WroteLast(z)

\* How a request comes to have cleared.
LEMMA ClearedFrom ==
    ASSUME Base, NEW o \in Ops, Step(o), Cleared(o)'
    PROVE  \/ Cleared(o) \/ DeleteKeys(o)
           \/ Prune(o) /\ o \in Writers /\ goal[o] = "revoke" /\ Targets(o) = {}
           \/ ReadSwagger(o) /\ o \notin Writers /\ AllTargets(o) = {}
  <1>1. Frame(o)
    BY StepBase
  <1>2. pc[o] \in Way(o)
    BY DEF Base, Ways
  <1>3. CASE o \in Writers /\ ~flag'[o] /\ \E z \in Formal : o \in WroteLast(z)'
    <2>1. PICK z \in Formal : o \in WroteLast(z)'
      BY <1>3
    <2>2. z \in Sessions
      BY DEF Sessions, Formal
    <2>3. CASE o \in WroteLast(z)
      <3>1. HasWritten(o)
        BY <2>2, <2>3, Writing
      <3>2. flag'[o] = flag[o]
        BY <1>1, <3>1 DEF Frame, HasWritten, Ended
      <3> QED
        BY <1>3, <2>3, <3>2 DEF Cleared
    <2>4. CASE WriteAccess(o) \/ WriteRefresh(o)
      BY <1>2, <2>4, Kinds DEF Cleared, WriteAccess, WriteRefresh, Way, Ended, Writers, Formal, Ops,
         Sessions
    <2> QED
      BY <2>1, <2>2, <2>3, <2>4, StepWriting
  <1>4. CASE /\ o \in Resets \/ (o \in Toggles /\ ~flag'[o])
             /\ pc'[o] \in {"srem", "check", "unlist", "commit", "done"}
    <2>1. o \notin Writers /\ o \notin Logouts /\ o \notin Swaggers
      BY <1>4, Kinds DEF Writers, Formal
    <2> USE <1>2, <1>4, <2>1, Kinds DEF Goto, AfterRevoke, Cleared, Base, TypeOK, Ended
    <2>2. CASE LockUpdate(o) BY <2>2 DEF LockUpdate
    <2>3. CASE ReadSwagger(o) BY <2>3 DEF ReadSwagger
    <2>4. CASE RemoveMembers(o) BY <2>4 DEF RemoveMembers
    <2>5. CASE CheckIndex(o) BY <2>5 DEF CheckIndex
    <2>6. CASE Unlist(o) BY <2>6 DEF Unlist
    <2>7. CASE Commit(o) BY <2>7 DEF Commit
    <2>8. CASE Prune(o)
      BY <2>8 DEF Prune, Ways
    <2>9. CASE WriteRefresh(o) \/ WriteAccess(o) \/ LockOAuth(o) \/ Redeem(o)
      BY <2>9 DEF WriteRefresh, WriteAccess, LockOAuth, Redeem, Way, Formal, Writers
    <2> QED
      BY <2>2, <2>3, <2>4, <2>5, <2>6, <2>7, <2>8, <2>9 DEF Step, BeginLogin, LockLogin, BeginOAuth,
         BeginRefresh, BeginLogout, BeginReset, BeginToggle, ReadIndex, Probe, Abort, Writers, Formal
  <1>5. CASE /\ o \in Writers /\ ~flag'[o]
             /\ pc'[o] \in {"srem", "check", "unlist", "access", "refresh"}
    <2>1. o \notin Resets /\ o \notin Toggles /\ o \notin Logouts /\ o \notin Swaggers
      BY <1>5, Kinds DEF Writers, Formal
    <2> USE <1>5, <2>1 DEF Goto, AfterRevoke, FirstStep, Cleared, Base, TypeOK, Ended
    <2>2. CASE LockLogin(o) BY <2>2 DEF LockLogin
    <2>3. CASE BeginOAuth(o) BY <2>3 DEF BeginOAuth
    <2>4. CASE Redeem(o) BY <2>4 DEF Redeem
    <2>5. CASE Prune(o) BY <2>5 DEF Prune
    <2>6. CASE RemoveMembers(o) BY <2>6 DEF RemoveMembers
    <2>7. CASE CheckIndex(o) BY <2>7 DEF CheckIndex
    <2>8. CASE Unlist(o) BY <2>8 DEF Unlist
    <2>9. CASE WriteAccess(o) BY <2>9 DEF WriteAccess
    <2>10. CASE WriteRefresh(o) BY <2>10 DEF WriteRefresh
    <2>11. CASE BeginRefresh(o) BY <2>11 DEF BeginRefresh
    <2>12. CASE ReadSwagger(o) BY <1>2, <2>12, Kinds DEF ReadSwagger, Way, Writers, Formal
    <2> QED
      BY <2>2, <2>3, <2>4, <2>5, <2>6, <2>7, <2>8, <2>9, <2>10, <2>11, <2>12 DEF Step, BeginLogin,
         LockOAuth, BeginLogout, BeginReset, BeginToggle, LockUpdate, ReadIndex, Probe, Commit, Abort
  <1> QED
    BY <1>3, <1>4, <1>5 DEF Cleared

\* Where a request revokes, or finds out what to revoke.
Revoking == {"snap", "probe", "prune", "swagger", "delete", "srem", "check", "unlist"}

\* What a request knows, step by step, of a session w wrote before it began.
Accounts(o, s, w) ==
    /\ pc[o] = "probe" => s \in snap[o] \/ Shaken(w)
    /\ pc[o] = "prune" => s \in found[o] \/ Shaken(w)
    /\ pc[o] = "unlist" => Shaken(w)
    /\ pc[o] \in {"swagger", "delete"} /\ o \notin Logouts /\ s # sess[o] => s \in found[o] \/ Shaken(w)
    /\ Cleared(o) /\ s # sess[o] => Shaken(w)

\* Whoever shrinks the index finds the sessions that were written before it began.
Listed ==
    /\ \A o \in Ops : pc[o] \in Revoking => Sure(o)
    /\ \A s \in Formal : \A w \in WroteLast(s) : (s \in index /\ users) \/ Shaken(w)
    /\ \A o \in Ops, s \in Formal : \A w \in WroteLast(s) \cap before[o] : Accounts(o, s, w)
    /\ \A o \in Ops : pc[o] = "srem" => \A s \in found[o] : WroteLast(s) \cap before[o] = {}

LEMMA StepSure ==
    ASSUME Base, Listed, NEW o \in Ops, Step(o), NEW q \in Ops, pc'[q] \in Revoking
    PROVE  Sure(q)'
  <1>1. Frame(o)
    BY StepBase
  <1>2. CASE q # o \/ pc[o] \in Revoking
    <2>1. pc[q] \in Revoking
      BY <1>1, <1>2 DEF Frame
    <2> QED
      BY <2>1, SureStays DEF Listed, Revoking
  <1>3. CASE q = o /\ pc[o] \notin Revoking
    <2> USE <1>3 DEF Goto, FirstStep, Revoking, Base, TypeOK, Ended
    <2>1. CASE LockLogin(o) BY <2>1, Kinds DEF LockLogin, Sure, Writers, Formal
    <2>2. CASE BeginOAuth(o) BY <2>2, Kinds DEF BeginOAuth, Sure, Writers, Formal
    <2>3. CASE BeginRefresh(o) BY <2>3, Kinds DEF BeginRefresh, Sure, Writers, Formal
    <2>4. CASE BeginLogout(o) BY <2>4 DEF BeginLogout, Sure
    <2>5. CASE LockUpdate(o) BY <2>5 DEF LockUpdate, Sure
    <2>6. CASE Redeem(o)
      <3>1. o \in Refreshes
        BY <2>6, Kinds DEF Redeem, Ways, Way, Formal, Ops, Sessions
      <3> QED
        BY <2>6, <3>1, Kinds DEF Redeem, Sure, Writers
    <2> QED
      BY <2>1, <2>2, <2>3, <2>4, <2>5, <2>6 DEF Step, BeginLogin, LockOAuth, BeginReset, BeginToggle,
         ReadIndex, Probe, Prune, ReadSwagger, DeleteKeys, RemoveMembers, CheckIndex, Unlist,
         WriteAccess, WriteRefresh, Commit, Abort
  <1> QED
    BY <1>2, <1>3

\* What is in the index stays there, but for what is written while others revoke.
LEMMA StepIndex ==
    ASSUME Base, Listed, NEW o \in Ops, Step(o), NEW s \in Formal, NEW w, w \in WroteLast(s)'
    PROVE  (s \in index' /\ users') \/ Shaken(w)'
  <1>1. Frame(o) /\ Base'
    BY StepBase
  <1>2. s \in Sessions
    BY DEF Sessions, Formal
  <1>3. CASE w = o /\ s = sess[o] /\ (WriteAccess(o) \/ WriteRefresh(o))
    <2>1. o \notin Swaggers
      BY <1>3, Kinds DEF WriteAccess, WriteRefresh, Base, Named, Begun, Sessions, Formal
    <2> QED
      BY <1>3, <2>1 DEF WriteAccess, WriteRefresh, Indexed
  <1>4. CASE w \in WroteLast(s)
    <2>1. w \in Ops /\ HasWritten(w) /\ pc[w] # "idle" /\ Alive(s)
      BY <1>2, <1>4, Writing
    <2>2. CASE Shaken(w)
      BY <2>1, <2>2, ShakenStays
    <2>3. CASE s \in index /\ users /\ ~Shaken(w)
      <3>1. ASSUME pc[o] \in Revoking PROVE w # o /\ w \in before[o]
        <4>1. Sure(o) /\ pc[o] \notin Ended \cup {"idle"}
          BY <3>1 DEF Listed, Revoking, Ended
        <4>2. w # o
          BY <2>1, <3>1 DEF HasWritten, Revoking, Ended
        <4> QED
          BY <2>1, <2>3, <4>1, <4>2, ShakenNow
      <3>2. CASE Prune(o)
        <4>1. s \in found[o]
          BY <1>4, <2>3, <3>1, <3>2 DEF Prune, Revoking, Listed, Accounts
        <4> QED
          BY <2>3, <3>2, <4>1 DEF Prune, PrunedIndex
      <3>3. CASE RemoveMembers(o)
        <4>1. s \notin found[o]
          BY <1>4, <3>1, <3>3 DEF RemoveMembers, Revoking, Listed, Accounts
        <4> QED
          BY <2>3, <3>3, <4>1 DEF RemoveMembers
      <3>4. CASE Unlist(o)
        BY <1>4, <2>3, <3>1, <3>4 DEF Unlist, Revoking, Listed, Accounts
      <3>5. CASE WriteAccess(o) \/ WriteRefresh(o)
        BY <2>3, <3>5 DEF WriteAccess, WriteRefresh, Indexed
      <3>6. CASE UNCHANGED <<index, users>>
        BY <2>3, <3>6
      <3> QED
        BY <3>2, <3>3, <3>4, <3>5, <3>6 DEF Step, BeginLogin, LockLogin, BeginOAuth, LockOAuth,
           BeginRefresh, BeginLogout, BeginReset, BeginToggle, LockUpdate, ReadIndex, Probe,
           ReadSwagger,
           DeleteKeys, CheckIndex, Redeem, Commit, Abort, redisVars
    <2> QED
      BY <1>4, <2>2, <2>3 DEF Listed
  <1> QED
    BY <1>2, <1>3, <1>4, StepWriting

LEMMA StepAccounts ==
    ASSUME Base, Listed, NEW o \in Ops, Step(o), NEW s \in Formal, NEW w \in Ops, w \in WroteLast(s),
           w \in WroteLast(s)', w \in before'[o], ~Shaken(w)
    PROVE  Accounts(o, s, w)'
  <1>1. Frame(o) /\ s \in Sessions /\ Alive(s)
    BY StepBase, Writing DEF Sessions, Formal
  <1>2. CASE pc[o] = "idle"
    <2>1. pc'[o] \notin {"probe", "prune", "unlist", "swagger"} /\ (pc'[o] = "delete" => o \in Logouts)
      BY <1>2, Beginning DEF BeginLogin, BeginOAuth, BeginRefresh, BeginLogout, BeginReset, BeginToggle,
         Goto, FirstStep, Base, TypeOK
    <2>2. ~Cleared(o)
      <3>1. \A z \in Formal : o \notin WroteLast(z)
        BY <1>2, Writing DEF Sessions, Formal
      <3> QED
        BY <1>2, <3>1 DEF Cleared
    <2>3. ~Cleared(o)'
      BY <1>2, <2>2, ClearedFrom DEF DeleteKeys, Prune, ReadSwagger
    <2> QED
      BY <2>1, <2>3 DEF Accounts
  <1>3. CASE pc[o] # "idle"
    <2>0. w \in before[o] /\ sess'[o] = sess[o]
      BY <1>1, <1>3 DEF Frame
    <2>1. /\ pc[o] = "probe" => s \in snap[o]
          /\ pc[o] = "prune" => s \in found[o]
          /\ pc[o] # "unlist"
          /\ pc[o] \in {"swagger", "delete"} /\ o \notin Logouts /\ s # sess[o] => s \in found[o]
          /\ Cleared(o) => s = sess[o]
      BY <2>0 DEF Listed, Accounts
    <2>2. s \in index
      BY DEF Listed
    <2>3. pc'[o] = "probe" => s \in snap'[o]
      <3>1. CASE ReadIndex(o)
        BY <2>2, <3>1 DEF ReadIndex, Goto, Base, TypeOK
      <3>2. CASE ~ReadIndex(o)
        BY <1>1, <3>2 DEF Step, BeginLogin, LockLogin, BeginOAuth, LockOAuth, BeginRefresh, BeginLogout,
           BeginReset, BeginToggle, LockUpdate, Probe, Prune, ReadSwagger, DeleteKeys, RemoveMembers,
           CheckIndex, Unlist, Redeem, WriteAccess, WriteRefresh, Commit, Abort, Goto, AfterRevoke,
           FirstStep, Base, TypeOK
      <3> QED
        BY <3>1, <3>2
    <2>4. pc'[o] = "prune" => s \in found'[o]
      <3>1. CASE ReadIndex(o)
        BY <2>2, <3>1 DEF ReadIndex, Goto, Base, TypeOK
      <3>2. CASE Probe(o)
        BY <1>1, <2>1, <3>2 DEF Probe, Base, TypeOK
      <3>3. CASE ~ReadIndex(o) /\ ~Probe(o)
        BY <1>1, <3>3 DEF Step, BeginLogin, LockLogin, BeginOAuth, LockOAuth, BeginRefresh, BeginLogout,
           BeginReset, BeginToggle, LockUpdate, Prune, ReadSwagger, DeleteKeys, RemoveMembers,
           CheckIndex, Unlist, Redeem, WriteAccess, WriteRefresh, Commit, Abort, Goto, AfterRevoke,
           FirstStep, Base, TypeOK
      <3> QED
        BY <3>1, <3>2, <3>3
    <2>5. pc'[o] # "unlist"
      BY <1>1, <2>1, <2>2 DEF Step, BeginLogin, LockLogin, BeginOAuth, LockOAuth, BeginRefresh,
         BeginLogout,
         BeginReset, BeginToggle, LockUpdate, ReadIndex, Probe, Prune, ReadSwagger, DeleteKeys,
         RemoveMembers, CheckIndex, Unlist, Redeem, WriteAccess, WriteRefresh, Commit, Abort, Goto,
         AfterRevoke, FirstStep, Base, TypeOK
    <2>6. pc'[o] \in {"swagger", "delete"} /\ o \notin Logouts /\ s # sess[o] => s \in found'[o]
      <3>1. CASE Prune(o)
        BY <2>1, <3>1 DEF Prune, Targets, Goto, Base, TypeOK
      <3>2. CASE ReadSwagger(o)
        BY <2>1, <3>2 DEF ReadSwagger, AllTargets, Base, TypeOK
      <3>3. CASE ~Prune(o) /\ ~ReadSwagger(o)
        BY <1>1, <1>3, <3>3 DEF Step, BeginLogin, LockLogin, BeginOAuth, LockOAuth, BeginRefresh,
           BeginLogout, BeginReset, BeginToggle, LockUpdate, ReadIndex, Probe, DeleteKeys,
           RemoveMembers,
           CheckIndex, Unlist, Redeem, WriteAccess, WriteRefresh, Commit, Abort, Begin, Goto,
           AfterRevoke,
           FirstStep, Base, TypeOK
      <3> QED
        BY <3>1, <3>2, <3>3
    <2>7. Cleared(o)' => s = sess[o]
      <3>1. CASE DeleteKeys(o) /\ Cleared(o)'
        <4>1. s \notin found[o]
          BY <1>1, <3>1 DEF DeleteKeys, RevokedRefresh, WroteLast
        <4>2. o \notin Logouts
          BY <3>1, Kinds DEF Cleared, Writers, Formal
        <4> QED
          BY <2>1, <3>1, <4>1, <4>2 DEF DeleteKeys
      <3>2. CASE Prune(o) /\ Targets(o) = {}
        BY <2>1, <3>2 DEF Prune, Targets
      <3>3. CASE ReadSwagger(o) /\ AllTargets(o) = {}
        <4>1. o \notin Logouts
          BY <3>3, Kinds DEF ReadSwagger, Base, Ways, Way, Formal, Ended
        <4> QED
          BY <2>1, <3>3, <4>1 DEF ReadSwagger, AllTargets
      <3> QED
        BY <2>1, <3>1, <3>2, <3>3, ClearedFrom
    <2> QED
      BY <2>0, <2>3, <2>4, <2>5, <2>6, <2>7 DEF Accounts
  <1> QED
    BY <1>2, <1>3

\* Nobody began after a request that is not over.
LEMMA AfterwardsOnly == ASSUME Base, NEW o \in Ops, Step(o), NEW q \in Ops PROVE o \notin before'[q]
  <1>1. Frame(o)
    BY StepBase
  <1>2. CASE q = o /\ pc[o] = "idle"
    BY <1>1, <1>2 DEF Frame
  <1>3. CASE ~(q = o /\ pc[o] = "idle")
    BY <1>1, <1>3 DEF Frame, Base, Past
  <1> QED
    BY <1>2, <1>3

LEMMA StepListed == ASSUME Base, Listed, NEW o \in Ops, Step(o) PROVE Listed'
  <1>1. Frame(o) /\ Base'
    BY StepBase
  <1>2. ASSUME NEW q \in Ops, NEW s \in Sessions, NEW w, w \in WroteLast(s)', w \in before'[q]
        PROVE  w \in Ops /\ w # o /\ w \in WroteLast(s)
    <2>1. w \in Ops /\ pc'[w] \in Ended
      BY <1>1, <1>2 DEF Base, Past, TypeOK
    <2>2. w # o
      BY <1>2, AfterwardsOnly
    <2> QED
      BY <1>2, <2>1, <2>2, StepWriting
  <1>3. ASSUME NEW q \in Ops, NEW s \in Formal, NEW w, w \in WroteLast(s)', w \in before'[q]
        PROVE  Accounts(q, s, w)'
    <2>1. w \in Ops /\ w # o /\ w \in WroteLast(s)
      BY <1>2, <1>3 DEF Sessions, Formal
    <2>2. CASE Shaken(w)
      BY <2>1, <2>2, ShakenStays DEF Accounts
    <2>3. CASE q = o /\ ~Shaken(w)
      BY <1>3, <2>1, <2>3, StepAccounts
    <2>4. CASE q # o /\ ~Shaken(w)
      <3>1. Accounts(q, s, w)
        BY <1>1, <1>3, <2>1, <2>4 DEF Frame, Listed
      <3>2. Cleared(q)' => Cleared(q)
        <4>1. \A z \in Formal : q \in WroteLast(z)' => q \in WroteLast(z)
          BY <2>4, StepWriting DEF Sessions, Formal
        <4> QED
          BY <1>1, <2>4, <4>1 DEF Frame, Cleared
      <3> QED
        BY <1>1, <2>4, <3>1, <3>2 DEF Frame, Accounts
    <2> QED
      BY <2>2, <2>3, <2>4
  <1>4. ASSUME NEW q \in Ops, pc'[q] = "srem", NEW s \in found'[q], NEW w, w \in WroteLast(s)', w \in before'[q]
        PROVE  FALSE
    <2>1. s \in Sessions
      BY <1>1, <1>4 DEF Base, TypeOK
    <2>2. w \in WroteLast(s)
      BY <1>2, <1>4, <2>1
    <2>3. CASE q # o
      BY <1>1, <1>4, <2>2, <2>3 DEF Frame, Listed
    <2>4. CASE q = o
      <3>1. DeleteKeys(o)
        BY <1>1, <1>4, <2>4 DEF Frame, Step, BeginLogin, LockLogin, BeginOAuth, LockOAuth, BeginRefresh,
           BeginLogout, BeginReset, BeginToggle, LockUpdate, ReadIndex, Probe, Prune, ReadSwagger,
           RemoveMembers, CheckIndex, Unlist, Redeem, WriteAccess, WriteRefresh, Commit, Abort, Begin,
           Goto,
           AfterRevoke, FirstStep, Base, TypeOK
      <3> QED
        BY <1>4, <2>1, <2>4, <3>1 DEF DeleteKeys, RevokedRefresh, WroteLast
    <2> QED
      BY <2>3, <2>4
  <1>5. \A q \in Ops : pc'[q] \in Revoking => Sure(q)'
    BY StepSure
  <1>6. ASSUME NEW s \in Formal, NEW w, w \in WroteLast(s)' PROVE (s \in index' /\ users') \/ Shaken(w)'
    BY <1>6, StepIndex
  <1> QED
    BY <1>3, <1>4, <1>5, <1>6 DEF Listed

LEMMA ExpireListed == ASSUME Base, Listed, Expires PROVE Listed'
  <1>1. /\ UNCHANGED opVars /\ index' = index /\ users' = users
        /\ \A s \in Sessions : access'[s] \in {access[s], None} /\ refresh'[s] \in {refresh[s], None}
    BY ExpireTyped DEF Base
  <1>2. \A s \in Sessions : \A w : w \in WroteLast(s)' => w \in WroteLast(s)
    BY <1>1 DEF WroteLast
  <1>3. /\ \A q : Sure(q)' <=> Sure(q)
        /\ \A q, w : Overlap(q, w)' <=> Overlap(q, w)
    BY <1>1 DEF opVars, Sure, Overlap
  <1>4. \A w : Shaken(w)' <=> Shaken(w)
    BY <1>3 DEF Shaken
  <1>5. \A q : Cleared(q)' => Cleared(q)
    BY <1>1, <1>2 DEF opVars, Cleared, Sessions, Formal
  <1>6. ASSUME NEW q \in Ops, NEW s \in Formal, NEW w, w \in WroteLast(s)', w \in before'[q]
        PROVE  Accounts(q, s, w)'
    <2>1. Accounts(q, s, w)
      BY <1>1, <1>2, <1>6 DEF Listed, opVars, Sessions, Formal
    <2> QED
      BY <1>1, <1>4, <1>5, <2>1 DEF Accounts, opVars
  <1>7. ASSUME NEW s \in Formal, NEW w, w \in WroteLast(s)' PROVE (s \in index' /\ users') \/ Shaken(w)'
    BY <1>1, <1>2, <1>4, <1>7 DEF Listed, Sessions, Formal
  <1>8. ASSUME NEW q \in Ops, pc'[q] = "srem", NEW s \in found'[q], NEW w, w \in WroteLast(s)', w \in before'[q]
        PROVE  FALSE
    <2>1. s \in Sessions /\ s \in found[q] /\ pc[q] = "srem" /\ w \in before[q]
      BY <1>1, <1>8 DEF opVars, Base, TypeOK
    <2> QED
      BY <1>2, <1>8, <2>1 DEF Listed
  <1> QED
    BY <1>1, <1>3, <1>6, <1>7, <1>8 DEF Listed, opVars

LEMMA InitListed == ASSUME Init PROVE Listed
  <1>1. \A s \in Formal : WroteLast(s) = {}
    BY DEF Init, WroteLast, Sessions, Formal
  <1>2. \A o \in Ops : pc[o] \in {"idle", "failed"}
    BY DEF Init
  <1> QED
    BY <1>1, <1>2 DEF Listed, Revoking

-----------------------------------------------------------------------------
(* The swagger sessions.                                                   *)

\* The swagger sessions: each is written once, before anybody finds it.
SwaggerListed ==
    /\ \A s \in Swaggers : access[s] \in {None, s} /\ (access[s] = s => s \in swagger)
    /\ \A s \in Formal : access[s] \notin Swaggers
    /\ \A s \in swagger : HasWritten(s)
    /\ \A o \in Ops : \A s \in found[o] \cap Swaggers : HasWritten(s) /\ (pc[o] = "srem" => access[s] = None)
    /\ \A o \in Resets \cup Toggles, s \in Swaggers :
          s \in before[o] /\ s # sess[o] /\ access[s] # None =>
              (pc[o] = "delete" => s \in found[o]) /\ ~Cleared(o)
LEMMA WritesSwagger ==
    ASSUME Base, NEW o \in Ops, pc[o] = "access", sess[o] \in Swaggers
    PROVE  sess[o] = o /\ o \in Swaggers
  <1>1. o \in Sessions \cup Refreshes
    BY Kinds DEF Base, Ways, Way, Ended, Steps, Formal, Sessions, Ops
  <1> QED
    BY <1>1, Kinds DEF Base, Named, Begun, Sessions, Formal

LEMMA StepSwagger == ASSUME Base, Listed, SwaggerListed, NEW o \in Ops, Step(o) PROVE SwaggerListed'
  <1>1. Frame(o) /\ Base'
    BY StepBase
  <1>2. \A s \in Swaggers : s \in Sessions /\ s \in Ops /\ s # None
    BY TokenAssumption DEF Sessions, Ops
  <1>3. ASSUME NEW s \in Swaggers, access'[s] # access[s]
        PROVE  access'[s] = None \/ (s = o /\ access'[s] = s /\ pc[o] = "access")
    BY <1>1, <1>2, <1>3, WritesSwagger DEF Frame
  <1>4. ASSUME NEW s \in Swaggers
        PROVE  access'[s] \in {None, s} /\ (access'[s] = s => s \in swagger')
    <2>1. access'[s] \in {None, s}
      BY <1>3 DEF SwaggerListed
    <2>2. CASE access'[s] = s /\ access[s] # s
      <3>1. s = o /\ pc[o] = "access"
        BY <1>2, <1>3, <2>2
      <3>2. WriteAccess(o) \/ Abort(o)
        BY <3>1 DEF Step, BeginLogin, LockLogin, BeginOAuth, LockOAuth, BeginRefresh,
           BeginLogout, BeginReset, BeginToggle, LockUpdate, ReadIndex, Probe, Prune, ReadSwagger,
           DeleteKeys, RemoveMembers, CheckIndex, Unlist, Redeem, WriteRefresh, Commit, Begin
      <3>3. sess[o] = o
        BY <3>1, <1>2 DEF Base, Named, Begun
      <3> QED
        BY <2>2, <3>1, <3>2, <3>3 DEF WriteAccess, Abort, redisVars
    <2>3. CASE access'[s] = s /\ access[s] = s
      <3>1. s \in swagger
        BY <2>3 DEF SwaggerListed
      <3>2. CASE RemoveMembers(o)
        <4>1. s \notin found[o]
          BY <1>2, <2>3, <3>2 DEF RemoveMembers, SwaggerListed
        <4> QED
          BY <2>1, <2>3, <3>1, <3>2, <4>1 DEF RemoveMembers
      <3>3. CASE WriteAccess(o)
        BY <2>1, <2>3, <3>1, <3>3 DEF WriteAccess
      <3>4. CASE UNCHANGED swagger
        BY <2>1, <3>1, <3>4
      <3> QED
        BY <3>2, <3>3, <3>4 DEF Step, BeginLogin, LockLogin, BeginOAuth, LockOAuth, BeginRefresh,
           BeginLogout, BeginReset, BeginToggle, LockUpdate, ReadIndex, Probe, Prune, ReadSwagger,
           DeleteKeys, CheckIndex, Unlist, Redeem, WriteRefresh, Commit, Abort, redisVars
    <2> QED
      BY <2>1, <2>2, <2>3
  <1>5. \A s \in Swaggers : HasWritten(s) => HasWritten(s)'
    BY <1>2, StaysWritten DEF Base
  <1>6. ASSUME NEW s \in swagger' PROVE HasWritten(s)'
    <2>1. s \in Swaggers
      BY <1>1 DEF Base, TypeOK
    <2>2. CASE s \in swagger
      BY <1>5, <2>1, <2>2 DEF SwaggerListed
    <2>3. CASE s \notin swagger
      <3>1. WriteAccess(o) /\ s = sess[o]
        BY <2>3 DEF Step, BeginLogin, LockLogin, BeginOAuth, LockOAuth, BeginRefresh, BeginLogout,
           BeginReset, BeginToggle, LockUpdate, ReadIndex, Probe, Prune, ReadSwagger, DeleteKeys,
           RemoveMembers, CheckIndex, Unlist, Redeem, WriteAccess, WriteRefresh, Commit, Abort,
           redisVars
      <3>2. s = o /\ o \in Swaggers
        BY <2>1, <3>1, WritesSwagger DEF WriteAccess
      <3> QED
        BY <3>1, <3>2 DEF WriteAccess, HasWritten, Goto, Base, TypeOK
    <2> QED
      BY <2>2, <2>3
  <1>7. ASSUME NEW q \in Ops, NEW s \in found'[q] \cap Swaggers
        PROVE  HasWritten(s)' /\ (pc'[q] = "srem" => access'[s] = None)
    <2>1. CASE s \in found[q] /\ ~(q = o /\ DeleteKeys(o))
      <3>1. HasWritten(s)
        BY <2>1 DEF SwaggerListed
      <3>2. access[s] = None => access'[s] = None
        <4>1. ~(s = o /\ pc[o] = "access")
          BY <3>1, <1>2, Kinds DEF HasWritten, Ended
        <4> QED
          BY <1>3, <4>1
      <3>3. pc'[q] = "srem" => pc[q] = "srem"
        BY <1>1, <2>1 DEF Frame, Step, BeginLogin, LockLogin, BeginOAuth, LockOAuth, BeginRefresh,
           BeginLogout, BeginReset, BeginToggle, LockUpdate, ReadIndex, Probe, Prune, ReadSwagger,
           RemoveMembers, CheckIndex, Unlist, Redeem, WriteAccess, WriteRefresh, Commit, Abort, Begin,
           Goto, AfterRevoke, FirstStep, Base, TypeOK
      <3> QED
        BY <1>5, <2>1, <3>1, <3>2, <3>3 DEF SwaggerListed
    <2>2. CASE q = o /\ DeleteKeys(o)
      <3>1. s \in found[o] /\ HasWritten(s)
        BY <2>2 DEF DeleteKeys, SwaggerListed
      <3> QED
        BY <1>2, <1>5, <2>2, <3>1 DEF DeleteKeys
    <2>3. CASE s \notin found[q]
      <3>1. q = o
        BY <1>1, <2>3 DEF Frame
      <3>2. CASE BeginLogout(o)
        <4>1. access[s] # None \/ pc[s] = "done"
          BY <2>3, <3>1, <3>2 DEF BeginLogout, Base, TypeOK
        <4>2. HasWritten(s)
          BY <1>2, <4>1 DEF SwaggerListed, HasWritten, Ended, Base, Named
        <4>3. pc'[o] = "delete"
          BY <3>2 DEF BeginLogout, Goto, Base, TypeOK
        <4> QED
          BY <1>5, <3>1, <4>2, <4>3
      <3>3. CASE Probe(o)
        BY <2>3, <3>1, <3>3, Kinds DEF Probe, Base, TypeOK, Formal
      <3>4. CASE ReadSwagger(o)
        <4>1. s \in swagger
          BY <2>3, <3>1, <3>4 DEF ReadSwagger, AllTargets, Base, TypeOK
        <4>2. pc'[o] # "srem"
          BY <3>4 DEF ReadSwagger, AfterRevoke, Goto, Base, TypeOK
        <4> QED
          BY <1>5, <3>1, <4>1, <4>2 DEF SwaggerListed
      <3> QED
        BY <1>1, <2>3, <3>1, <3>2, <3>3, <3>4 DEF Step, BeginLogin, LockLogin, BeginOAuth, LockOAuth,
           BeginRefresh, BeginReset, BeginToggle, LockUpdate, ReadIndex, Prune, Targets, DeleteKeys,
           RemoveMembers, CheckIndex, Unlist, Redeem, WriteAccess, WriteRefresh, Commit, Abort, Base,
           TypeOK
    <2> QED
      BY <2>1, <2>2, <2>3
  <1>8. ASSUME NEW q \in Resets \cup Toggles, NEW s \in Swaggers, s \in before'[q], s # sess'[q],
               access'[s] # None
        PROVE  (pc'[q] = "delete" => s \in found'[q]) /\ ~Cleared(q)'
    <2>0. q \in Ops /\ q \notin Writers /\ q \notin Logouts
      BY Kinds DEF Ops, Writers, Formal
    <2>1. access[s] = s
      <3>1. s # o
        BY <1>8, <2>0, AfterwardsOnly
      <3> QED
        BY <1>3, <1>8, <3>1 DEF SwaggerListed
    <2>2. CASE q # o
      <3>1. (pc[q] = "delete" => s \in found[q]) /\ ~Cleared(q)
        BY <1>1, <1>2, <1>8, <2>0, <2>1, <2>2 DEF Frame, SwaggerListed
      <3> QED
        BY <1>1, <2>0, <2>2, <3>1 DEF Frame, Cleared
    <2>3. CASE q = o /\ pc[o] = "idle"
      <3>1. pc'[o] = "lock"
        BY <2>0, <2>3, Beginning, Kinds DEF BeginLogin, BeginOAuth, BeginRefresh, BeginLogout,
           BeginReset,
           BeginToggle, Goto, Base, TypeOK, Ops, Writers, Formal
      <3> QED
        BY <2>0, <2>3, <3>1 DEF Cleared
    <2>4. CASE q = o /\ pc[o] # "idle"
      <3>1. s \in before[o] /\ s # sess[o]
        BY <1>1, <1>8, <2>4 DEF Frame
      <3>2. (pc[o] = "delete" => s \in found[o]) /\ ~Cleared(o)
        BY <1>2, <1>8, <2>1, <2>4, <3>1 DEF SwaggerListed
      <3>3. s \in swagger
        BY <2>1 DEF SwaggerListed
      <3>4. ASSUME pc'[o] = "delete" PROVE s \in found'[o]
        <4>1. ReadSwagger(o)
          BY <1>1, <2>0, <2>4, <3>4 DEF Frame, Step, BeginLogin, LockLogin, BeginOAuth, LockOAuth,
             BeginRefresh, BeginLogout, BeginReset, BeginToggle, LockUpdate, ReadIndex, Probe, Prune,
             DeleteKeys, RemoveMembers, CheckIndex, Unlist, Redeem, WriteAccess, WriteRefresh, Commit,
             Abort, Begin, Goto, AfterRevoke, FirstStep, Base, TypeOK, Ways
        <4> QED
          BY <3>1, <3>3, <4>1 DEF ReadSwagger, AllTargets, Base, TypeOK
      <3>5. ~Cleared(o)'
        <4>1. ~DeleteKeys(o)
          BY <1>2, <1>8, <3>2 DEF DeleteKeys
        <4>2. ~(ReadSwagger(o) /\ AllTargets(o) = {})
          BY <3>1, <3>3 DEF AllTargets
        <4> QED
          BY <2>0, <2>4, <3>2, <4>1, <4>2, ClearedFrom
      <3> QED
        BY <2>4, <3>4, <3>5
    <2> QED
      BY <2>2, <2>3, <2>4
  <1>9. ASSUME NEW s \in Formal, access'[s] \in Swaggers PROVE FALSE
    <2>1. pc[o] = "access" /\ s = sess[o] /\ o \in Swaggers
      BY <1>1, <1>2, <1>9 DEF Frame, SwaggerListed, Sessions, Formal
    <2> QED
      BY <2>1, <1>2, Kinds DEF Base, Named, Begun, Formal
  <1> QED
    BY <1>4, <1>6, <1>7, <1>8, <1>9 DEF SwaggerListed

LEMMA ExpireSwagger == ASSUME Base, SwaggerListed, Expires PROVE SwaggerListed'
  <1>1. /\ UNCHANGED opVars /\ swagger' = swagger
        /\ \A s \in Sessions : access'[s] \in {access[s], None} /\ refresh'[s] \in {refresh[s], None}
    BY ExpireTyped DEF Base
  <1>2. \A s \in Swaggers : s \in Sessions /\ s # None
    BY TokenAssumption DEF Sessions, Ops
  <1>3. \A q \in Resets \cup Toggles : Cleared(q)' => Cleared(q)
    BY <1>1, Kinds DEF opVars, Cleared, Writers, Formal
  <1>4. \A s : HasWritten(s)' <=> HasWritten(s)
    BY <1>1 DEF opVars, HasWritten
  <1>5. /\ \A s \in Swaggers : access'[s] \in {None, s} /\ (access'[s] = s => s \in swagger')
        /\ \A s \in Formal : access'[s] \notin Swaggers
    BY <1>1, <1>2, TokenAssumption DEF SwaggerListed, Sessions, Formal, Ops
  <1>6. \A s \in Sessions : access[s] = None => access'[s] = None
    BY <1>1
  <1>7. /\ \A s \in swagger' : HasWritten(s)'
        /\ \A o \in Ops : \A s \in found'[o] \cap Swaggers :
              HasWritten(s)' /\ (pc'[o] = "srem" => access'[s] = None)
    BY <1>1, <1>2, <1>4, <1>6 DEF opVars, SwaggerListed
  <1>8. \A o \in Resets \cup Toggles, s \in Swaggers :
            s \in before'[o] /\ s # sess'[o] /\ access'[s] # None =>
                (pc'[o] = "delete" => s \in found'[o]) /\ ~Cleared(o)'
    BY <1>1, <1>2, <1>3, <1>6 DEF opVars, SwaggerListed
  <1> QED
    BY <1>5, <1>7, <1>8 DEF SwaggerListed

LEMMA InitSwagger == ASSUME Init PROVE SwaggerListed
  <1>1. \A s \in Sessions : access[s] = None /\ s # None
    BY TokenAssumption DEF Init, Sessions, Ops
  <1>2. swagger = {} /\ \A o \in Ops : found[o] = {} /\ before[o] = {}
    BY DEF Init
  <1>3. \A s \in Swaggers : access[s] \in {None, s} /\ (access[s] = s => s \in swagger)
    BY <1>1 DEF Sessions
  <1>4. \A s \in Formal : access[s] \notin Swaggers
    BY <1>1, TokenAssumption DEF Sessions, Formal, Ops
  <1>5. \A o \in Resets \cup Toggles : before[o] = {}
    BY <1>2 DEF Ops
  <1> QED
    BY <1>2, <1>3, <1>4, <1>5 DEF SwaggerListed

-----------------------------------------------------------------------------
(* What the revocations and the index come to.                             *)

LEMMA Disturbs == ASSUME NEW w \in Ops, Shaken(w) PROVE Disturbed(w)
  BY DEF Shaken, Disturbed, Sure, Shrinks

LEMMA ListedSessions == ASSUME Base, Listed PROVE SessionListed
  <1> SUFFICES ASSUME NEW s \in Formal, refresh[s] # None, ~(s \in index /\ users)
               PROVE  Disturbed(refresh[s])
    BY DEF SessionListed
  <1>1. refresh[s] \in WroteLast(s) /\ s \in Sessions
    BY DEF WroteLast, Sessions, Formal
  <1>2. refresh[s] \in Ops
    BY <1>1, Writing
  <1> QED
    BY <1>1, <1>2, Disturbs DEF Listed

LEMMA ListedSingle == ASSUME Base, Listed, SwaggerListed PROVE SingleSession
  <1> SUFFICES ASSUME NEW s \in Formal, NEW z \in Formal, s # z, NEW w \in WroteLast(s), NEW v \in WroteLast(z),
                      w \in before[v], ~flag[v]
               PROVE  Disturbed(w)
    BY DEF SingleSession
  <1>1. s \in Sessions /\ z \in Sessions
    BY DEF Sessions, Formal
  <1>2. v \in Ops /\ w \in Ops /\ sess[v] = z /\ HasWritten(v)
    BY <1>1, Writing
  <1>3. v \in Writers
    <2>1. (v \in Sessions \cup Refreshes /\ v \notin Swaggers) \/ v \in Writers
      BY <1>1 DEF WroteLast, Base, TypeOK, SwaggerListed
    <2> QED
      BY <2>1 DEF Sessions, Writers, Formal
  <1>4. Cleared(v)
    BY <1>3 DEF Cleared
  <1> QED
    BY <1>2, <1>4, Disturbs DEF Listed, Accounts

LEMMA ListedRevoked == ASSUME Base, Listed, SwaggerListed PROVE RevokeComplete
  <1> SUFFICES ASSUME NEW r \in Ops, NEW s \in Sessions, RevokedAll(r), s # sess[r],
                      NEW w \in WroteLast(s), w \in before[r]
               PROVE  s \in Formal /\ Disturbed(w)
    BY DEF RevokeComplete
  <1>1. Cleared(r) /\ r \in Resets \cup Toggles
    BY DEF RevokedAll, Cleared
  <1>2. w \in Ops
    BY Writing
  <1>3. CASE s \in Formal
    BY <1>1, <1>2, <1>3, Disturbs DEF Listed, Accounts
  <1>4. CASE s \in Swaggers
    <2>1. refresh[s] = None
      BY <1>4, Kinds DEF Base, Named, Formal
    <2>2. access[s] # None /\ w = s
      BY <1>4, <2>1 DEF WroteLast, SwaggerListed
    <2> QED
      BY <1>1, <1>4, <2>2 DEF SwaggerListed
  <1> QED
    BY <1>3, <1>4 DEF Sessions, Formal

-----------------------------------------------------------------------------
(* The results.                                                            *)

LEMMA LoggedFinal == ASSUME Base, Logged PROVE LogoutFinal
  <1> SUFFICES ASSUME NEW k \in Logouts, pc[k] = "done", Alive(sess[k])
               PROVE  \E w \in Sessions \cup Refreshes : sess[w] = sess[k] /\ Overlap(w, k)
    BY DEF LogoutFinal
  <1> QED
    BY DEF Logged, Meets

IInv == Base /\ Redeemed /\ Logged /\ Paired /\ Listed /\ SwaggerListed

LEMMA InitInv == Init => IInv
  BY InitBase, InitRedeemed, InitLogged, InitPaired, InitListed, InitSwagger DEF IInv

LEMMA StutterInv == ASSUME IInv, UNCHANGED vars PROVE IInv'
  <1>1. UNCHANGED redisVars /\ UNCHANGED dbVars /\ UNCHANGED opVars /\ UNCHANGED <<expiries, aborts>>
    BY DEF vars
  <1>2. Base'
    <2>1. TypeOK'
      BY <1>1 DEF IInv, Base, TypeOK, RowHeld, redisVars, dbVars, opVars
    <2>2. Ways' /\ Past'
      BY <1>1 DEF IInv, Base, Ways, Way, Past, opVars
    <2>3. Named'
      BY <1>1 DEF IInv, Base, Named, Begun, HasWritten, redisVars, opVars
    <2> QED
      BY <2>1, <2>2, <2>3 DEF Base
  <1>3. Redeemed'
    BY <1>1 DEF IInv, Redeemed, Unredeemed, redisVars, opVars
  <1>4. Logged'
    BY <1>1 DEF IInv, Logged, Alive, Meets, Overlap, Begun, Unredeemed, redisVars, opVars
  <1>5. Paired'
    BY <1>1 DEF IInv, Paired, redisVars, opVars
  <1>6. Listed'
    BY <1>1 DEF IInv, Listed, Accounts, Cleared, WroteLast, Shaken, Sure, Overlap, redisVars, opVars
  <1>7. SwaggerListed'
    BY <1>1 DEF IInv, SwaggerListed, Cleared, WroteLast, HasWritten, redisVars, opVars
  <1> QED
    BY <1>2, <1>3, <1>4, <1>5, <1>6, <1>7 DEF IInv

LEMMA StepInv == IInv /\ [Next]_vars => IInv'
  <1> SUFFICES ASSUME IInv, [Next]_vars PROVE IInv'
    OBVIOUS
  <1>1. CASE UNCHANGED vars
    BY <1>1, StutterInv
  <1>2. ASSUME NEW o \in Ops, Step(o) PROVE IInv'
    BY <1>2, StepBase, StepRedeemed, StepLogged, StepPaired, StepListed, StepSwagger DEF IInv
  <1>3. CASE Expires
    BY <1>3, ExpireBase, ExpireRedeemed, ExpireLogged, ExpirePaired, ExpireListed, ExpireSwagger
       DEF IInv
  <1> QED
    BY <1>1, <1>2, <1>3 DEF Next, Expires

\* The keys, the row and the requests keep their types, and whoever has updated the
\* row and not ended is the one who holds it.
THEOREM TokenTypeOK == Spec => []TypeOK
  <1>1. Init => IInv
    BY InitInv
  <1>2. IInv /\ [Next]_vars => IInv'
    BY StepInv
  <1>3. IInv => TypeOK
    BY DEF IInv, Base
  <1> QED
    BY <1>1, <1>2, <1>3, PTL DEF Spec

\* create_new_token compares the refresh token of the session and rotates it: no
\* refresh succeeds with the token of one that succeeded before it began.
THEOREM TokenRedeemOnce == Spec => []RedeemOnce
  <1>1. Init => IInv
    BY InitInv
  <1>2. IInv /\ [Next]_vars => IInv'
    BY StepInv
  <1>3. IInv => RedeemOnce
    BY RedeemedOnce DEF IInv
  <1> QED
    BY <1>1, <1>2, <1>3, PTL DEF Spec

\* revoke_token deletes both tokens of a session: after a logout it lives on only
\* through a request of that session which was under way.
THEOREM TokenLogoutFinal == Spec => []LogoutFinal
  <1>1. Init => IInv
    BY InitInv
  <1>2. IInv /\ [Next]_vars => IInv'
    BY StepInv
  <1>3. IInv => LogoutFinal
    BY LoggedFinal DEF IInv
  <1> QED
    BY <1>1, <1>2, <1>3, PTL DEF Spec

\* create_access_token and create_refresh_token write in two pipelines: the tokens of
\* a session are of one request, unless two wrote together or one failed between.
THEOREM TokenPairIntact == Spec => []PairIntact
  <1>1. Init => IInv
    BY InitInv
  <1>2. IInv /\ [Next]_vars => IInv'
    BY StepInv
  <1>3. IInv => PairIntact
    BY PairedIntact DEF IInv
  <1> QED
    BY <1>1, <1>2, <1>3, PTL DEF Spec

\* revoke_user_tokens after a reset, a deletion or the end of multi login: a token
\* from before is alive only if the index was shrunk while it was written.
THEOREM TokenRevokeComplete == Spec => []RevokeComplete
  <1>1. Init => IInv
    BY InitInv
  <1>2. IInv /\ [Next]_vars => IInv'
    BY StepInv
  <1>3. IInv => RevokeComplete
    BY ListedRevoked DEF IInv
  <1> QED
    BY <1>1, <1>2, <1>3, PTL DEF Spec

\* create_refresh_token puts its session into the index and its user among those online:
\* both stay while it can be refreshed, unless the index was shrunk while it was written.
THEOREM TokenSessionListed == Spec => []SessionListed
  <1>1. Init => IInv
    BY InitInv
  <1>2. IInv /\ [Next]_vars => IInv'
    BY StepInv
  <1>3. IInv => SessionListed
    BY ListedSessions DEF IInv
  <1> QED
    BY <1>1, <1>2, <1>3, PTL DEF Spec

\* create_access_token of a user without multi login revokes his older sessions, but
\* for those written while the index was shrunk.
THEOREM TokenSingleSession == Spec => []SingleSession
  <1>1. Init => IInv
    BY InitInv
  <1>2. IInv /\ [Next]_vars => IInv'
    BY StepInv
  <1>3. IInv => SingleSession
    BY ListedSingle DEF IInv
  <1> QED
    BY <1>1, <1>2, <1>3, PTL DEF Spec
=============================================================================
