--------------------------- MODULE DecisionsProofs ---------------------------
(***************************************************************************)
(* The decisions about a request are right for every user, check, rule,    *)
(* table and request.                                                      *)
(***************************************************************************)
EXTENDS Decisions, FiniteSetTheorems, TLAPS

-----------------------------------------------------------------------------
(* Access                                                                  *)

\* The permissions of roles are those of their enabled menus.
LEMMA PermsOfMenus ==
    ASSUME NEW roles, NEW perm
    PROVE  perm \in Perms(roles)
             <=> \E r \in roles : \E m \in r.menus : m.status /\ perm \in m.perms
BY DEF Perms, Enabled

\* When rbac_verify lets a request in.
LEMMA AllowedWhen ==
    ASSUME NEW user \in User, NEW c \in Check
    PROVE  Allowed(user, c) <=>
             \/ c.open
             \/ /\ c.token
                /\ \/ user.superuser
                   \/ /\ \E r \in user.roles : r.status /\ r.menus # {}
                      /\ c.write => user.staff
                      /\ c.roleMenu
                      /\ \/ c.perm = None
                         \/ c.perm \in c.free
                         \/ \E r \in user.roles :
                              r.status /\ \E m \in r.menus : m.status /\ c.perm \in m.perms
<1>1. c.perm \in Perms(Enabled(user.roles)) <=>
        \E r \in user.roles : r.status /\ \E m \in r.menus : m.status /\ c.perm \in m.perms
    BY PermsOfMenus DEF Enabled
<1>2. (Enabled(user.roles) # {} /\ ~(\A r \in Enabled(user.roles) : r.menus = {}))
        <=> \E r \in user.roles : r.status /\ r.menus # {}
    BY DEF Enabled
<1>3. c.open \in BOOLEAN /\ c.token \in BOOLEAN /\ c.write \in BOOLEAN /\ c.roleMenu \in BOOLEAN
        /\ user.superuser \in BOOLEAN /\ user.staff \in BOOLEAN
    BY DEF Check, User
<1>4. QED
    BY <1>1, <1>2, <1>3 DEF Allowed, rbac_verify

LEMMA WithRolesType ==
    ASSUME NEW user \in User, NEW roles \in SUBSET Role
    PROVE  /\ WithRoles(user, roles) \in User
           /\ WithRoles(user, roles).roles = roles
           /\ WithRoles(user, roles).superuser = user.superuser
           /\ WithRoles(user, roles).staff = user.staff
           /\ WithRoles(user, roles).id = user.id
           /\ WithRoles(user, roles).dept = user.dept
BY DEF WithRoles, User

\* A role keeps its fields when its disabled menus are taken away.
LEMMA EnabledMenusRole ==
    ASSUME NEW r \in Role
    PROVE  LET cut == [r EXCEPT !.menus = Enabled(@)]
           IN cut \in Role /\ cut.status = r.status /\ cut.menus = {m \in r.menus : m.status}
BY DEF Role, Enabled

LEMMA EnabledMenusUser ==
    ASSUME NEW user \in User
    PROVE  /\ EnabledMenusOnly(user) \in User
           /\ EnabledMenusOnly(user).superuser = user.superuser
           /\ EnabledMenusOnly(user).staff = user.staff
           /\ EnabledMenusOnly(user).roles = {[r EXCEPT !.menus = Enabled(@)] : r \in user.roles}
<1>1. user.roles \subseteq Role
    BY DEF User
<1>2. {[r EXCEPT !.menus = Enabled(@)] : r \in user.roles} \in SUBSET Role
    BY <1>1, EnabledMenusRole
<1>3. QED
    BY <1>2, WithRolesType DEF EnabledMenusOnly

\* The roles of a user add up, and what is disabled gives nothing.
LEMMA AccessOfRoles ==
    ASSUME NEW user \in User, NEW c \in Check
    PROVE  AccessAddsUp(user, c)
<1> DEFINE cut == EnabledMenusOnly(user)
           enabled == WithRoles(user, Enabled(user.roles))
<1>0. user.roles \subseteq Role /\ Enabled(user.roles) \subseteq Role
    BY DEF User, Enabled
<1>1. ASSUME user.roles # {}, ~user.superuser
      PROVE  Allowed(user, c) <=> \E r \in user.roles : Allowed(WithRoles(user, {r}), c)
    <2>1. \A r \in user.roles :
            /\ WithRoles(user, {r}) \in User /\ WithRoles(user, {r}).roles = {r}
            /\ WithRoles(user, {r}).superuser = user.superuser
            /\ WithRoles(user, {r}).staff = user.staff
        BY <1>0, WithRolesType
    <2>2. \A r \in user.roles : Allowed(WithRoles(user, {r}), c) <=>
             \/ c.open
             \/ /\ c.token
                /\ r.status /\ r.menus # {}
                /\ c.write => user.staff
                /\ c.roleMenu
                /\ \/ c.perm = None
                   \/ c.perm \in c.free
                   \/ \E m \in r.menus : m.status /\ c.perm \in m.perms
        <3> TAKE r \in user.roles
        <3>. DEFINE one == WithRoles(user, {r})
        <3>1. one \in User /\ one.roles = {r} /\ one.superuser = user.superuser /\ one.staff = user.staff
            BY <2>1
        <3> HIDE DEF one
        <3>2. QED
            BY <1>1, <3>1, AllowedWhen DEF one
    <2>3. QED
        BY <1>1, <2>2, AllowedWhen
<1>2. rbac_verify(user, c) = rbac_verify(enabled, c)
    <2>1. enabled.roles = Enabled(user.roles) /\ enabled.superuser = user.superuser
            /\ enabled.staff = user.staff
        BY <1>0, WithRolesType
    <2>2. Enabled(Enabled(user.roles)) = Enabled(user.roles)
        BY DEF Enabled
    <2>3. QED
        BY <2>1, <2>2 DEF rbac_verify
<1>3. cut \in User /\ cut.superuser = user.superuser /\ cut.staff = user.staff
        /\ cut.roles = {[r EXCEPT !.menus = Enabled(@)] : r \in user.roles}
    BY EnabledMenusUser
<1> HIDE DEF cut
<1>4. \A r \in user.roles : \E q \in cut.roles :
        q.status = r.status /\ q.menus = {m \in r.menus : m.status}
    BY <1>0, <1>3, EnabledMenusRole
<1>5. \A q \in cut.roles : \E r \in user.roles :
        q.status = r.status /\ q.menus = {m \in r.menus : m.status}
    BY <1>0, <1>3, EnabledMenusRole
<1>6. (\E r \in cut.roles : r.status /\ r.menus # {})
        <=> \E r \in user.roles : r.status /\ \E m \in r.menus : m.status
    BY <1>4, <1>5
<1>7. (\E r \in cut.roles : r.status /\ \E m \in r.menus : m.status /\ c.perm \in m.perms)
        <=> \E r \in user.roles : r.status /\ \E m \in r.menus : m.status /\ c.perm \in m.perms
    BY <1>4, <1>5
<1> HIDE DEF enabled
<1>8. Allowed(cut, c) => Allowed(user, c)
    BY <1>3, <1>6, <1>7, AllowedWhen
<1>9. Allowed(user, c) /\ c.perm # None /\ ~Allowed(cut, c) => c.perm \in c.free
    BY <1>3, <1>6, <1>7, AllowedWhen
<1>10. QED
    BY <1>1, <1>2, <1>8, <1>9 DEF AccessAddsUp, cut, enabled

-----------------------------------------------------------------------------
(* Data rules                                                              *)

\* What a condition compares with depends on the user's number and department.
LEMMA ConditionOfUser ==
    ASSUME NEW a, NEW b, a.id = b.id, a.dept = b.dept, NEW q, NEW row
    PROVE  Condition(a, q, row) = Condition(b, q, row)
<1>1. \A v : cast_value(a, v) = cast_value(b, v)
    BY DEF cast_value
<1>2. {cast_value(a, q.value[i]) : i \in DOMAIN q.value} = {cast_value(b, q.value[i]) : i \in DOMAIN q.value}
    BY <1>1
<1>3. cast_value(a, q.value[1]) = cast_value(b, q.value[1])
    BY <1>1
<1>4. QED
    BY <1>2, <1>3 DEF Condition

\* The rules of a user are those of the enabled scopes of the enabled roles.
LEMMA RulesOfRoles ==
    ASSUME NEW user, NEW q
    PROVE  q \in Rules(user)
             <=> \E r \in user.roles : r.status /\ \E s \in r.scopes : s.status /\ q \in s.rules
BY DEF Rules, Enabled

\* Two users of one number and department see the same rows if they have the
\* same rules and if both or none of them has a role that is not filtered.
LEMMA VisibleToBoth ==
    ASSUME NEW a, NEW b, a.id = b.id, a.dept = b.dept, a.superuser = b.superuser,
           Rules(a) = Rules(b),
           (\E r \in Enabled(a.roles) : ~r.filtered) <=> (\E r \in Enabled(b.roles) : ~r.filtered),
           NEW table, NEW row
    PROVE  Visible(a, table, row) <=> Visible(b, table, row)
<1>1. \A q : Condition(a, q, row) = Condition(b, q, row)
    BY ConditionOfUser
<1>2. QED
    BY <1>1 DEF Visible

\* A role keeps the rest of its fields when its scopes change.
LEMMA ScopesRole ==
    ASSUME NEW r \in Role, NEW scopes \in SUBSET Scope
    PROVE  LET changed == [r EXCEPT !.scopes = scopes]
           IN /\ changed \in Role /\ changed.status = r.status /\ changed.filtered = r.filtered
              /\ changed.scopes = scopes
BY DEF Role

\* A rule that is given to a user is one of the user's rules, if any role is
\* enabled.
LEMMA GiveRules ==
    ASSUME NEW user \in User, NEW rule \in Rule
    PROVE  /\ Give(user, rule).id = user.id
           /\ Give(user, rule).dept = user.dept
           /\ Give(user, rule).superuser = user.superuser
           /\ (\E r \in Enabled(Give(user, rule).roles) : ~r.filtered)
                <=> (\E r \in Enabled(user.roles) : ~r.filtered)
           /\ Rules(Give(user, rule)) = IF Enabled(user.roles) = {} THEN {} ELSE Rules(user) \cup {rule}
<1> DEFINE new == [status |-> TRUE, rules |-> {rule}]
           given(r) == [r EXCEPT !.scopes = @ \cup {new}]
           roles == {given(r) : r \in user.roles}
           gave == Give(user, rule)
<1>1. \A r \in user.roles : /\ given(r) \in Role /\ given(r).status = r.status
                            /\ given(r).filtered = r.filtered
                            /\ given(r).scopes = r.scopes \cup {new}
    <2> TAKE r \in user.roles
    <2>1. new \in Scope
        BY DEF Scope
    <2>2. r \in Role /\ r.scopes \in SUBSET Scope
        BY DEF User, Role
    <2>3. QED
        BY <2>1, <2>2, ScopesRole
<1>2. roles \in SUBSET Role
    BY <1>1
<1>3. gave.roles = roles /\ gave.id = user.id /\ gave.dept = user.dept
        /\ gave.superuser = user.superuser
    BY <1>2, WithRolesType DEF Give
<1> HIDE DEF given
<1>4. \A r \in user.roles : \E g \in gave.roles :
        g.status = r.status /\ g.filtered = r.filtered /\ g.scopes = r.scopes \cup {new}
    BY <1>1, <1>3
<1>5. \A g \in gave.roles : \E r \in user.roles :
        g.status = r.status /\ g.filtered = r.filtered /\ g.scopes = r.scopes \cup {new}
    BY <1>1, <1>3
<1>6. (\E r \in Enabled(gave.roles) : ~r.filtered) <=> (\E r \in Enabled(user.roles) : ~r.filtered)
    BY <1>4, <1>5 DEF Enabled
<1> HIDE DEF gave, roles
<1>7. \A q : q \in Rules(gave) <=> Enabled(user.roles) # {} /\ (q \in Rules(user) \/ q = rule)
    <2> TAKE q
    <2>1. ASSUME q \in Rules(gave) PROVE Enabled(user.roles) # {} /\ (q \in Rules(user) \/ q = rule)
        <3>1. PICK g \in gave.roles : g.status /\ \E s \in g.scopes : s.status /\ q \in s.rules
            BY <2>1, RulesOfRoles
        <3>2. PICK r \in user.roles : g.status = r.status /\ g.scopes = r.scopes \cup {new}
            BY <1>5
        <3>3. Enabled(user.roles) # {}
            BY <3>1, <3>2 DEF Enabled
        <3>4. q = rule \/ \E s \in r.scopes : s.status /\ q \in s.rules
            BY <3>1, <3>2
        <3>5. QED
            BY <3>1, <3>2, <3>3, <3>4, RulesOfRoles
    <2>2. ASSUME Enabled(user.roles) # {}, q \in Rules(user) PROVE q \in Rules(gave)
        <3>1. PICK r \in user.roles : r.status /\ \E s \in r.scopes : s.status /\ q \in s.rules
            BY <2>2, RulesOfRoles
        <3>2. PICK g \in gave.roles : g.status = r.status /\ g.scopes = r.scopes \cup {new}
            BY <1>4
        <3>3. QED
            BY <3>1, <3>2, RulesOfRoles
    <2>3. ASSUME Enabled(user.roles) # {} PROVE rule \in Rules(gave)
        <3>1. PICK r \in user.roles : r.status
            BY <2>3 DEF Enabled
        <3>2. PICK g \in gave.roles : g.status = r.status /\ g.scopes = r.scopes \cup {new}
            BY <1>4
        <3>3. new \in g.scopes /\ new.status /\ rule \in new.rules
            BY <3>2
        <3>4. QED
            BY <3>1, <3>2, <3>3, RulesOfRoles
    <2>4. QED
        BY <2>1, <2>2, <2>3
<1>8. Rules(gave) = IF Enabled(user.roles) = {} THEN {} ELSE Rules(user) \cup {rule}
    BY <1>7
<1>9. QED
    BY <1>3, <1>6, <1>8 DEF gave

\* A rule more moves what a user sees the way its operator says.
LEMMA FilterOfRules ==
    ASSUME NEW user \in User, NEW rule \in Rule, NEW table, NEW rows
    PROVE  FilterMoves(user, rule, table, rows)
<1> DEFINE gave == Give(user, rule)
           used == {q \in Rules(user) : Applies(q, table)}
           enabledOnly == WithRoles(user, {[r EXCEPT !.scopes = Enabled(@)] : r \in Enabled(user.roles)})
<1>1. Seen(user, table, rows) = Seen(enabledOnly, table, rows)
    <2> DEFINE roles == {[r EXCEPT !.scopes = Enabled(@)] : r \in Enabled(user.roles)}
    <2>1. \A r \in Enabled(user.roles) :
            LET cut == [r EXCEPT !.scopes = Enabled(@)]
            IN /\ cut \in Role /\ cut.status = r.status /\ cut.filtered = r.filtered
               /\ cut.scopes = Enabled(r.scopes)
        <3> TAKE r \in Enabled(user.roles)
        <3>1. r \in Role /\ Enabled(r.scopes) \in SUBSET Scope
            BY DEF User, Role, Enabled
        <3>2. QED
            BY <3>1, ScopesRole
    <2>2. roles \in SUBSET Role
        BY <2>1
    <2>3. enabledOnly.roles = roles /\ enabledOnly.id = user.id /\ enabledOnly.dept = user.dept
            /\ enabledOnly.superuser = user.superuser
        BY <2>2, WithRolesType
    <2> HIDE DEF enabledOnly
    <2>4. \A r \in Enabled(user.roles) : \E c \in enabledOnly.roles :
            c.status = r.status /\ c.filtered = r.filtered /\ c.scopes = Enabled(r.scopes)
        BY <2>1, <2>3
    <2>5. \A c \in enabledOnly.roles : \E r \in Enabled(user.roles) :
            c.status = r.status /\ c.filtered = r.filtered /\ c.scopes = Enabled(r.scopes)
        BY <2>1, <2>3
    <2> HIDE DEF roles
    <2>6. (\E r \in Enabled(user.roles) : ~r.filtered) <=> (\E r \in Enabled(enabledOnly.roles) : ~r.filtered)
        BY <2>4, <2>5 DEF Enabled
    <2>7. \A q : q \in Rules(user) <=> q \in Rules(enabledOnly)
        BY <2>4, <2>5, RulesOfRoles DEF Enabled
    <2>8. Rules(user) = Rules(enabledOnly)
        BY <2>7
    <2>9. \A row : Visible(user, table, row) <=> Visible(enabledOnly, table, row)
        BY <2>3, <2>6, <2>8, VisibleToBoth
    <2>10. QED
        BY <2>9 DEF Seen
<1>2. /\ gave.superuser = user.superuser
      /\ (\E r \in Enabled(gave.roles) : ~r.filtered) <=> (\E r \in Enabled(user.roles) : ~r.filtered)
      /\ Rules(gave) = IF Enabled(user.roles) = {} THEN {} ELSE Rules(user) \cup {rule}
      /\ \A q, row : Condition(gave, q, row) = Condition(user, q, row)
    BY GiveRules, ConditionOfUser
<1>3. Rules(user) # {} => Enabled(user.roles) # {}
    BY DEF Rules, Enabled
<1> HIDE DEF gave
<1>4. ASSUME rule.operator = "OR", used # {}
      PROVE  Seen(user, table, rows) \subseteq Seen(gave, table, rows)
    BY <1>2, <1>3, <1>4 DEF Seen, Visible
<1>5. ASSUME rule.operator = "AND", NEW q \in used, q.operator = "AND"
      PROVE  Seen(gave, table, rows) \subseteq Seen(user, table, rows)
    BY <1>2, <1>3, <1>5 DEF Seen, Visible
<1>6. ASSUME ~user.superuser, \A r \in user.roles : r.filtered, Enabled(user.roles) # {}
      PROVE  /\ Rules(user) = {} => Seen(user, table, rows) = {}
             /\ ~Applies(rule, table) /\ used = {} => Seen(gave, table, rows) = rows
    <2>1. ~(\E r \in Enabled(user.roles) : ~r.filtered)
        BY <1>6 DEF Enabled
    <2>2. QED
        BY <1>2, <1>6, <2>1 DEF Seen, Visible
<1>7. QED
    BY <1>1, <1>4, <1>5, <1>6 DEF FilterMoves, gave

-----------------------------------------------------------------------------
(* Requests                                                                *)

\* A set of natural numbers has a least one.
LEMMA Least ==
    ASSUME NEW S \in SUBSET Nat, S # {}
    PROVE  Min(S) \in S
<1> DEFINE T == {0..x : x \in S}
<1>1. T \subseteq FiniteSubsetsOf(Nat) /\ T # {}
    <2>1. \A x \in S : IsFiniteSet(0..x) /\ 0..x \subseteq Nat
        BY FS_Interval
    <2>2. QED
        BY <2>1 DEF FiniteSubsetsOf
<1>2. PICK t \in T : \A s \in T : ~ (<<s, t>> \in StrictSubsetOrdering(Nat))
    <2> HIDE DEF T
    <2>1. QED
        BY <1>1, FS_StrictSubsetOrderingWellFounded, WFMin
<1>3. PICK x \in S : t = 0..x
    OBVIOUS
<1>4. ASSUME NEW y \in S, y < x PROVE FALSE
    <2>1. 0..y \in T /\ 0..y \in SUBSET Nat /\ 0..x \in SUBSET Nat /\ 0..y \subseteq 0..x
        BY <1>4
    <2>2. x \in 0..x /\ x \notin 0..y
        BY <1>4
    <2>3. <<0..y, 0..x>> \in StrictSubsetOrdering(Nat)
        BY <2>1, <2>2 DEF StrictSubsetOrdering
    <2>4. QED
        BY <1>2, <1>3, <2>1, <2>3
<1>5. \A y \in S : x <= y
    BY <1>4
<1>6. QED
    BY <1>5 DEF Min

\* What a request for the API can fail with before or in its endpoint.
Failures ==
    Raised \cup {AuthorizationError, ForbiddenError, ServerError, TooManyRequests, JSONDecodeError,
                  Fail("validation", 422), Fail("http", 404), Fail("http", 405)}

LEMMA FailuresType == Failures \subseteq Failure
<1>1. \A c \in {400, 403, 404, 409, 500, 502, 40001} : Fail("custom", c) \in Failure
    BY DEF Failure, Fail
<1>2. TokenError \in Failure /\ TooManyRequests \in Failure
        /\ Fail("http", 404) \in Failure /\ Fail("http", 405) \in Failure
    BY DEF Failure, Fail, TokenError, TooManyRequests
<1>3. AuthorizationError \in Failure /\ ForbiddenError \in Failure /\ ServerError \in Failure
        /\ Fail("validation", 422) \in Failure
    BY DEF Failure, Fail, AuthorizationError, ForbiddenError, ServerError
<1>4. Fail("assertion", 500) \in Failure /\ Fail("foreign", None) \in Failure
        /\ Fail("foreign", Text) \in Failure /\ JSONDecodeError \in Failure
    BY DEF Failure, Fail, JSONDecodeError
<1>5. QED
    BY <1>1, <1>2, <1>3, <1>4 DEF Failures, Raised

LEMMA NoneIsNoFailure == None \notin Failures
BY FailuresType, NamesAssumption

\* Every failure is answered as one, and what is kept of it is the code of the
\* body unless it is foreign.
LEMMA FailureAnswered ==
    ASSUME NEW f \in Failures, NEW prod \in BOOLEAN
    PROVE  /\ Answer(f, prod).status \in Nat
           /\ Answer(f, prod).status >= 400
           /\ Handled(f) => Answer(f, prod).code \in Nat
           /\ ~Handled(f) => Answer(f, prod).code = 500 /\ f.code \in {None, Text}
<1>1. CASE f \in {Fail("custom", c) : c \in {400, 403, 404, 409, 500, 502, 40001}}
    BY <1>1 DEF Fail, Answer, Handled, StatusOf
<1>2. CASE f \in {TokenError, TooManyRequests, Fail("http", 404), Fail("http", 405)}
    BY <1>2 DEF Fail, TokenError, TooManyRequests, Answer, Handled, StatusOf
<1>3. CASE f \in {AuthorizationError, ForbiddenError, ServerError, Fail("validation", 422)}
    BY <1>3 DEF Fail, AuthorizationError, ForbiddenError, ServerError, Answer, Handled, StatusOf
<1>4. CASE f \in {Fail("assertion", 500), Fail("foreign", None), Fail("foreign", Text), JSONDecodeError}
    BY <1>4 DEF Fail, JSONDecodeError, Answer, Handled
<1>5. QED
    BY <1>1, <1>2, <1>3, <1>4 DEF Failures, Raised

\* The answer a to a request that failed after an endpoint ran or before any did.
Failed(req, a, ran) ==
    /\ a.status \in Nat /\ a.status >= 400
    /\ a.ran = ran /\ a.committed = FALSE
    /\ a.log = None <=> Unparsable(req) \/ req.path \in Unlogged
    /\ a.log # None =>
          /\ a.log.failed = TRUE /\ a.log.code = a.metric
          /\ a.log.code = a.code \/ a.log.code = Text

LEMMA FailureResponse ==
    ASSUME NEW req \in Request, NEW f \in Failures, NEW ran
    PROVE  Failed(req, Ending(req, Ended(f, 0, ran, FALSE)), ran)
<1> DEFINE end == Ended(f, 0, ran, FALSE)
           answer == Answer(f, req.prod)
           kept == IF Handled(f) THEN answer.code ELSE IF f.code = None THEN 500 ELSE f.code
<1>1. f # None /\ req.prod \in BOOLEAN
    BY NoneIsNoFailure DEF Request
<1>2. end.failure = f /\ end.ran = ran /\ end.committed = FALSE
    BY DEF Ended
<1>3. /\ answer.status \in Nat /\ answer.status >= 400
      /\ Handled(f) => answer.code \in Nat
      /\ ~Handled(f) => answer.code = 500 /\ f.code \in {None, Text}
    BY <1>1, FailureAnswered
<1> HIDE DEF end, answer
<1>4. AnswerTo(end, req.prod) = answer
    BY <1>1, <1>2 DEF AnswerTo, answer
<1>5. Kept(end, answer) = kept /\ Counted(end, answer) = kept
    BY <1>1, <1>2 DEF Kept, Counted
<1>6. kept \in Nat \cup {Text} /\ (kept = answer.code \/ kept = Text)
    BY <1>3
<1> HIDE DEF kept
<1>7. [code |-> kept, failed |-> TRUE] # None
    <2>1. [code |-> kept, failed |-> TRUE] \in [code : Nat \cup {None, Text}, failed : BOOLEAN]
        BY <1>6
    <2>2. QED
        BY <2>1, NamesAssumption
<1>8. Logged(req, end, answer) = IF req.path \in Unlogged THEN None ELSE [code |-> kept, failed |-> TRUE]
    BY <1>1, <1>2, <1>5 DEF Logged
<1>9. Ending(req, end) =
        [status |-> answer.status, code |-> answer.code, metric |-> kept,
         log |-> IF Unparsable(req) \/ req.path \in Unlogged THEN None
                 ELSE [code |-> kept, failed |-> TRUE],
         ran |-> ran, committed |-> FALSE]
    BY <1>2, <1>4, <1>5, <1>8 DEF Ending, Response
<1>10. Ending(req, end).log # None => Ending(req, end).log = [code |-> kept, failed |-> TRUE]
    BY <1>9
<1>11. Ending(req, end).log = None <=> Unparsable(req) \/ req.path \in Unlogged
    BY <1>7, <1>9
<1>12. Ending(req, end).status = answer.status /\ Ending(req, end).ran = ran
        /\ Ending(req, end).committed = FALSE /\ Ending(req, end).metric = kept
        /\ Ending(req, end).code = answer.code
    BY <1>9
<1>13. Ending(req, end).log # None =>
        /\ Ending(req, end).log.failed = TRUE
        /\ Ending(req, end).log.code = Ending(req, end).metric
        /\ Ending(req, end).log.code = Ending(req, end).code \/ Ending(req, end).log.code = Text
    BY <1>6, <1>10, <1>12
<1>14. Ending(req, end).status \in Nat /\ Ending(req, end).status >= 400
    BY <1>3, <1>12
<1>15. QED
    BY <1>11, <1>12, <1>13, <1>14 DEF end, Failed

\* The answer a to a request whose endpoint ended with a code; only requests the
\* log leaves out end with none.
Succeeded(req, a, code, ran, committed) ==
    /\ a.status = IF code = None THEN 307 ELSE 200
    /\ a.code = code
    /\ a.ran = ran /\ a.committed = committed
    /\ a.log = None <=> Unparsable(req) \/ req.path \in Unlogged
    /\ a.log # None => a.log = [code |-> 200, failed |-> FALSE] /\ a.metric = 200

LEMMA EndResponse ==
    ASSUME NEW req \in Request, NEW code, NEW ran, NEW committed,
           code = None => req.path \in Unlogged
    PROVE  Succeeded(req, Ending(req, Ended(None, code, ran, committed)), code, ran, committed)
<1> DEFINE end == Ended(None, code, ran, committed)
           status == IF code = None THEN 307 ELSE 200
           answer == [status |-> status, code |-> code]
<1>0. answer.status = status /\ answer.code = code
    OBVIOUS
<1>1. end.failure = None /\ end.code = code /\ end.ran = ran /\ end.committed = committed
    BY DEF Ended
<1> HIDE DEF end
<1> HIDE DEF answer
<1>2. AnswerTo(end, req.prod) = answer /\ Kept(end, answer) = 200
        /\ Counted(end, answer) = status
    BY <1>0, <1>1 DEF AnswerTo, Kept, Counted, answer
<1>3. Logged(req, end, answer) =
        IF req.path \in Unlogged THEN None ELSE [code |-> 200, failed |-> FALSE]
    BY <1>1, <1>2 DEF Logged
<1>4. [code |-> 200, failed |-> FALSE] # None
    <2>1. [code |-> 200, failed |-> FALSE] \in [code : Nat \cup {None, Text}, failed : BOOLEAN]
        OBVIOUS
    <2>2. QED
        BY <2>1, NamesAssumption
<1>5. Ending(req, end) =
        [status |-> status, code |-> code, metric |-> status,
         log |-> IF Unparsable(req) \/ req.path \in Unlogged THEN None
                 ELSE [code |-> 200, failed |-> FALSE],
         ran |-> ran, committed |-> committed]
    BY <1>0, <1>1, <1>2, <1>3 DEF Ending, Response
<1>6. QED
    BY <1>4, <1>5 DEF end, Succeeded

\* A dependency fails with one of the failures, or not at all.
LEMMA ResolveFails ==
    ASSUME NEW req \in Request, NEW user, NEW deps, NEW i
    PROVE  Resolve(deps, i, req, user) \in Failures \cup {None}
<1>1. {TokenError, AuthorizationError, ServerError, TooManyRequests} \subseteq Failures
    BY DEF Failures, Raised
<1>2. /\ jwt_authentication_verify(user) \in {TokenError, None}
      /\ superuser_verify(user) \in {TokenError, AuthorizationError, None}
      /\ rate_limit(req) \in {TooManyRequests, None}
      /\ \A plugin : status_checker(req, plugin) \in {ServerError, None}
    BY DEF jwt_authentication_verify, superuser_verify, rate_limit, status_checker
<1>3. \A perm : rbac(req, user, perm) \in {TokenError, ServerError, AuthorizationError, None}
    BY DEF rbac
<1>4. QED
    BY <1>1, <1>2, <1>3 DEF Resolve

\* The walk over the dependencies ends without a failure only if none fails.
LEMMA DependenciesPass ==
    ASSUME NEW req \in Request, NEW user, NEW D, NEW deps \in Seq(D)
    PROVE  /\ Dependencies(req, user, deps) \in Failures \cup {None}
           /\ Dependencies(req, user, deps) = None =>
                \A i \in DOMAIN deps : Resolve(deps, i, req, user) = None
<1> DEFINE denied == {i \in DOMAIN deps : Resolve(deps, i, req, user) # None}
<1>1. demo_site(req) \in Failures \cup {None}
    BY DEF demo_site, Failures
<1>2. denied \in SUBSET Nat
    BY DEF denied
<1>3. denied # {} => Resolve(deps, Min(denied), req, user) \in Failures
    <2>1. SUFFICES ASSUME denied # {} PROVE Resolve(deps, Min(denied), req, user) \in Failures
        OBVIOUS
    <2> HIDE DEF denied
    <2>2. Min(denied) \in denied
        BY <1>2, <2>1, Least
    <2>3. Resolve(deps, Min(denied), req, user) # None
        BY <2>2 DEF denied
    <2>4. QED
        BY <2>3, ResolveFails
<1>4. Dependencies(req, user, deps) =
        IF demo_site(req) # None THEN demo_site(req)
        ELSE IF denied = {} THEN None ELSE Resolve(deps, Min(denied), req, user)
    BY DEF Dependencies
<1>5. Dependencies(req, user, deps) = None => denied = {}
    <2> HIDE DEF denied
    <2>1. QED
        BY <1>3, <1>4, NoneIsNoFailure
<1>6. Dependencies(req, user, deps) \in Failures \cup {None}
    <2> HIDE DEF denied
    <2>1. QED
        BY <1>1, <1>3, <1>4
<1>7. QED
    BY <1>5, <1>6

\* A check of roles that passes sees a permission of the user.
LEMMA RbacPassed ==
    ASSUME NEW req \in Request, NEW user \in User, user # None, ~Open(req),
           NEW perm \in STRING, rbac(req, user, perm) = None
    PROVE  user.superuser \/ (perm \in Perms(Enabled(user.roles)) /\ (req.method = "GET" \/ user.staff))
<1> DEFINE c == [open |-> Open(req), token |-> TRUE, write |-> req.method # "GET",
                 perm |-> perm, free |-> {}, roleMenu |-> TRUE]
<1>1. perm # None
    BY NamesAssumption
<1>2. AuthorizationError # None /\ ServerError # None
    BY NoneIsNoFailure DEF Failures
<1>3. rbac_verify(user, c) = "ok"
    BY <1>2 DEF rbac
<1>4. c.open = FALSE /\ c.token = TRUE /\ c.write = (req.method # "GET") /\ c.perm = perm
        /\ c.free = {} /\ c.roleMenu = TRUE
    OBVIOUS
<1>5. user.superuser \in BOOLEAN /\ user.staff \in BOOLEAN
    BY DEF User
<1> HIDE DEF c
<1>6. QED
    BY <1>1, <1>3, <1>4, <1>5 DEF rbac_verify

\* The dependencies of an endpoint allow the request, and it ends without failure.
Admitted(req, user, e) ==
    /\ MayCall(user, e)
    /\ \A d \in ToSet(e.deps) : d.kind = "plugin" => d.arg \in req.plugins

\* The endpoint can read the body it takes.
Bodied(req) == req.json = "malformed" => ~req.takes

EndsWell(req, e) == req.ends \in Answered /\ (e.db = "write" => req.commits)

\* Whom the dependencies of an endpoint let pass may call it.
LEMMA PassedMayCall ==
    ASSUME NEW req \in Request, NEW user \in User \cup {None}, NEW e \in Endpoint,
           user # None => ~Open(req),
           req.method = e.method,
           Api!ChecksNamed(e.deps),
           \A i \in DOMAIN e.deps : Resolve(e.deps, i, req, user) = None
    PROVE  Admitted(req, user, e)
<1> DEFINE deps == e.deps
<1>1. deps \in Seq([kind : STRING, arg : STRING])
    BY DEF Endpoint
<1>2. TokenError # None /\ AuthorizationError # None /\ ServerError # None
    BY NoneIsNoFailure DEF Failures, Raised
<1> HIDE DEF deps
<1>3. \A d \in ToSet(deps) : \E i \in DOMAIN deps : d = deps[i]
    BY <1>1 DEF ToSet
<1>4. \A i \in DOMAIN deps : Resolve(deps, i, req, user) = None
    BY DEF deps
<1>5. \A i \in DOMAIN deps :
        /\ deps[i].kind \in {"jwt", "superuser", "rbac"} => user # None
        /\ deps[i].kind = "superuser" => user.superuser /\ user.staff
        /\ deps[i].kind = "plugin" => deps[i].arg \in req.plugins
    <2> TAKE i \in DOMAIN deps
    <2>1. CASE deps[i].kind = "jwt"
        BY <1>2, <1>4, <2>1 DEF Resolve, jwt_authentication_verify
    <2>2. CASE deps[i].kind = "superuser"
        BY <1>2, <1>4, <2>2 DEF Resolve, superuser_verify
    <2>3. CASE deps[i].kind = "rbac"
        BY <1>2, <1>4, <2>3 DEF Resolve, rbac
    <2>4. CASE deps[i].kind = "plugin"
        BY <1>2, <1>4, <2>4 DEF Resolve, status_checker
    <2>5. QED
        BY <2>1, <2>2, <2>3, <2>4
<1>6. \A i \in DOMAIN deps : deps[i].kind = "permission" =>
        /\ user # None
        /\ \/ user.superuser
           \/ deps[i].arg \in Perms(Enabled(user.roles)) /\ (e.method = "GET" \/ user.staff)
    <2>1. SUFFICES ASSUME NEW i \in DOMAIN deps, deps[i].kind = "permission"
                   PROVE  /\ user # None
                          /\ \/ user.superuser
                             \/ deps[i].arg \in Perms(Enabled(user.roles))
                                  /\ (e.method = "GET" \/ user.staff)
        OBVIOUS
    <2>2. PICK j \in (i + 1)..Len(deps) :
            deps[j].kind = "rbac" /\ \A k \in (i + 1)..j : deps[k].kind # "permission"
        BY <2>1 DEF Api!ChecksNamed, deps
    <2>3. i \in Nat /\ i >= 1 /\ j \in Nat /\ j \in DOMAIN deps /\ Len(deps) \in Nat
        BY <1>1, <2>2
    <2>4. Named(deps, j) = deps[i].arg
        <3> DEFINE before == {k \in 1..(j - 1) : deps[k].kind = "permission"}
        <3>1. i \in before
            BY <2>1, <2>2, <2>3
        <3>2. \A k \in before : k <= i /\ k \in Nat
            BY <2>2, <2>3
        <3> HIDE DEF before
        <3>3. Max(before) = i
            BY <2>3, <3>1, <3>2 DEF Max
        <3>4. QED
            BY <3>1, <3>3 DEF Named, before
    <2>5. rbac(req, user, deps[i].arg) = None
        BY <1>4, <2>2, <2>3, <2>4 DEF Resolve
    <2>6. user # None /\ user \in User
        BY <1>5, <2>2, <2>3
    <2>7. deps[i].arg \in STRING
        <3> DEFINE D == [kind : STRING, arg : STRING]
        <3>1. deps \in Seq(D)
            BY <1>1
        <3>2. deps[i] \in D
            <4> HIDE DEF D
            <4>1. QED
                BY <3>1
        <3>3. QED
            BY <3>2
    <2>8. QED
        BY <2>5, <2>6, <2>7, RbacPassed
<1>7. MayCall(user, e)
    BY <1>3, <1>5, <1>6 DEF MayCall, deps
<1>8. QED
    BY <1>3, <1>5, <1>7 DEF deps, Admitted

\* What a request is routed to, if anything.
LEMMA RouteOf ==
    ASSUME NEW E, NEW endpoints \in Seq(E), NEW method, NEW segments
    PROVE  LET route == Api!Route(endpoints, method, segments)
           IN /\ route.code \in {200, 404, 405}
              /\ route.code = 200 => /\ route.endpoint.method = method
                                     /\ Api!Fits(route.endpoint.path, segments)
<1> DEFINE fits == {i \in DOMAIN endpoints : Api!Fits(endpoints[i].path, segments)}
           chosen == {i \in fits : endpoints[i].method = method}
           route == Api!Route(endpoints, method, segments)
<1>1. chosen \in SUBSET Nat
    OBVIOUS
<1>2. chosen # {} => /\ endpoints[Min(chosen)].method = method
                      /\ Api!Fits(endpoints[Min(chosen)].path, segments)
    <2>1. SUFFICES ASSUME chosen # {} PROVE Min(chosen) \in chosen
        OBVIOUS
    <2> HIDE DEF chosen
    <2>2. QED
        BY <1>1, <2>1, Least
<1>3. Api!Min(chosen) = Min(chosen)
    BY DEF Min, Api!Min
<1>4. route = IF fits = {} THEN [code |-> 404]
              ELSE IF chosen = {} THEN [code |-> 405]
              ELSE [code |-> 200, endpoint |-> endpoints[Min(chosen)]]
    BY <1>3 DEF Api!Route
<1> HIDE DEF fits, chosen, route
<1>5. route.code \in {200, 404, 405} /\ (route.code = 200 => route.endpoint.method = method)
        /\ (route.code = 200 => Api!Fits(route.endpoint.path, segments))
    BY <1>2, <1>4
<1>6. QED
    BY <1>5 DEF route

\* The operation log leaves out the requests for a callback that redirects.
LEMMA RedirectsUnlogged ==
    ASSUME NEW path \in Seq(STRING), path \in Redirecting,
           NEW segments \in Seq(STRING), Api!Fits(path, segments)
    PROVE  segments \in Unlogged
<1>1. /\ Len(segments) = 3 /\ path[1] = "oauth2" /\ path[2] \in {"github", "google"}
      /\ path[3] = "callback" /\ DOMAIN path = 1..3
    BY DEF Redirecting, Api!Fits
<1>2. path[1] = segments[1] /\ path[2] = segments[2] /\ path[3] = segments[3]
    <2>1. \A i \in 1..3 : path[i] \in Api!Parameters \cup {segments[i]}
        BY <1>1 DEF Api!Fits
    <2>2. path[1] \notin Api!Parameters /\ path[2] \notin Api!Parameters /\ path[3] \notin Api!Parameters
        BY <1>1 DEF Api!Parameters
    <2>3. QED
        BY <2>1, <2>2
<1>3. segments = path
    BY <1>1, <1>2
<1>4. QED
    BY <1>3 DEF Redirecting, Unlogged

\* What an endpoint ends with is a code, but for a callback that redirects.
LEMMA CodeOfEnd ==
    ASSUME NEW req \in Request, NEW e, req.ends \in Answered
    PROVE  /\ CodeOf(req, e) = None <=> e.path \in Redirecting
           /\ e.path \notin Redirecting => CodeOf(req, e) = req.ends.code
<1>1. req.ends.code \in Nat
    BY DEF Answered, Success, FailAnswer, Fail
<1>2. QED
    BY <1>1, NamesAssumption DEF CodeOf

\* The three ends of a request that reaches the routes: it fails before the
\* endpoint, in the endpoint or its commit, or not at all.
LEMMA ServeEnds ==
    ASSUME NEW req \in Request, NEW user \in User \cup {None}, NEW e \in Endpoint,
           Endpoints \in Seq(Endpoint), user # None => ~Open(req),
           Reached(req, e), Api!ChecksNamed(e.deps)
    PROVE  \/ \E f \in Failures : Serve(req, user) = Ended(f, 0, None, FALSE)
           \/ /\ Admitted(req, user, e) /\ ~EndsWell(req, e)
              /\ Bodied(req)
              /\ \E f \in Failures : Serve(req, user) = Ended(f, 0, e.name, FALSE)
           \/ /\ Admitted(req, user, e) /\ EndsWell(req, e) /\ Bodied(req)
              /\ Api!Fits(e.path, req.path)
              /\ Serve(req, user) = Ended(None, CodeOf(req, e), e.name, e.db = "write")
<1> DEFINE route == Api!Route(Endpoints, req.method, req.path)
           denied == Dependencies(req, user, e.deps)
<1>1. /\ route.code \in {200, 404, 405}
      /\ route.code = 200 => /\ route.endpoint = e /\ e.method = req.method
                             /\ Api!Fits(e.path, req.path)
    BY RouteOf DEF Reached
<1>2. e.deps \in Seq([kind : STRING, arg : STRING])
    BY DEF Endpoint
<1>3. denied \in Failures \cup {None}
    BY <1>2, DependenciesPass
<1>4. {Fail("http", 404), Fail("http", 405), Fail("validation", 422), Fail("foreign", Text)} \subseteq Failures
    BY DEF Failures, Raised
<1>5. req.ends \notin Answered => req.ends \in Failures
    BY DEF Request, Failures
<1>6. Serve(req, user) =
        IF route.code # 200 THEN Ended(Fail("http", route.code), 0, None, FALSE)
        ELSE IF req.json = "malformed" /\ req.takes THEN Ended(Fail("validation", 422), 0, None, FALSE)
        ELSE IF Dependencies(req, user, route.endpoint.deps) # None
               THEN Ended(Dependencies(req, user, route.endpoint.deps), 0, None, FALSE)
        ELSE IF ~req.input THEN Ended(Fail("validation", 422), 0, None, FALSE)
        ELSE Call(req, route.endpoint)
    BY DEF Serve
<1> HIDE DEF route, denied
<1>7. CASE route.code # 200
    <2>1. Serve(req, user) = Ended(Fail("http", route.code), 0, None, FALSE)
        BY <1>7, <1>6
    <2>2. Fail("http", route.code) \in Failures
        BY <1>1, <1>4, <1>7
    <2>3. QED
        BY <2>1, <2>2
<1>8. CASE route.code = 200 /\ (~Bodied(req) \/ denied # None \/ ~req.input)
    <2>1. Serve(req, user) = IF Bodied(req) /\ denied # None THEN Ended(denied, 0, None, FALSE)
                             ELSE Ended(Fail("validation", 422), 0, None, FALSE)
        BY <1>1, <1>8, <1>6 DEF denied, Bodied
    <2>2. denied # None => denied \in Failures
        BY <1>3
    <2>3. \E f \in Failures : Serve(req, user) = Ended(f, 0, None, FALSE)
        BY <1>4, <2>1, <2>2
    <2>4. QED
        BY <2>3
<1>9. CASE route.code = 200 /\ Bodied(req) /\ denied = None /\ req.input
    <2>1. \A i \in DOMAIN e.deps : Resolve(e.deps, i, req, user) = None
        BY <1>2, <1>9, DependenciesPass DEF denied
    <2>2. Admitted(req, user, e)
        BY <1>1, <1>9, <2>1, PassedMayCall
    <2>3. Serve(req, user) = Call(req, e)
        BY <1>1, <1>9, <1>6 DEF denied, Bodied
    <2>4. CASE req.ends \notin Answered
        <3>1. Call(req, e) = Ended(req.ends, 0, e.name, FALSE)
            BY <2>4 DEF Call
        <3>2. QED
            BY <1>5, <1>9, <2>2, <2>3, <2>4, <3>1 DEF EndsWell
    <2>5. CASE req.ends \in Answered /\ e.db = "write" /\ ~req.commits
        <3>1. Call(req, e) = Ended(Fail("foreign", Text), 0, e.name, FALSE)
            BY <2>5 DEF Call
        <3>2. QED
            <4>1. \E f \in Failures : Serve(req, user) = Ended(f, 0, e.name, FALSE)
                BY <1>4, <2>3, <3>1
            <4>2. ~EndsWell(req, e)
                BY <2>5 DEF EndsWell
            <4>3. QED
                BY <1>9, <2>2, <4>1, <4>2
    <2>6. CASE req.ends \in Answered /\ (e.db = "write" => req.commits)
        <3>1. Call(req, e) = Ended(None, CodeOf(req, e), e.name, e.db = "write")
            BY <2>6 DEF Call
        <3>2. QED
            BY <1>1, <1>9, <2>2, <2>3, <2>6, <3>1 DEF EndsWell
    <2>7. QED
        BY <2>4, <2>5, <2>6
<1>10. QED
    BY <1>7, <1>8, <1>9

\* A request for an endpoint of a right table is let in, answered, stored and
\* logged as the same request.
LEMMA RequestOfRoutes ==
    ASSUME NEW req \in Request, NEW e \in Endpoint, Endpoints \in Seq(Endpoint),
           Reached(req, e), Api!RouteRight(Endpoints, e)
    PROVE  RequestRight(req, e)
<1> DEFINE auth == authenticate(req)
           a == Handle(req)
<1>1. /\ auth.code \in {200, 401, 403, 500, None, Text}
      /\ auth.user \in User \cup {None}
      /\ auth.user # None => ~Open(req)
    BY DEF authenticate, Request
<1>2. e.name # None /\ e.writes \in BOOLEAN
    BY NamesAssumption DEF Endpoint
<1>3. Api!ChecksNamed(e.deps) /\ (e.writes <=> e.db = "write")
    BY DEF Api!RouteRight
<1>4. CASE auth.code # 200
    <2>1. a = auth_exception_handler(auth.code, req.prod)
        BY <1>4 DEF Handle
    <2> HIDE DEF a, auth
    <2>2. a.status \in {401, 403, 500} /\ a.ran = None /\ a.log = None /\ a.committed = FALSE
        BY <1>1, <1>4, <2>1, NamesAssumption DEF auth_exception_handler, Answer, Fail
    <2>3. AnswerRight(req, e, auth, a)
        BY <1>4, <2>2 DEF AnswerRight
    <2>4. QED
        BY <2>3 DEF RequestRight, a, auth
<1> DEFINE end == IF Unparsable(req) THEN Ended(JSONDecodeError, 0, None, FALSE)
                  ELSE Serve(req, auth.user)
<1>5. CASE auth.code = 200
    <2>1. a = Ending(req, end)
        BY <1>5 DEF Handle, dispatch
    <2>2. JSONDecodeError \in Failures
        BY DEF Failures
    <2> HIDE DEF a, auth
    <2>3. \/ \E f \in Failures : end = Ended(f, 0, None, FALSE)
          \/ /\ Admitted(req, auth.user, e) /\ ~EndsWell(req, e)
             /\ Bodied(req) /\ ~Unparsable(req)
             /\ \E f \in Failures : end = Ended(f, 0, e.name, FALSE)
          \/ /\ Admitted(req, auth.user, e) /\ EndsWell(req, e)
             /\ Bodied(req) /\ ~Unparsable(req) /\ Api!Fits(e.path, req.path)
             /\ end = Ended(None, CodeOf(req, e), e.name, e.db = "write")
        <3>1. CASE Unparsable(req)
            <4>1. end = Ended(JSONDecodeError, 0, None, FALSE)
                BY <3>1
            <4>2. QED
                BY <2>2, <4>1
        <3>2. CASE ~Unparsable(req)
            <4>1. end = Serve(req, auth.user)
                BY <3>2
            <4> HIDE DEF end
            <4>2. auth.user \in User \cup {None} /\ (auth.user # None => ~Open(req))
                BY <1>1
            <4>3. \/ \E f \in Failures : Serve(req, auth.user) = Ended(f, 0, None, FALSE)
                  \/ /\ Admitted(req, auth.user, e) /\ ~EndsWell(req, e)
                     /\ Bodied(req)
                     /\ \E f \in Failures : Serve(req, auth.user) = Ended(f, 0, e.name, FALSE)
                  \/ /\ Admitted(req, auth.user, e) /\ EndsWell(req, e) /\ Bodied(req)
                     /\ Api!Fits(e.path, req.path)
                     /\ Serve(req, auth.user) = Ended(None, CodeOf(req, e), e.name, e.db = "write")
                BY <1>3, <4>2, ServeEnds
            <4>4. QED
                BY <3>2, <4>1, <4>3
        <3>3. QED
            BY <3>1, <3>2
    <2> HIDE DEF end
    <2>4. CASE \E f \in Failures : end = Ended(f, 0, None, FALSE)
        <3>1. Failed(req, a, None)
            <4>1. PICK f \in Failures : end = Ended(f, 0, None, FALSE)
                BY <2>4
            <4>2. a = Ending(req, Ended(f, 0, None, FALSE))
                BY <2>1, <4>1
            <4>3. QED
                BY <4>2, FailureResponse
        <3>2. AnswerRight(req, e, auth, a)
            BY <1>5, <3>1 DEF AnswerRight, Failed
        <3>3. QED
            BY <3>2 DEF RequestRight, a, auth
    <2>5. CASE Admitted(req, auth.user, e) /\ ~EndsWell(req, e) /\ Bodied(req) /\ ~Unparsable(req)
               /\ \E f \in Failures : end = Ended(f, 0, e.name, FALSE)
        <3>1. Failed(req, a, e.name)
            <4>1. PICK f \in Failures : end = Ended(f, 0, e.name, FALSE)
                BY <2>5
            <4>2. a = Ending(req, Ended(f, 0, e.name, FALSE))
                BY <2>1, <4>1
            <4>3. QED
                BY <4>2, FailureResponse
        <3>2. AnswerRight(req, e, auth, a)
            BY <1>5, <2>5, <3>1 DEF AnswerRight, Failed, Admitted, EndsWell, Bodied, Unparsable
        <3>3. QED
            BY <3>2 DEF RequestRight, a, auth
    <2>6. CASE Admitted(req, auth.user, e) /\ EndsWell(req, e) /\ Bodied(req) /\ ~Unparsable(req)
               /\ Api!Fits(e.path, req.path)
               /\ end = Ended(None, CodeOf(req, e), e.name, e.db = "write")
        <3> DEFINE code == CodeOf(req, e)
        <3>1. /\ code = None <=> e.path \in Redirecting
              /\ e.path \notin Redirecting => code = req.ends.code
            BY <2>6, CodeOfEnd DEF EndsWell
        <3>2. code = None => req.path \in Unlogged
            BY <2>6, <3>1, RedirectsUnlogged DEF Endpoint, Request
        <3> HIDE DEF code
        <3>3. Succeeded(req, a, code, e.name, e.db = "write")
            BY <2>1, <2>6, <3>2, EndResponse DEF code
        <3>4. (req.ends = Success /\ req.ends.code = 200) \/ req.ends = FailAnswer
            BY <2>6 DEF EndsWell, Answered, Success, Fail
        <3>5. AnswerRight(req, e, auth, a)
            BY <1>2, <1>3, <1>5, <2>6, <3>1, <3>2, <3>3, <3>4 DEF AnswerRight, Succeeded, Admitted, EndsWell,
                Bodied, Unparsable
        <3>6. QED
            BY <3>5 DEF RequestRight, a, auth
    <2>7. QED
        BY <2>3, <2>4, <2>5, <2>6
<1>6. QED
    BY <1>4, <1>5

-----------------------------------------------------------------------------
(* The theorems                                                            *)

\* What is asked is of the type of its question, and a request is for its
\* endpoint or for none.
Asked ==
    \/ task = Idle
    \/ task \in [asked : {"access"}, user : User, check : Check]
    \/ task \in [asked : {"filter"}, user : User, rule : Rule, table : Tables]
    \/ /\ task \in [asked : {"request"}, req : Request, endpoint : Api!ToSet(Endpoints)]
       /\ Reached(task.req, task.endpoint)

LEMMA AskedInvariant == Spec => []Asked
<1>1. Init => Asked
    BY DEF Init, Asked
<1>2. Asked /\ [Next]_task => Asked'
    <2> SUFFICES ASSUME Asked, [Next]_task PROVE Asked'
        OBVIOUS
    <2>1. CASE UNCHANGED task
        BY <2>1 DEF Asked
    <2>2. CASE AskAccess
        BY <2>2, DecisionsAssumption DEF AskAccess, Asked
    <2>3. CASE AskFilter
        BY <2>3, DecisionsAssumption DEF AskFilter, Asked
    <2>4. CASE AskRequest
        <3>1. PICK q \in Requests :
                /\ Reached(q.req, q.endpoint)
                /\ task' = [asked |-> "request", req |-> q.req, endpoint |-> q.endpoint]
            BY <2>4 DEF AskRequest
        <3>2. q \in [req : Request, endpoint : Api!ToSet(Endpoints)]
            BY DecisionsAssumption
        <3>3. task'.req = q.req /\ task'.endpoint = q.endpoint
            BY <3>1
        <3>4. QED
            BY <3>1, <3>2, <3>3 DEF Asked
    <2>5. QED
        BY <2>1, <2>2, <2>3, <2>4 DEF Next
<1>3. QED
    BY <1>1, <1>2, PTL DEF Spec

\* rbac_verify: for any users, roles, menus and checks the roles of a user add
\* up, and what is disabled gives nothing.
THEOREM DecisionsAccessRight == Spec => []AccessRight
<1>1. Asked => AccessRight
    <2> SUFFICES ASSUME Asked, task.asked = "access" PROVE AccessAddsUp(task.user, task.check)
        BY DEF AccessRight
    <2>1. task.user \in User /\ task.check \in Check
        BY DEF Asked, Idle
    <2>2. QED
        BY <2>1, AccessOfRoles
<1>2. QED
    BY <1>1, AskedInvariant, PTL

\* filter_data_permission: for any users, rules and tables, a rule more moves
\* what a user sees the way its operator says.
THEOREM DecisionsFilterRight == Spec => []FilterRight
<1>1. Asked => FilterRight
    <2> SUFFICES ASSUME Asked, task.asked = "filter"
                 PROVE  FilterMoves(task.user, task.rule, task.table, task.table.rows)
        BY DEF FilterRight
    <2>1. task.user \in User /\ task.rule \in Rule
        BY DEF Asked, Idle
    <2>2. QED
        BY <2>1, FilterOfRules
<1>2. QED
    BY <1>1, AskedInvariant, PTL

\* The middlewares, dependencies and handlers: if the table of endpoints is right,
\* then every request of any user with any body, token and fate is let in,
\* answered, stored and logged as the same request.
THEOREM DecisionsRequestsRight == Spec /\ []RoutesRight => []RequestsRight
<1>1. Asked /\ RoutesRight => RequestsRight
    <2> SUFFICES ASSUME Asked, RoutesRight, task.asked = "request"
                 PROVE  RequestRight(task.req, task.endpoint)
        BY DEF RequestsRight
    <2>1. task.req \in Request /\ task.endpoint \in Api!ToSet(Endpoints) /\ Reached(task.req, task.endpoint)
        BY DEF Asked, Idle
    <2>2. Api!RouteRight(Endpoints, task.endpoint)
        BY DEF RoutesRight
    <2>3. Endpoints \in Seq(Endpoint)
        BY DecisionsAssumption
    <2>4. task.endpoint \in Endpoint
        BY <2>1, <2>3 DEF Api!ToSet
    <2>5. QED
        BY <2>1, <2>2, <2>3, <2>4, RequestOfRoutes
<1>2. QED
    BY <1>1, AskedInvariant, PTL
=============================================================================
