---------------------------- MODULE Authorisation ----------------------------
(***************************************************************************)
(* What a request may do and see: rbac_verify (common/security/rbac.py)    *)
(* and filter_data_permission (common/security/permission.py).  Both read  *)
(* the user that authentication put into the request, a record of type     *)
(* User.  The values of a rule are the list its text splits into.          *)
(***************************************************************************)
EXTENDS Naturals, Sequences, FiniteSets

CONSTANTS None, Text

Menu == [id : Nat, perms : SUBSET STRING, status : BOOLEAN]
Rule == [model : STRING, column : STRING, expression : STRING,
         value : Seq([var : STRING, num : Nat]), operator : {"AND", "OR"}]
Scope == [status : BOOLEAN, rules : SUBSET Rule]
Role == [status : BOOLEAN, filtered : BOOLEAN, menus : SUBSET Menu, scopes : SUBSET Scope]
User == [superuser : BOOLEAN, staff : BOOLEAN, id : Nat, dept : Nat, roles : SUBSET Role]

Enabled(things) == {t \in things : t.status}

-----------------------------------------------------------------------------
(* rbac_verify.  A request is a Check: the path needs no token, a token    *)
(* was verified, the method is neither GET nor OPTIONS, the permission the *)
(* endpoint names or None, the permissions exempt from the check, and the  *)
(* mode.                                                                   *)

Check == [open : BOOLEAN, token : BOOLEAN, write : BOOLEAN, perm : STRING \cup {None},
          free : SUBSET STRING, roleMenu : BOOLEAN]

Perms(roles) == UNION {m.perms : m \in Enabled(UNION {r.menus : r \in roles})}

\* Mutant: the menus of disabled roles count too.
rbac_verify_all(user, req) ==
    IF req.open THEN "ok"
    ELSE IF ~req.token THEN "no_token"
    ELSE IF user.superuser THEN "ok"
    ELSE IF Enabled(user.roles) = {} THEN "role_locked"
    ELSE IF \A r \in user.roles : r.menus = {} THEN "no_menu"
    ELSE IF req.write /\ ~user.staff THEN "staff_forbidden"
    ELSE IF ~req.roleMenu THEN "server_error"
    ELSE IF req.perm = None \/ req.perm \in req.free \cup Perms(user.roles) THEN "ok"
    ELSE "forbidden"

\* The casbin mode needs a plugin that this repository does not hold: without
\* it the import fails.
rbac_verify(user, req) ==
    LET enabled == Enabled(user.roles)
    IN IF req.open THEN "ok"
       ELSE IF ~req.token THEN "no_token"
       ELSE IF user.superuser THEN "ok"
       ELSE IF enabled = {} THEN "role_locked"
       ELSE IF \A r \in enabled : r.menus = {} THEN "no_menu"
       ELSE IF req.write /\ ~user.staff THEN "staff_forbidden"
       ELSE IF ~req.roleMenu THEN "server_error"
       ELSE IF req.perm = None \/ req.perm \in req.free \cup Perms(enabled) THEN "ok"
       ELSE "forbidden"

Allowed(user, req) == rbac_verify(user, req) = "ok"

WithRoles(user, roles) == [user EXCEPT !.roles = roles]

EnabledMenusOnly(user) ==
    WithRoles(user, {[r EXCEPT !.menus = Enabled(@)] : r \in user.roles})

\* The roles of a user add up: a request is allowed when one role alone would
\* allow it, so a further role never takes access away; a disabled role gives
\* nothing, and a disabled menu gives no permission (it does count as a menu
\* for an endpoint that asks for none).
AccessAddsUp(user, req) ==
    /\ user.roles # {} /\ ~user.superuser =>
         (Allowed(user, req) <=> \E r \in user.roles : Allowed(WithRoles(user, {r}), req))
    /\ rbac_verify(user, req) = rbac_verify(WithRoles(user, Enabled(user.roles)), req)
    /\ Allowed(EnabledMenusOnly(user), req) => Allowed(user, req)
    /\ Allowed(user, req) /\ req.perm # None /\ ~Allowed(EnabledMenusOnly(user), req) =>
         req.perm \in req.free

-----------------------------------------------------------------------------
(* filter_data_permission for one table [name, columns], a set of column   *)
(* names, with a filter that no rule can name the columns excluded by the  *)
(* settings (ids, sorts, times).                                           *)

ColumnOf(column) == IF column = "__dept_id__" THEN "dept_id" ELSE column

Excluded == {"id", "sort"}

\* A value is [var, num]: a template variable, or a number under var = "".
\* ${user_id} and ${dept_id} are replaced by what they name.  ${now} names a
\* function, which no column type converts: the text of the variable stays.
cast_value(user, value) ==
    CASE value.var = "user_id" -> user.id
      [] value.var = "dept_id" -> user.dept
      [] value.var = "now" -> Text
      [] OTHER -> value.num

\* A time compared with a text gives no row: the database refuses the query.
Condition(user, rule, row) ==
    LET field == row[ColumnOf(rule.column)]
        values == {cast_value(user, rule.value[i]) : i \in DOMAIN rule.value}
        v == cast_value(user, rule.value[1])
    IN /\ Text \notin values
       /\ CASE rule.expression = "eq" -> field = v
            [] rule.expression = "ne" -> field # v
            [] rule.expression = "gt" -> field > v
            [] rule.expression = "ge" -> field >= v
            [] rule.expression = "lt" -> field < v
            [] rule.expression = "le" -> field <= v
            [] rule.expression = "in" -> field \in values
            [] rule.expression = "not_in" -> field \notin values

Rules(user) == UNION {s.rules : s \in Enabled(UNION {r.scopes : r \in Enabled(user.roles)})}

Applies(rule, table) ==
    /\ rule.model \in {"__ALL__", table.name}
    /\ ColumnOf(rule.column) \in table.columns \ Excluded

\* Mutant: rules whose column is not in the table make the filter empty.
VisibleStrict(user, table, row) ==
    \/ user.superuser
    \/ \E r \in Enabled(user.roles) : ~r.filtered
    \/ LET used == {q \in Rules(user) : Applies(q, table)}
           and == {q \in used : q.operator = "AND"}
           or == used \ and
       IN \/ and # {} /\ \A q \in and : Condition(user, q, row)
          \/ \E q \in or : Condition(user, q, row)

\* filter_data_permission: the and-rules together, or one of the or-rules.
Visible(user, table, row) ==
    \/ user.superuser
    \/ \E r \in Enabled(user.roles) : ~r.filtered
    \/ LET used == {q \in Rules(user) : Applies(q, table)}
           and == {q \in used : q.operator = "AND"}
           or == used \ and
       IN /\ Rules(user) # {}
          /\ \/ used = {}
             \/ and # {} /\ \A q \in and : Condition(user, q, row)
             \/ \E q \in or : Condition(user, q, row)

Seen(user, table, rows) == {row \in rows : Visible(user, table, row)}

Give(user, rule) ==
    WithRoles(user, {[r EXCEPT !.scopes = @ \cup {[status |-> TRUE, rules |-> {rule}]}]
                     : r \in user.roles})

\* What a change of the rules does to what a user sees of a table.  Disabled
\* roles and scopes make no difference.  Once one rule applies, a further
\* or-rule shows more and no less, and a further and-rule beside an and-rule
\* shows less and no more; the first rule of all, if it does not apply to this
\* table, opens the whole table that was closed without a rule.
FilterMoves(user, rule, table, rows) ==
    LET before == Seen(user, table, rows)
        after == Seen(Give(user, rule), table, rows)
        used == {q \in Rules(user) : Applies(q, table)}
        enabledOnly == WithRoles(user, {[r EXCEPT !.scopes = Enabled(@)] : r \in Enabled(user.roles)})
    IN /\ before = Seen(enabledOnly, table, rows)
       /\ rule.operator = "OR" /\ used # {} => before \subseteq after
       /\ rule.operator = "AND" /\ (\E q \in used : q.operator = "AND") => after \subseteq before
       /\ ~user.superuser /\ (\A r \in user.roles : r.filtered) /\ Enabled(user.roles) # {} =>
            /\ Rules(user) = {} => before = {}
            /\ ~Applies(rule, table) /\ used = {} => after = rows

\* A rule that compares a time with ${now}, the current time (core/conf.py),
\* holds for the rows whose time compares so with the time of the request.
NowIsCurrent(user, rule, row, now) ==
    Condition(user, rule, row)
        <=> Condition(user, [rule EXCEPT !.value = <<[var |-> "", num |-> now]>>], row)
=============================================================================
