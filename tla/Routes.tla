-------------------------------- MODULE Routes --------------------------------
(***************************************************************************)
(* The endpoints of the API in the order of their registration: the        *)
(* modules under api/v1 of the applications and the plugins, the routers   *)
(* that include them, and the choice of the endpoint for a request.        *)
(*                                                                         *)
(* An endpoint is                                                          *)
(*   name, method, path   the path below /api/v1, a sequence of segments,  *)
(*                        a parameter by its name in braces                *)
(*   deps                 its dependencies, in the order they are resolved *)
(*   db                   "none", "read" (CurrentSession) or "write"       *)
(*                        (CurrentSessionTransaction)                      *)
(*   writes               whether the service it calls changes rows        *)
(***************************************************************************)
EXTENDS Naturals, Sequences, FiniteSets, SequencesExt

Dep(kind, arg) == [kind |-> kind, arg |-> arg]

Jwt == Dep("jwt", "")
SuperUser == Dep("superuser", "")
RBAC == Dep("rbac", "")
Limit == Dep("limit", "")
Permission(perm) == Dep("permission", perm)
Cached(group) == Dep("cached", group)
Evicts(group) == Dep("evicts", group)
Enabled_(plugin) == Dep("plugin", plugin)

Endpoint(name, method, path, deps, db, writes) ==
    [name |-> name, method |-> method, path |-> path, deps |-> deps, db |-> db, writes |-> writes]

\* Mutant: the permission is named after the check.
WriteUnordered(name, method, path, perm) ==
    Endpoint(name, method, path, <<RBAC, Permission(perm)>>, "write", TRUE)

\* The three forms most endpoints have: a reader for everybody who is logged in,
\* a writer for those with a permission, which must be named before the check,
\* and one for superusers.
Get(name, path) == Endpoint(name, "GET", path, <<Jwt>>, "read", FALSE)
Write(name, method, path, perm) ==
    Endpoint(name, method, path, <<Permission(perm), RBAC>>, "write", TRUE)
Super(name, method, path, db) ==
    Endpoint(name, method, path, <<SuperUser>>, db, db = "write")

With(dep, endpoints) == [i \in DOMAIN endpoints |-> [endpoints[i] EXCEPT !.deps = Append(@, dep)]]
Before(dep, endpoints) == [i \in DOMAIN endpoints |-> [endpoints[i] EXCEPT !.deps = <<dep>> \o @]]
Under(segments, endpoints) == [i \in DOMAIN endpoints |-> [endpoints[i] EXCEPT !.path = segments \o @]]

-----------------------------------------------------------------------------
(* app/admin/api/v1                                                        *)

Auth ==
    <<Endpoint("login_swagger", "POST", <<"login", "swagger">>, <<>>, "write", TRUE),
      Endpoint("login", "POST", <<"login">>, <<Limit>>, "write", TRUE),
      Get("get_codes", <<"codes">>),
      Endpoint("refresh_token", "POST", <<"refresh">>, <<>>, "read", FALSE),
      Endpoint("logout", "POST", <<"logout">>, <<>>, "none", FALSE)>>

Captcha == <<Endpoint("get_captcha", "GET", <<"captcha">>, <<Limit>>, "read", FALSE)>>

LoginLogs ==
    <<Get("get_login_logs_paginated", <<>>),
      Write("delete_login_logs", "DELETE", <<>>, "log:login:del"),
      Write("delete_all_login_logs", "DELETE", <<"all">>, "log:login:clear")>>

OperaLogs ==
    <<Get("get_opera_logs_paginated", <<>>),
      Write("delete_opera_logs", "DELETE", <<>>, "log:opera:del"),
      Write("delete_all_opera_logs", "DELETE", <<"all">>, "log:opera:clear")>>

Redis == <<Endpoint("get_redis_info", "GET", <<>>, <<Jwt>>, "none", FALSE)>>

Server == <<Super("get_server_info", "GET", <<>>, "none")>>

Sessions ==
    <<Super("get_sessions", "GET", <<>>, "none"),
      Super("delete_session", "DELETE", <<"{pk}">>, "none")>>

Depts ==
    <<Get("get_dept", <<"{pk}">>),
      Get("get_dept_tree", <<>>),
      Write("create_dept", "POST", <<>>, "sys:dept:add"),
      Write("update_dept", "PUT", <<"{pk}">>, "sys:dept:edit"),
      Write("delete_dept", "DELETE", <<"{pk}">>, "sys:dept:del")>>

Menus ==
    <<Get("get_user_sidebar", <<"sidebar">>),
      Get("get_menu", <<"{pk}">>),
      Get("get_menu_tree", <<>>),
      Write("create_menu", "POST", <<>>, "sys:menu:add"),
      Write("update_menu", "PUT", <<"{pk}">>, "sys:menu:edit"),
      Write("delete_menu", "DELETE", <<"{pk}">>, "sys:menu:del")>>

Roles ==
    <<Get("get_all_roles", <<"all">>),
      Get("get_role_menu_tree", <<"{pk}", "menus">>),
      Get("get_role_scopes", <<"{pk}", "scopes">>),
      Get("get_role", <<"{pk}">>),
      Get("get_roles_paginated", <<>>),
      Write("create_role", "POST", <<>>, "sys:role:add"),
      Write("update_role", "PUT", <<"{pk}">>, "sys:role:edit"),
      Write("update_role_menus", "PUT", <<"{pk}", "menus">>, "sys:role:menu:edit"),
      Write("update_role_scopes", "PUT", <<"{pk}", "scopes">>, "sys:role:scope:edit"),
      Write("delete_roles", "DELETE", <<>>, "sys:role:del")>>

\* What a user changes of its own account.
Own(name, what) == Endpoint(name, "PUT", <<"me", what>>, <<Jwt>>, "write", TRUE)

Users ==
    <<Endpoint("get_current_user", "GET", <<"me">>, <<Jwt>>, "none", FALSE),
      Get("get_userinfo", <<"{pk}">>),
      Get("get_user_roles", <<"{pk}", "roles">>),
      Get("get_users_paginated", <<>>),
      Super("create_user", "POST", <<>>, "write"),
      Super("update_user", "PUT", <<"{pk}">>, "write"),
      Super("update_user_permission", "PUT", <<"{pk}", "permissions">>, "write"),
      Own("update_user_password", "password"),
      Super("reset_user_password", "PUT", <<"{pk}", "password">>, "write"),
      Own("update_user_nickname", "nickname"),
      Own("update_user_avatar", "avatar"),
      Own("update_user_email", "email"),
      Write("delete_user", "DELETE", <<"{pk}">>, "sys:user:del")>>

DataRules ==
    <<Endpoint("get_data_rule_models", "GET", <<"models">>, <<Jwt>>, "none", FALSE),
      Endpoint("get_data_rule_model_columns", "GET", <<"models", "{model}", "columns">>, <<Jwt>>, "none", FALSE),
      Endpoint("get_data_rule_value_template_variables", "GET", <<"value-template-variables">>, <<Jwt>>, "none", FALSE),
      Get("get_all_data_rules", <<"all">>),
      Get("get_data_rule", <<"{pk}">>),
      Get("get_data_rules_paginated", <<>>),
      Write("create_data_rule", "POST", <<>>, "data:rule:add"),
      Write("update_data_rule", "PUT", <<"{pk}">>, "data:rule:edit"),
      Write("delete_data_rules", "DELETE", <<>>, "data:rule:del")>>

DataScopes ==
    <<Get("get_all_data_scope", <<"all">>),
      Get("get_data_scope", <<"{pk}">>),
      Get("get_data_scope_rules", <<"{pk}", "rules">>),
      Get("get_data_scopes_paginated", <<>>),
      Write("create_data_scope", "POST", <<>>, "data:scope:add"),
      Write("update_data_scope", "PUT", <<"{pk}">>, "data:scope:edit"),
      Write("update_data_scope_rules", "PUT", <<"{pk}", "rules">>, "data:scope:rule:edit"),
      Write("delete_data_scopes", "DELETE", <<>>, "data:scope:del")>>

Files == <<Endpoint("upload_files", "POST", <<"upload">>, <<Permission("sys:file:upload"), RBAC>>, "none", FALSE)>>

\* Mutant: the route with the name of a plugin comes first.
PluginsMisplaced ==
    <<Super("get_all_plugins", "GET", <<>>, "none"),
      Super("download_plugin", "GET", <<"{plugin}">>, "none"),
      Super("plugin_changed", "GET", <<"changed">>, "none")>>

Plugins ==
    <<Super("get_all_plugins", "GET", <<>>, "none"),
      Super("plugin_changed", "GET", <<"changed">>, "none"),
      Super("install_plugin", "POST", <<>>, "none"),
      Super("uninstall_plugin", "DELETE", <<"{plugin}">>, "none"),
      Super("update_plugin_status", "PUT", <<"{plugin}", "status">>, "none"),
      Super("download_plugin", "GET", <<"{plugin}">>, "none")>>

-----------------------------------------------------------------------------
(* The plugins                                                             *)

Configs ==
    With(Cached("config"),
         <<Get("get_all_configs", <<"all">>),
           Get("get_config", <<"{pk}">>),
           Get("get_configs_paginated", <<>>)>>)
    \o With(Evicts("config"),
            <<Write("create_config", "POST", <<>>, "sys:config:add"),
              Write("bulk_update_config", "PUT", <<>>, "sys.config.edits"),
              Write("update_config", "PUT", <<"{pk}">>, "sys:config:edit"),
              Write("delete_configs", "DELETE", <<>>, "sys:config:del")>>)

DictDatas ==
    With(Cached("dict"),
         <<Get("get_all_dict_datas", <<"all">>),
           Get("get_dict_data", <<"{pk}">>),
           Get("get_dict_data_by_type_code", <<"type-codes", "{code}">>),
           Get("get_dict_datas_paginated", <<>>)>>)
    \o With(Evicts("dict"),
            <<Write("create_dict_data", "POST", <<>>, "dict:data:add"),
              Write("update_dict_data", "PUT", <<"{pk}">>, "dict:data:edit"),
              Write("delete_dict_datas", "DELETE", <<>>, "dict:data:del")>>)

DictTypes ==
    With(Cached("dict"),
         <<Get("get_all_dict_types", <<"all">>),
           Get("get_dict_type", <<"{pk}">>),
           Get("get_dict_types_paginated", <<>>)>>)
    \o With(Evicts("dict"),
            <<Write("create_dict_type", "POST", <<>>, "dict:type:add"),
              Write("update_dict_type", "PUT", <<"{pk}">>, "dict:type:edit"),
              Write("delete_dict_types", "DELETE", <<>>, "dict:type:del")>>)

Notices ==
    <<Get("get_notice", <<"{pk}">>),
      Get("get_notices_paginated", <<>>),
      Write("create_notice", "POST", <<>>, "sys:notice:add"),
      Write("update_notice", "PUT", <<"{pk}">>, "sys:notice:edit"),
      Write("delete_notices", "DELETE", <<>>, "sys:notice:del")>>

Emails == <<Endpoint("send_email_captcha", "POST", <<"captcha">>, <<Jwt>>, "read", FALSE)>>

Businesses ==
    <<Get("get_all_businesses", <<"all">>),
      Get("get_business", <<"{pk}">>),
      Get("get_businesses_paginated", <<>>),
      Get("get_business_all_columns", <<"{pk}", "columns">>),
      Write("create_business", "POST", <<>>, "codegen:business:add"),
      Write("update_business", "PUT", <<"{pk}">>, "codegen:business:edit"),
      Write("delete_business", "DELETE", <<"{pk}">>, "codegen:business:del")>>

Columns ==
    <<Endpoint("get_column_types", "GET", <<"types">>, <<Jwt>>, "none", FALSE),
      Get("get_column", <<"{pk}">>),
      Write("create_column", "POST", <<>>, "codegen:column:add"),
      Write("update_column", "PUT", <<"{pk}">>, "codegen:column:edit"),
      Write("delete_column", "DELETE", <<"{pk}">>, "codegen:column:del")>>

Generations ==
    <<Endpoint("get_all_tables", "GET", <<"tables">>, <<>>, "read", FALSE),
      Write("import_table", "POST", <<"imports">>, "codegen:table:import"),
      Get("preview_code", <<"{pk}", "preview">>),
      Get("get_generate_paths", <<"{pk}", "paths">>),
      Endpoint("generate_code", "POST", <<"{pk}">>, <<Permission("codegen:local:write"), RBAC>>, "read", FALSE),
      Get("download_code", <<"{pk}">>)>>

Bindings ==
    <<Get("get_user_bindings", <<"me", "bindings">>),
      Endpoint("get_binding_auth_url", "GET", <<"me", "binding">>, <<Jwt>>, "none", FALSE),
      Endpoint("unbinding_user", "DELETE", <<"me", "unbinding">>, <<Jwt>>, "write", TRUE)>>

Github ==
    <<Endpoint("get_github_oauth2_url", "GET", <<>>, <<>>, "none", FALSE),
      Endpoint("github_oauth2_callback", "GET", <<"callback">>, <<Limit>>, "write", TRUE)>>

Google ==
    <<Endpoint("get_google_oauth2_url", "GET", <<>>, <<>>, "none", FALSE),
      Endpoint("google_oauth2_callback", "GET", <<"callback">>, <<Limit>>, "write", TRUE)>>

-----------------------------------------------------------------------------
(* app/task/api/v1                                                         *)

Tasks ==
    <<Endpoint("get_task_registered", "GET", <<"registered">>, <<Jwt>>, "none", FALSE),
      Endpoint("revoke_task", "DELETE", <<"{task_id}", "cancel">>,
               <<Permission("sys:task:revoke"), RBAC>>, "none", FALSE)>>

TaskResults ==
    <<Get("get_task_result", <<"{pk}">>),
      Get("get_task_results_paginated", <<>>),
      Write("delete_task_result", "DELETE", <<>>, "sys:task:del")>>

Schedulers ==
    <<Get("get_all_task_schedulers", <<"all">>),
      Get("get_task_scheduler", <<"{pk}">>),
      Get("get_task_scheduler_paginated", <<>>),
      Write("create_task_scheduler", "POST", <<>>, "sys:task:add"),
      Write("update_task_scheduler", "PUT", <<"{pk}">>, "sys:task:edit"),
      Write("update_task_scheduler_status", "PUT", <<"{pk}", "status">>, "sys:task:edit"),
      Write("delete_task_scheduler", "DELETE", <<"{pk}">>, "sys:task:del"),
      Endpoint("execute_task", "POST", <<"{pk}", "execute">>, <<Permission("sys:task:exec"), RBAC>>, "read", FALSE)>>

-----------------------------------------------------------------------------
(* The routers                                                             *)

\* inject_extend_router: into the router of the application it extends.
Extend(plugin, prefix, endpoints) == Before(Enabled_(plugin), Under(<<prefix>>, endpoints))

sys_router ==
    Under(<<"depts">>, Depts) \o Under(<<"menus">>, Menus) \o Under(<<"roles">>, Roles)
    \o Under(<<"users">>, Users) \o Under(<<"data-rules">>, DataRules)
    \o Under(<<"data-scopes">>, DataScopes) \o Under(<<"files">>, Files)
    \o Under(<<"plugins">>, Plugins)
    \o Extend("config", "configs", Configs) \o Extend("dict", "dict-datas", DictDatas)
    \o Extend("dict", "dict-types", DictTypes) \o Extend("notice", "notices", Notices)

admin_v1 ==
    Under(<<"auth">>, Auth \o Captcha)
    \o Under(<<"sys">>, sys_router)
    \o Under(<<"logs">>, Under(<<"login">>, LoginLogs) \o Under(<<"opera">>, OperaLogs))
    \o Under(<<"monitors">>, Under(<<"redis">>, Redis) \o Under(<<"server">>, Server)
                                \o Under(<<"sessions">>, Sessions))

task_v1 ==
    Under(<<"tasks">>, Tasks) \o Under(<<"task-results">>, TaskResults)
    \o Under(<<"schedulers">>, Schedulers)

code_generator_v1 ==
    Under(<<"code-generation">>,
          Under(<<"businesses">>, Businesses) \o Under(<<"columns">>, Columns)
          \o Under(<<"generations">>, Generations))

email_v1 == Under(<<"emails">>, Emails)

oauth2_v1 ==
    Under(<<"oauth2">>, Bindings \o Under(<<"github">>, Github) \o Under(<<"google">>, Google))

\* build_final_router, with the plugins of the repository.
final_router ==
    admin_v1 \o task_v1 \o Before(Enabled_("code_generator"), code_generator_v1)
    \o Before(Enabled_("email"), email_v1) \o Before(Enabled_("oauth2"), oauth2_v1)

-----------------------------------------------------------------------------
(* The endpoint of a request: the first whose path and method fit; a path  *)
(* that fits with another method is answered 405, no path 404.             *)

Parameters == {"{pk}", "{model}", "{plugin}", "{code}", "{task_id}"}

Fits(path, segments) ==
    /\ Len(path) = Len(segments)
    /\ \A i \in DOMAIN path : path[i] \in Parameters \cup {segments[i]}

Route(endpoints, method, segments) ==
    LET fits == {i \in DOMAIN endpoints : Fits(endpoints[i].path, segments)}
        chosen == {i \in fits : endpoints[i].method = method}
    IN IF fits = {} THEN [code |-> 404]
       ELSE IF chosen = {} THEN [code |-> 405]
       ELSE [code |-> 200, endpoint |-> endpoints[Min(chosen)]]

Filled(path, value) == [i \in DOMAIN path |-> IF path[i] \in Parameters THEN value ELSE path[i]]

Reaches(endpoints, e, value) ==
    LET route == Route(endpoints, e.method, Filled(e.path, value))
    IN route.code = 200 /\ route.endpoint = e

Groups(kind, endpoints) == {d.arg : d \in {d \in UNION {ToSet(e.deps) : e \in endpoints} : d.kind = kind}}

\* The collection of endpoints an endpoint belongs to.
Section(e) == IF e.path[1] = "sys" THEN <<e.path[1], e.path[2]>> ELSE <<e.path[1]>>

\* A permission that is named is the one a later check of roles sees.
ChecksNamed(deps) ==
    \A i \in DOMAIN deps : deps[i].kind = "permission" =>
        \E j \in (i + 1)..Len(deps) :
            deps[j].kind = "rbac" /\ \A k \in (i + 1)..j : deps[k].kind # "permission"

\* For one of the endpoints of the API: it is what a request for its path reaches, for
\* a parameter that is a number or a name no other path uses (but a plugin that
\* is called "changed" is not to be downloaded); its name is its own, as
\* ensure_unique_route_names asks; a permission it names is checked; what changes
\* rows runs in the transaction that commits them; and what changes rows that a collection keeps in the HTTP
\* cache empties that cache.
RouteRight(endpoints, e) ==
    LET same == {o \in ToSet(endpoints) : Section(o) = Section(e)}
    IN /\ \A value \in {"7", "name"} : Reaches(endpoints, e, value)
       /\ ~Reaches(endpoints, e, "changed") => e.name = "download_plugin"
       /\ Cardinality({i \in DOMAIN endpoints : endpoints[i].name = e.name}) = 1
       /\ ChecksNamed(e.deps)
       /\ e.writes <=> e.db = "write"
       /\ e.writes => Groups("cached", same) \subseteq Groups("evicts", {e})
=============================================================================
