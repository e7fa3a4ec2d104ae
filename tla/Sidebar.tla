------------------------------- MODULE Sidebar -------------------------------
(***************************************************************************)
(* The menus of a user's own (MenuService.get_sidebar), as a tree.  Menu   *)
(* rows are [id, parent, sort, type, live]; the types 0 to 4 are           *)
(* directory, menu, button, embedded and external link.                    *)
(***************************************************************************)
EXTENDS Trees

CONSTANT Text

INSTANCE Authorisation

\* crud_menu.get_sidebar: an empty list is no filter.
crud_get_sidebar(menus, ids) ==
    SelectSeq(menus, LAMBDA m :
        /\ m.type \in {0, 1, 3, 4} /\ m.live
        /\ ids = {} \/ m.id \in ids)

get_sidebar(user, menus) ==
    LET ids == UNION {{m.id : m \in r.menus} : r \in Enabled(user.roles)}
    IN IF user.superuser THEN get_vben5_tree_data(crud_get_sidebar(menus, {}))
       ELSE IF Enabled(user.roles) = {} THEN <<>>
       ELSE get_vben5_tree_data(crud_get_sidebar(menus, ids))

\* The sidebar of a user (MenuService.get_sidebar) shows menus of the user's
\* own enabled roles only, and all that can be shown of them; but when those
\* roles have no menu at all, it shows everybody's, as to a superuser.
SidebarOwn(user, menus) ==
    LET own == UNION {{m.id : m \in r.menus} : r \in Enabled(user.roles)}
        everything == Shown(get_sidebar([user EXCEPT !.superuser = TRUE], menus))
    IN ~user.superuser =>
          Shown(get_sidebar(user, menus)) =
              IF Enabled(user.roles) # {} /\ own = {} THEN everything ELSE everything \cap own
=============================================================================
