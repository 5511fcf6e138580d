---------------------------- MODULE Permissions ----------------------------
(* Who may see what: the menu of the pages, which offers each visitor what   *)
(* his login, his roles in the contract at hand and its status permit, and   *)
(* the table of endpoints, which admits or refuses what he then asks for:    *)
(* two separate tables, read by separate functions.                          *)
(*                                                                           *)
(* Roles are looked up for the session's address, which nothing in the code  *)
(* ever sets, so everybody's are Anyone. Statuses 0, 1 and 2 are written     *)
(* pending, completed and refused.                                           *)

Anyone == {"any"}
Parties == {"sender", "handler", "receiver"}
Statuses == {"pending", "completed", "refused"}

-----------------------------------------------------------------------------
Entry(h, r, s, l) == [href |-> h, roles |-> r, statuses |-> s, logins |-> l]

submenus ==
    {Entry("/", Anyone, Anyone, Anyone),
     Entry("/new-contract", Anyone, Anyone, {"logged"}),
     Entry("/set-completed-contract", {"receiver"}, {"pending"}, {"logged"}),
     Entry("/set-refused-contract", {"receiver"}, {"pending"}, {"logged"}),
     Entry("/withdrawal", {"sender"}, {"completed"}, {"logged"}),
     Entry("/login", Anyone, Anyone, {"non-logged"}),
     Entry("/profile", Anyone, Anyone, {"logged"}),
     Entry("/logout", Anyone, Anyone, {"logged"}),
     Entry("/register", Anyone, Anyone, {"non-logged"})}

\* menuReducer: an entry is there if roles and login fit, and enabled if the
\* status does too.
Offered(authenticated, roles, status) ==
    {e.href : e \in {f \in submenus :
        /\ f.roles = Anyone \/ f.roles \cap roles # {}
        /\ f.logins = Anyone \/ (IF authenticated THEN "logged" ELSE "non-logged") \in f.logins
        /\ f.statuses = Anyone \/ status \in f.statuses}}

-----------------------------------------------------------------------------
Endpoint(c, r, s) == [conditions |-> c, roles |-> r, statuses |-> s]

OnlyAuthenticated == {"user_authenticated"}
OnlyNonAuthenticated == {"user_non_authenticated"}
RestrictedGui == {"user_authenticated", "user_has_permission", "contract_status_compatible"}

\* The permissions of those of appEndpoints that the menu links to.
permissions ==
    [p \in {e.href : e \in submenus} |->
        CASE p = "/" -> Endpoint({}, Anyone, Anyone)
          [] p \in {"/login", "/register"} -> Endpoint(OnlyNonAuthenticated, Anyone, Anyone)
          [] p \in {"/profile", "/logout", "/new-contract"} ->
                Endpoint(OnlyAuthenticated, Anyone, Anyone)
          [] p = "/withdrawal" -> Endpoint(RestrictedGui, {"sender"}, {"completed"})
          [] OTHER -> Endpoint(RestrictedGui, {"receiver"}, {"pending"})]

\* checkPermissions: every condition of the endpoint's profile holds.
Admitted(p, authenticated, roles, status) ==
    \A c \in permissions[p].conditions :
        CASE c = "user_authenticated" -> authenticated
          [] c = "user_non_authenticated" -> ~authenticated
          [] c = "user_has_permission" ->
                permissions[p].roles = Anyone \/ permissions[p].roles \cap roles # {}
          [] c = "contract_status_compatible" ->
                permissions[p].statuses = Anyone \/ status \in permissions[p].statuses

\* Whether every link in a menu made for one login is open to another, the roles
\* and the status being the same: [menu |-> [visitor |-> ...]] by authenticated.
LinksOpen ==
    [menu \in BOOLEAN |-> [visitor \in BOOLEAN |->
        \A roles \in {Anyone} \cup (SUBSET Parties \ {{}}), status \in Statuses :
            \A p \in Offered(menu, roles, status) : Admitted(p, visitor, roles, status)]]

=============================================================================
