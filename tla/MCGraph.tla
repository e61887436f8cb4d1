------------------------------ MODULE MCGraph ------------------------------
(***************************************************************************)
(* Three workspaces for TLC.  In root r, repository svc has a user of      *)
(* namespace N and a file declaring it, and repository lib a copy of the   *)
(* declaration.  In root p, two Python modules can answer one import.      *)
(* Root w has a page that imports a module by its emitted name and calls   *)
(* an endpoint that root s declares.                                       *)
(***************************************************************************)
EXTENDS Impact

Path(root, dir, stem, ext) == [root |-> root, dir |-> dir, stem |-> stem, ext |-> ext]

User   == Path("r", <<"svc">>, "User", ".cs")
Data   == Path("r", <<"svc">>, "Data", ".cs")
Copy   == Path("r", <<"lib">>, "Data", ".cs")
App    == Path("p", <<"svc">>, "app", ".py")
Db     == Path("p", <<"svc", "core">>, "db", ".py")
OldDb  == Path("p", <<"svc", "old", "core">>, "db", ".py")
Page   == Path("w", <<"web">>, "page", ".ts")
Api    == Path("w", <<"web">>, "api", ".ts")
Server == Path("s", <<"svc">>, "Server", ".cs")

Home   == Path("s", <<"svc", "Pages", "items">>, "Index", ".cshtml")

MCPaths == {Home, User, Data, Copy, App, Db, OldDb, Page, Api, Server}

MCWorkspaces == {{"r"}, {"p"}, {"s", "w"}}

Using(name, static) ==
  [module |-> <<name>>, dots |-> 0, ext |-> "", is_static |-> static, is_global |-> FALSE]
Import(module, dots, ext) ==
  [module |-> module, dots |-> dots, ext |-> ext, is_static |-> FALSE, is_global |-> FALSE]

UserContent ==
  [EmptyContent EXCEPT !.imports = {Using("N", FALSE), Using("N", TRUE)}]
DeclaresN == [EmptyContent EXCEPT !.blocks = {<<<<"N">>>>}]
ServesItems ==
  [EmptyContent EXCEPT !.imports = {Using("System", FALSE)}, !.statements =
     <<[op |-> "group", var |-> "items", receiver |-> "app", template |-> <<"items">>],
       [op |-> "map", var |-> "", receiver |-> "items", template |-> <<"{}">>],
       [op |-> "map", var |-> "", receiver |-> "elsewhere", template |-> <<"{}">>]>>]
ServesController ==
  [EmptyContent EXCEPT !.controllers =
     {[name |-> "items", route |-> <<"[controller]">>,
       methods |-> {[verb |-> TRUE, route |-> <<"{*}">>]}]}]
AppContent ==
  [EmptyContent EXCEPT !.imports = {Import(<<"core", "db">>, 0, ""),
                                    Import(<<"core", "db">>, 1, ""),
                                    Import(<<"os">>, 0, "")}]
PageContent ==
  [EmptyContent EXCEPT
     !.imports = {Import(<<".", "api">>, 1, ".js"), Import(<<"react">>, 0, "")},
     !.fetches = {[client |-> "fetch", url |-> <<"api", "items">>, literal |-> FALSE],
                  [client |-> "fetch", url |-> <<"items">>, literal |-> TRUE],
                  [client |-> "log", url |-> <<"items">>, literal |-> TRUE]}]

MCContentsOf ==
  [f \in Paths |->
     CASE f = User -> {UserContent}
       [] f \in {Data, Copy} -> {DeclaresN}
       [] f = Home -> {[EmptyContent EXCEPT !.page = <<>>]}
       [] f = Server -> {ServesItems, ServesController}
       [] f = App  -> {AppContent}
       [] f = Page -> {PageContent}
       [] OTHER    -> {EmptyContent}]

MCInitialDisk ==
  [f \in Paths |->
     CASE f = Server -> ServesItems
       [] f = OldDb -> Nothing
       [] OTHER     -> CHOOSE c \in MCContentsOf[f] : TRUE]

MCOldIndexes == {{}, {f \in Paths : MCInitialDisk[f] # Nothing}}

MCScopes == {Nothing, "w"}

MCBuiltins == [l \in {"python", "csharp"} |->
                 IF l = "python" THEN {"os"} ELSE {"System"}]
MCDeclared == {[root |-> "w", unit |-> "web", packages |-> {<<"react">>}]}
MCBasePaths == <<<<"api">>>>
MCNeedles == {[dir |-> <<>>, stem |-> "data", ext |-> ".cs"],
              [dir |-> <<"lib">>, stem |-> "Data", ext |-> ".cs"],
              [dir |-> <<"core">>, stem |-> "db", ext |-> ".py"]}

MCLower(name) == CASE name = "Data" -> "data"
                   [] name = "Index" -> "index"
                   [] OTHER -> name

=============================================================================
