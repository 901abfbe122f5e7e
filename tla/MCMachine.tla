------------------------------ MODULE MCMachine ------------------------------
(* Model values for Machine: commands that update, install, set up and sign in. *)
EXTENDS Machine, TLC

CONSTANTS c1, c2, c3, o1, o2, o3, a1, a2, a3

\* SelfUpdate: what the three commands are; the releases differ in size.
Commands(x, y, z) == c1 :> x @@ c2 :> y @@ c3 :> z
MCKinds == {Commands("none", "none", "none")} \cup
  {Commands("review", "force", "none"), Commands("review", "review", "none"),
   Commands("update", "force", "none"), Commands("review", "other", "other"),
   Commands("update", "other", "other")}
MCSize == <<1, 2>>

\* HookInstall: installs of both kinds of surface, uninstalls, `lrc uninstall`, toggles.
Does(kind, local, surface) == [kind |-> kind, local |-> local, surface |-> surface]
Install   == Does("install", FALSE, "all")
Uninstall == Does("uninstall", FALSE, "all")
RemoveAll == [kind |-> "remove", local |-> FALSE, surface |-> "all", drop |-> {"shell", "binaries"}]
Toggle(kind, surface) == Does(kind, FALSE, surface)
Operations(x, y, z) == o1 :> x @@ o2 :> y @@ o3 :> z
MCPlans ==
  {Operations(NoOp, NoOp, NoOp), Operations(Install, Install, Uninstall),
   Operations(Install, RemoveAll, NoOp),
   Operations(Does("install", TRUE, "git"), Does("uninstall", TRUE, "git"), NoOp),
   Operations(Does("install", FALSE, "claude"), Uninstall, NoOp),
   Operations(Toggle("disable", "git"), Toggle("disable", "claude"), Toggle("enable", "git"))}
MCHomes ==
  {[path |-> "", editor |-> "vim", lines |-> <<>>, claude |-> {}, legacy |-> FALSE],
   [path |-> "own", editor |-> "", lines |-> <<"sh", "user", "user">>, claude |-> {"mine"}, legacy |-> FALSE],
   [path |-> "own", editor |-> "vim", lines |-> <<"begin", "user">>, claude |-> {"mine"}, legacy |-> TRUE]}

\* AuthConfig: reviews, ensure, setup of this and another server, handlers of the UI.
Wants(kind, url, org) == [kind |-> kind, url |-> url, org |-> org]
Client2(x, y) == a1 :> x @@ a2 :> y @@ a3 :> NoPlan
Review == Wants("review", Cloud, 0)
MCAuthPlans ==
  {Client2(NoPlan, NoPlan),
   Client2(Review, Wants("ensure", Cloud, 0)), Client2(Review, Review),
   Client2(Wants("setup", 2, 0), Review), Client2(Wants("list", 0, 0), Wants("org", 0, 2)),
   Client2(Wants("proxy", 0, 0), Wants("status", 0, 0)), Client2(Wants("reauth", 0, 0), Review)}
Whole   == <<Line("api_key", 2), Line("api_url", Cloud), Line("org_id", 1), Line("jwt", 1),
             Line("refresh_token", 1)>>
\* A file whose api_key line was deleted after `lrc ui` had listed the connectors.
Keyless == Tail(Whole) \o RenderManagedAIConnectorsSection(TRUE)
MCFiles == {<<>>, Whole, Keyless}
=============================================================================
