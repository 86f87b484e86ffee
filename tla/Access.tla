------------------------------- MODULE Access -------------------------------
(***************************************************************************)
(* Which pages of the web front end an account may open, where it lands    *)
(* and what its menu offers: shared/lib/access.ts, shared/lib/platform.ts, *)
(* the guards of router.tsx and the permissions of a pipeline page.        *)
(*                                                                         *)
(* A path is the name of its section and, for the pages of a node, the     *)
(* node.  What is shown inside a section is left out, and so are labels    *)
(* and icons.                                                              *)
(***************************************************************************)
EXTENDS Naturals, FiniteSets

CONSTANT Owners   \* ids of the nodes and institutions that own accounts

Platforms == {"CENTER", "EDGE", "AUTONOMY", "P2P", "TEST"}
OwnerTypes == {"CENTER", "EDGE", "P2P"}
Embedded == {"alice", "bob", "tee"}
Unknown == ""

(* toPlatformContext; an account may have no owner id. *)
Contexts == [platform : Platforms, ownerType : OwnerTypes, owner : {Unknown} \cup Owners]
Nodes == Embedded \cup Owners

Path(section) == [section |-> section, node |-> Unknown]
NodePath(node, part) == [section |-> part, node |-> node]
Login == Path("login")
Change == Path("change-password")

EdgeOnCenter(ctx) == ctx.platform = "CENTER" /\ ctx.ownerType = "EDGE"
CenterAdmin(ctx) == ctx.platform = "TEST" \/ (ctx.platform = "CENTER" /\ ~EdgeOnCenter(ctx))
CenterOwner(ctx) == ctx.platform = "CENTER" /\ ctx.ownerType = "CENTER"

CanEnterNode(ctx, node) ==
    /\ node # Unknown
    /\ \/ ctx.platform = "TEST"
       \/ CenterOwner(ctx)
       \/ node = ctx.owner

(* The first rule whose section matches; no section is part of another.      *)
Admins == {"nodes", "all-data-sources", "all-data-tables"}
Institution == {"institutions", "inst-register", "p2p/projects"}
(* Mutant: a page of everyone's menu under a rule of the center.             *)
CentralWorkbench == {"projects", "dashboard", "workbench"}

Central == {"projects", "dashboard"}
Collaboration == {"privacy-scenes", "graphs", "dag-templates", "dag", "job-records", "models",
                  "periodic-tasks", "workbench"}
Everyone == {"p2p/my-node", "messages", "account", "data-sources", "data-tables", "results",
             "node-routes", "feature-datasource", "cloud-logs", "component-versions", "audit"}
Sections == Admins \cup {"guide"} \cup Institution \cup Central \cup Collaboration \cup Everyone
NodeTabs == {"node", "node/data-sources", "node/data-tables", "node/cooperative-nodes", "node/results"}
Paths == {Path(s) : s \in Sections} \cup {NodePath(n, t) : n \in Nodes, t \in NodeTabs}

CanAccess(path, ctx) ==
    LET s == path.section IN
    /\ path.node # Unknown => CanEnterNode(ctx, path.node)
    /\ s \in Admins => CenterAdmin(ctx)
    /\ s = "guide" => CenterAdmin(ctx) \/ ctx.platform \in {"AUTONOMY", "P2P"}
    /\ s \in Institution => ctx.platform \in {"AUTONOMY", "P2P", "TEST"}
    /\ s \in Central => ctx.platform \in {"CENTER", "TEST"}
    /\ s \in Collaboration => ctx.platform # "EDGE"

(* Mutant: every account of a center starts with the guide.                  *)
HomeIsGuide(ctx, first) ==
    CASE ctx.platform \in {"AUTONOMY", "P2P"} -> Path("workbench")
      [] ctx.platform = "EDGE" -> IF ctx.owner # Unknown THEN NodePath(ctx.owner, "node")
                                  ELSE Path("p2p/my-node")
      [] OTHER -> IF first THEN Path("guide") ELSE Path("dashboard")

(* resolveHomePath *)
Home(ctx, first) ==
    IF ctx.platform \in {"AUTONOMY", "P2P"} THEN Path("workbench")
    ELSE IF ctx.platform = "EDGE"
    THEN IF ctx.owner # Unknown THEN NodePath(ctx.owner, "node") ELSE Path("p2p/my-node")
    ELSE IF first /\ ctx.platform = "CENTER" /\ ~EdgeOnCenter(ctx) THEN Path("guide") ELSE Path("dashboard")

-----------------------------------------------------------------------------
(* The guards of the router; stored is what the browser stores of the user:  *)
(* "none", "user" or "must" when the password has to be changed.             *)

(* resolveMyNodeId of /p2p/my-node?ownerId=: an administrator of a center has *)
(* none but the embedded nodes.                                              *)
OwnsNoNode(ctx, asked) == CenterOwner(ctx) /\ asked \notin Embedded

(* Mutant: whoever is logged in is sent home from the password page, too.    *)
GuardChangeHome(path, stored, ctx) ==
    CASE stored = "none" -> Login
      [] path \in {Login, Change} -> Home(ctx, FALSE)
      [] stored = "must" -> Change
      [] OTHER -> path

Guard(path, stored, ctx) ==
    IF stored = "none" THEN Login
    ELSE IF path = Change \/ stored = "must" THEN Change
    ELSE IF path = Login \/ ~CanAccess(path, ctx) THEN Home(ctx, FALSE)
    ELSE IF path = Path("p2p/my-node") /\ OwnsNoNode(ctx, Unknown) THEN Path("nodes")
    ELSE IF path.section = "node"
    THEN NodePath(path.node, IF path.node = "tee" THEN "node/data-tables" ELSE "node/data-sources")
    ELSE path

(* Where the redirects end. *)
Resolve(path, stored, ctx) ==
    LET once == Guard(path, stored, ctx)
        twice == Guard(once, stored, ctx)
    IN  Guard(twice, stored, ctx)

(* getPlatformMenu *)
Of(sections) == {Path(s) : s \in sections}
OwnNode(ctx, tabs) == IF ctx.owner = Unknown THEN {} ELSE {NodePath(ctx.owner, t) : t \in tabs}
SharedMenu == {"dag", "dag-templates", "periodic-tasks", "node-routes", "data-sources", "data-tables",
               "feature-datasource", "results", "models", "job-records", "messages", "cloud-logs",
               "privacy-scenes", "account", "workbench"}
EdgeMenu == {"p2p/my-node", "messages", "audit", "account"}
P2PMenu == {"guide", "p2p/projects", "p2p/my-node", "institutions", "audit"}
CenterMenu == {"dashboard", "projects", "graphs", "component-versions"}
AdminMenu == Admins \cup {"guide", "audit"}

Menu(ctx) ==
    IF ctx.platform = "EDGE" THEN Of(EdgeMenu) \cup OwnNode(ctx, NodeTabs \ {"node"})
    ELSE Of(SharedMenu)
           \cup IF ctx.platform \in {"AUTONOMY", "P2P"} THEN Of(P2PMenu)
                ELSE Of(CenterMenu)
                       \cup IF CenterAdmin(ctx) THEN Of(AdminMenu) ELSE OwnNode(ctx, {"node"})

-----------------------------------------------------------------------------
(* Wherever an account lands, it may be.                                     *)
HomeIsOpen == \A ctx \in Contexts, first \in BOOLEAN : CanAccess(Home(ctx, first), ctx)

Opened == Paths \cup {Login, Change}
Markers == {"none", "user", "must"}

(* What may be stored so that redirects end on a page that may be shown,     *)
(* whatever path is opened.                                                  *)
Settled ==
    {m \in Markers : \A ctx \in Contexts, path \in Opened :
        LET there == Resolve(path, m, ctx)
        IN  Guard(there, m, ctx) = there /\ (there \in Paths => CanAccess(there, ctx))}

(* No entry of a menu leads somewhere else.                                  *)
MenuIsOpen ==
    \A ctx \in Contexts : \A path \in Menu(ctx) :
        LET there == Resolve(path, "user", ctx)
        IN  /\ CanAccess(path, ctx)
            /\ there = path \/ (path.node # Unknown /\ there.node = path.node)
=============================================================================
