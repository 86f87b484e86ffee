---------------------------- MODULE AccessProofs ----------------------------
(***************************************************************************)
(* The rules of the paths agree with each other for every account,         *)
(* whatever institutions and nodes there are.                              *)
(***************************************************************************)
EXTENDS Access, TLAPS

(* What canAccessPath says of the pages an account lands on.                 *)
LEMMA LandingPages ==
    ASSUME NEW ctx \in Contexts
    PROVE  /\ ctx.platform # "EDGE" => CanAccess(Path("workbench"), ctx)
           /\ ctx.platform \in {"CENTER", "TEST"} => CanAccess(Path("dashboard"), ctx)
           /\ CenterAdmin(ctx) => CanAccess(Path("guide"), ctx) /\ CanAccess(Path("nodes"), ctx)
           /\ CanAccess(Path("p2p/my-node"), ctx)
           /\ ctx.owner # Unknown => CanAccess(NodePath(ctx.owner, "node"), ctx)
  BY DEF CanAccess, Path, NodePath, Unknown, CanEnterNode, Admins, Institution, Central, Collaboration

(* Wherever an account lands, it may be: resolveHomePath never answers a     *)
(* path that canAccessPath refuses.                                          *)
THEOREM HomesOpen == HomeIsOpen
<1> SUFFICES ASSUME NEW ctx \in Contexts, NEW first \in BOOLEAN
             PROVE  CanAccess(Home(ctx, first), ctx)
  BY DEF HomeIsOpen
<1>1. ctx.platform \in Platforms
  BY DEF Contexts
<1>2. CASE ctx.platform \in {"AUTONOMY", "P2P"}
  BY <1>2, LandingPages DEF Home
<1>3. CASE ctx.platform = "EDGE"
  BY <1>3, LandingPages DEF Home
<1>4. CASE ctx.platform \in {"CENTER", "TEST"}
  BY <1>4, LandingPages DEF Home, CenterAdmin
<1> QED
  BY <1>1, <1>2, <1>3, <1>4 DEF Platforms

-----------------------------------------------------------------------------
(* A path on which the guards leave a user who need not change the password. *)
Stable(path, ctx) == Guard(path, "user", ctx) = path /\ (path \in Paths => CanAccess(path, ctx))

(* Login and the password page are none of the application's.                *)
LEMMA OutsidePages == Login \notin Paths /\ Change \notin Paths /\ Login # Change
<1>1. \A path \in Paths : path.section \in Sections \cup NodeTabs
  BY DEF Paths, Path, NodePath
<1>2. "login" \notin Sections \cup NodeTabs /\ "change-password" \notin Sections \cup NodeTabs
  BY DEF Sections, NodeTabs, Admins, Institution, Central, Collaboration, Everyone
<1>3. Login.section = "login" /\ Change.section = "change-password"
  BY DEF Login, Change, Path
<1> QED
  BY <1>1, <1>2, <1>3

(* A page that may be opened and from which no guard leads on.               *)
LEMMA OpenIsStable ==
    ASSUME NEW ctx, NEW path, path # Login, path # Change, CanAccess(path, ctx), path.section # "node",
           path = Path("p2p/my-node") => ~CenterOwner(ctx)
    PROVE  Stable(path, ctx)
  BY DEF Stable, Guard, OwnsNoNode

(* The pages a redirect leads to are such pages.                             *)
LEMMA SectionsApart ==
    ASSUME NEW s \in {"workbench", "dashboard", "nodes", "p2p/my-node"}
    PROVE  /\ Path(s) # Login /\ Path(s) # Change /\ Path(s).section # "node"
           /\ Path(s) = Path("p2p/my-node") => s = "p2p/my-node"
<1>1. \A t : Path(t).section = t
  BY DEF Path
<1>2. Login.section = "login" /\ Change.section = "change-password"
  BY <1>1 DEF Login, Change
<1> QED
  BY <1>1, <1>2

LEMMA NodeTabsStable ==
    ASSUME NEW ctx, NEW node, node # Unknown => CanEnterNode(ctx, node), NEW t \in NodeTabs \ {"node"}
    PROVE  CanAccess(NodePath(node, t), ctx) /\ Stable(NodePath(node, t), ctx)
<1> DEFINE path == NodePath(node, t)
<1>1. path.section = t /\ path.node = node
  BY DEF NodePath
<1>2. path # Login /\ path # Change /\ path # Path("p2p/my-node") /\ path.section # "node"
  BY <1>1 DEF Login, Change, Path, NodeTabs
<1>3. CanAccess(path, ctx)
  BY <1>1 DEF CanAccess, NodeTabs, Admins, Institution, Central, Collaboration
<1> QED
  BY <1>2, <1>3, OpenIsStable

(* The page of a node leads on to a tab of it.                               *)
LEMMA NodeLeadsOn ==
    ASSUME NEW ctx, NEW path, path.section = "node", CanAccess(path, ctx)
    PROVE  /\ Stable(Guard(path, "user", ctx), ctx)
           /\ Guard(path, "user", ctx).node = path.node
<1>1. path # Login /\ path # Change /\ path # Path("p2p/my-node")
  BY DEF Login, Change, Path
<1>2. PICK t \in {"node/data-tables", "node/data-sources"} : Guard(path, "user", ctx) = NodePath(path.node, t)
  BY <1>1 DEF Guard
<1>3. path.node # Unknown => CanEnterNode(ctx, path.node)
  BY DEF CanAccess
<1>4. t \in NodeTabs \ {"node"}
  BY DEF NodeTabs
<1> QED
  BY <1>2, <1>3, <1>4, NodeTabsStable DEF NodePath

(* Home is such a page, or leads on to one.                                  *)
LEMMA HomeSettles ==
    ASSUME NEW ctx \in Contexts
    PROVE  Stable(Home(ctx, FALSE), ctx) \/ Stable(Guard(Home(ctx, FALSE), "user", ctx), ctx)
<1>1. ctx.platform \in Platforms
  BY DEF Contexts
<1>2. CASE ctx.platform \in {"AUTONOMY", "P2P"}
  BY <1>2, LandingPages, SectionsApart, OpenIsStable DEF Home
<1>3. CASE ctx.platform = "EDGE" /\ ctx.owner # Unknown
  <2>1. Home(ctx, FALSE) = NodePath(ctx.owner, "node")
    BY <1>3 DEF Home
  <2> QED
    BY <1>3, <2>1, LandingPages, NodeLeadsOn DEF NodePath
<1>4. CASE ctx.platform = "EDGE" /\ ctx.owner = Unknown
  BY <1>4, LandingPages, SectionsApart, OpenIsStable DEF Home, CenterOwner
<1>5. CASE ctx.platform \in {"CENTER", "TEST"}
  BY <1>5, LandingPages, SectionsApart, OpenIsStable DEF Home
<1> QED
  BY <1>1, <1>2, <1>3, <1>4, <1>5 DEF Platforms

(* After one redirect a user is on such a page, or at home.                  *)
LEMMA OneRedirect ==
    ASSUME NEW ctx \in Contexts, NEW path
    PROVE  Stable(Guard(path, "user", ctx), ctx) \/ Guard(path, "user", ctx) = Home(ctx, FALSE)
<1>1. CASE path = Change
  BY <1>1, OutsidePages DEF Guard, Stable
<1>2. CASE path # Change /\ (path = Login \/ ~CanAccess(path, ctx))
  BY <1>2 DEF Guard
<1> DEFINE open == path # Change /\ path # Login /\ CanAccess(path, ctx)
<1>3. CASE open /\ path = Path("p2p/my-node") /\ OwnsNoNode(ctx, Unknown)
  <2>1. CenterAdmin(ctx)
    BY <1>3 DEF OwnsNoNode, CenterOwner, CenterAdmin, EdgeOnCenter
  <2>2. Stable(Path("nodes"), ctx)
    BY <2>1, LandingPages, SectionsApart, OpenIsStable
  <2> QED
    BY <1>3, <2>2 DEF Guard
<1>4. CASE open /\ path.section = "node"
  BY <1>4, NodeLeadsOn
<1>5. CASE open /\ ~(path = Path("p2p/my-node") /\ OwnsNoNode(ctx, Unknown)) /\ path.section # "node"
  BY <1>5 DEF Guard, Stable
<1> QED
  BY <1>1, <1>2, <1>3, <1>4, <1>5

(* Redirects end on a page that may be shown: no two guards of the router    *)
(* send each other's pages back and forth.                                   *)
LEMMA RedirectsSettle == Settled = Markers
<1> SUFFICES ASSUME NEW ctx \in Contexts, NEW m \in Markers, NEW path
             PROVE  LET there == Resolve(path, m, ctx)
                    IN  Guard(there, m, ctx) = there /\ (there \in Paths => CanAccess(there, ctx))
  BY DEF Settled
<1>1. CASE m = "none"
  BY <1>1, OutsidePages DEF Resolve, Guard
<1>2. CASE m = "must"
  BY <1>2, OutsidePages DEF Resolve, Guard
<1>3. CASE m = "user"
  <2> DEFINE once == Guard(path, "user", ctx)
             twice == Guard(once, "user", ctx)
  <2>1. Stable(once, ctx) \/ Stable(twice, ctx)
    BY OneRedirect, HomeSettles
  <2>2. Stable(Guard(twice, "user", ctx), ctx)
    BY <2>1 DEF Stable
  <2> QED
    BY <1>3, <2>2 DEF Resolve, Stable
<1> QED
  BY <1>1, <1>2, <1>3 DEF Markers

-----------------------------------------------------------------------------
(* A section the rules open is shown as it is.                               *)
LEMMA MenuSections ==
    ASSUME NEW ctx \in Contexts, NEW path, path \in Menu(ctx), path.node = Unknown
    PROVE  CanAccess(path, ctx) /\ Stable(path, ctx)
<1>1. PICK s : /\ path = Path(s)
               /\ \/ ctx.platform = "EDGE" /\ s \in EdgeMenu
                  \/ ctx.platform # "EDGE" /\ s \in SharedMenu
                  \/ ctx.platform \in {"AUTONOMY", "P2P"} /\ s \in P2PMenu
                  \/ ctx.platform \in {"CENTER", "TEST"} /\ s \in CenterMenu
                  \/ CenterAdmin(ctx) /\ s \in AdminMenu
  <2>1. path \notin OwnNode(ctx, NodeTabs \ {"node"}) /\ path \notin OwnNode(ctx, {"node"})
    BY DEF OwnNode, NodePath
  <2>2. ctx.platform \in Platforms
    BY DEF Contexts
  <2> QED
    BY <2>1, <2>2 DEF Menu, Of, Platforms
<1>2. path.section = s /\ path.node = Unknown
  BY <1>1 DEF Path
<1>3. CanAccess(path, ctx)
  <2>1. CASE ctx.platform = "EDGE" /\ s \in EdgeMenu
    BY <1>2, <2>1 DEF CanAccess, EdgeMenu, Admins, Institution, Central, Collaboration
  <2>2. CASE ctx.platform # "EDGE" /\ s \in SharedMenu
    BY <1>2, <2>2 DEF CanAccess, SharedMenu, Admins, Institution, Central, Collaboration
  <2>3. CASE ctx.platform \in {"AUTONOMY", "P2P"} /\ s \in P2PMenu
    BY <1>2, <2>3 DEF CanAccess, P2PMenu, Admins, Institution, Central, Collaboration
  <2>4. CASE ctx.platform \in {"CENTER", "TEST"} /\ s \in CenterMenu
    BY <1>2, <2>4 DEF CanAccess, CenterMenu, Admins, Institution, Central, Collaboration
  <2>5. CASE CenterAdmin(ctx) /\ s \in AdminMenu
    BY <1>2, <2>5 DEF CanAccess, AdminMenu, Admins, Institution, Central, Collaboration
  <2> QED
    BY <1>1, <2>1, <2>2, <2>3, <2>4, <2>5
<1>4. s \notin {"login", "change-password", "node"}
  BY <1>1 DEF EdgeMenu, SharedMenu, P2PMenu, CenterMenu, AdminMenu, Admins
<1>5. path # Login /\ path # Change /\ path.section # "node"
  BY <1>2, <1>4 DEF Login, Change, Path
<1>6. path = Path("p2p/my-node") => ~CenterOwner(ctx)
  <2>1. s = "p2p/my-node" => ctx.platform \in {"EDGE", "AUTONOMY", "P2P"}
    BY <1>1 DEF EdgeMenu, SharedMenu, P2PMenu, CenterMenu, AdminMenu, Admins
  <2> QED
    BY <1>2, <2>1 DEF CenterOwner, Path
<1> QED
  BY <1>3, <1>5, <1>6, OpenIsStable

(* The entries of the account's own node.                                    *)
LEMMA MenuNode ==
    ASSUME NEW ctx \in Contexts, NEW path, path \in Menu(ctx), path.node # Unknown
    PROVE  /\ CanAccess(path, ctx)
           /\ Stable(path, ctx) \/ (/\ Stable(Guard(path, "user", ctx), ctx)
                                    /\ Guard(path, "user", ctx).node = path.node)
<1>1. PICK t \in NodeTabs : path = NodePath(ctx.owner, t) /\ ctx.owner # Unknown
  <2>1. path \in OwnNode(ctx, NodeTabs \ {"node"}) \cup OwnNode(ctx, {"node"})
    BY DEF Menu, Of, Path
  <2> QED
    BY <2>1 DEF OwnNode, NodeTabs
<1>2. path.section = t /\ path.node = ctx.owner
  BY <1>1 DEF NodePath
<1>3. CASE t = "node"
  BY <1>1, <1>2, <1>3, LandingPages, NodeLeadsOn
<1>4. CASE t # "node"
  BY <1>1, <1>4, NodeTabsStable DEF CanEnterNode
<1> QED
  BY <1>3, <1>4

(* No entry of a menu leads somewhere else: getPlatformMenu offers what the  *)
(* route rules open, and an entry of a node leads to a tab of that node.     *)
THEOREM MenusOpen == MenuIsOpen
<1> SUFFICES ASSUME NEW ctx \in Contexts, NEW path \in Menu(ctx)
             PROVE  LET there == Resolve(path, "user", ctx)
                    IN  /\ CanAccess(path, ctx)
                        /\ there = path \/ (path.node # Unknown /\ there.node = path.node)
  BY DEF MenuIsOpen
<1>1. CASE path.node = Unknown
  BY <1>1, MenuSections DEF Stable, Resolve
<1>2. CASE path.node # Unknown
  BY <1>2, MenuNode DEF Stable, Resolve
<1> QED
  BY <1>1, <1>2
=============================================================================
