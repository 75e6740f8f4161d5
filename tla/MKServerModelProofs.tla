--------------------------- MODULE MKServerModelProofs ---------------------------
(***************************************************************************)
(* What holds of the client's copy of the server for any number of         *)
(* channels and users.  Two facts need nothing of the server: users and    *)
(* channels agree about who is where, and links are kept at both ends,     *)
(* whatever messages arrive.  That the copy is right needs a legal server: *)
(* the invariant IInv says that between the model and the state of the     *)
(* server lies a story, a state for each message that is not handled yet.  *)
(* Handlers take its first step, the server adds the last, and the login   *)
(* tells it from the beginning.                                            *)
(***************************************************************************)
EXTENDS MKServerModel, SequenceTheorems, FiniteSetTheorems, TLAPS

(* Every channel has a list of users, and every user a channel or None. *)
MembershipShape ==
    /\ members = [c \in Channels |-> members[c]]
    /\ chanOf = [u \in Users |-> chanOf[u]]

Membership == MembershipShape /\ MembershipAgrees


--------------------------------------------------------------------------------
(* Who is where. *)

LEMMA MembershipUnchanged ==
    ASSUME Membership, UNCHANGED <<members, chanOf>>
    PROVE  Membership'
  BY DEF Membership, MembershipShape, MembershipAgrees

LEMMA MembershipInit == Init => Membership
  BY ConstAssumption
  DEF Init, Membership, MembershipShape, MembershipAgrees

LEMMA MoveUserKeepsMembership ==
    ASSUME Membership, NEW u, NEW c, c # chanOf[u], MoveUser(u, c)
    PROVE  Membership'
<1>1. MembershipShape'
  BY DEF Membership, MembershipShape, MoveUser
<1>2. ASSUME NEW v \in Users, NEW x \in Channels
      PROVE  (v \in members[x] <=> chanOf[v] = x)'
  <2>1. v \in members[x] <=> chanOf[v] = x
    BY DEF Membership, MembershipAgrees
  <2>2. chanOf'[v] = IF v = u THEN c ELSE chanOf[v]
    BY DEF Membership, MembershipShape, MoveUser
  <2>3. members'[x] = IF x = c THEN members[x] \cup {u} ELSE
                      IF x = chanOf[u] THEN members[x] \ {u} ELSE members[x]
    BY DEF MoveUser
  <2> QED
    BY <2>1, <2>2, <2>3
<1> QED
  BY <1>1, <1>2 DEF Membership, MembershipAgrees

LEMMA UserRemoveKeepsMembership ==
    ASSUME Membership, HandleUserRemove
    PROVE  Membership'
<1> DEFINE u == Head(inbox).user
<1>1. CASE u \notin users
  BY <1>1, MembershipUnchanged DEF HandleUserRemove, people
<1>2. CASE u \in users
  <2>1. /\ members' = [x \in Channels |->
              IF x = chanOf[u] THEN members[x] \ {u} ELSE members[x]]
        /\ chanOf' = [chanOf EXCEPT ![u] = None]
    BY <1>2 DEF HandleUserRemove
  <2>2. MembershipShape'
    BY <2>1 DEF Membership, MembershipShape
  <2>3. ASSUME NEW v \in Users, NEW x \in Channels
        PROVE  (v \in members[x] <=> chanOf[v] = x)'
    <3>1. v \in members[x] <=> chanOf[v] = x
      BY DEF Membership, MembershipAgrees
    <3>2. chanOf'[v] = IF v = u THEN None ELSE chanOf[v]
      BY <2>1 DEF Membership, MembershipShape
    <3>3. members'[x] = IF x = chanOf[u] THEN members[x] \ {u} ELSE members[x]
      BY <2>1
    <3> QED
      BY <3>1, <3>2, <3>3, ConstAssumption
  <2> QED
    BY <2>2, <2>3 DEF Membership, MembershipAgrees
<1> QED
  BY <1>1, <1>2

LEMMA DeallocKeepsMembership ==
    ASSUME Membership, Dealloc
    PROVE  Membership'
<1>1. MembershipShape'
  BY DEF Membership, MembershipShape, Dealloc
<1>2. ASSUME NEW v \in Users, NEW x \in Channels
      PROVE  (v \in members[x] <=> chanOf[v] = x)'
  <2>1. v \in members[x] <=> chanOf[v] = x
    BY DEF Membership, MembershipAgrees
  <2>2. chanOf'[v] = IF chanOf[v] \in Downward(Root) THEN None ELSE chanOf[v]
    BY DEF Dealloc
  <2>3. members'[x] = IF x \in Downward(Root) THEN {} ELSE members[x]
    BY DEF Dealloc
  <2> QED
    BY <2>1, <2>2, <2>3, ConstAssumption
<1> QED
  BY <1>1, <1>2 DEF Membership, MembershipAgrees

LEMMA UserStateKeepsMembership ==
    ASSUME Membership, HandleUserState
    PROVE  Membership'
<1> DEFINE m == Head(inbox)
           u == m.user
           new == u \notin users
           to == Destination(m, new)
<1>1. \/ UNCHANGED <<members, chanOf>>
      \/ to \notin {None, chanOf[u]} /\ MoveUser(u, to)
  BY DEF HandleUserState, people
<1>2. CASE UNCHANGED <<members, chanOf>>
  BY <1>2, MembershipUnchanged
<1>3. CASE to \notin {None, chanOf[u]} /\ MoveUser(u, to)
  BY <1>3, MoveUserKeepsMembership
<1> QED
  BY <1>1, <1>2, <1>3

LEMMA NextKeepsMembership ==
    ASSUME Membership, [Next]_vars
    PROVE  Membership'
<1>1. CASE ServerStep
  BY <1>1, MembershipUnchanged DEF ServerStep, people
<1>2. CASE HandleChannelState
  BY <1>2, MembershipUnchanged DEF HandleChannelState, people
<1>3. CASE HandleChannelRemove
  BY <1>3, MembershipUnchanged DEF HandleChannelRemove, people
<1>4. CASE HandleUserState
  BY <1>4, UserStateKeepsMembership
<1>5. CASE HandleUserRemove
  BY <1>5, UserRemoveKeepsMembership
<1>6. CASE HandleServerSync
  BY <1>6, MembershipUnchanged DEF HandleServerSync, people
<1>7. CASE Dealloc
  BY <1>7, DeallocKeepsMembership
<1>8. CASE RemoveAllChannels
  BY <1>8, MembershipUnchanged DEF RemoveAllChannels, EndPass, VisitChannel, people
<1>9. CASE UNCHANGED vars
  BY <1>9, MembershipUnchanged DEF vars, people
<1> QED
  BY <1>1, <1>2, <1>3, <1>4, <1>5, <1>6, <1>7, <1>8, <1>9
  DEF Next, HandleMessage

(* A user's pointer to his channel and the channel's list of users agree    *)
(* after every handler, in every pass of the teardown, and however the      *)
(* channels were moved and removed: internalMoveUser, internalRemoveUser    *)
(* and removeAllUsersFromChannel always change the two together.            *)
THEOREM MembershipAlwaysAgrees == Spec => []MembershipAgrees
<1>1. Membership /\ [Next]_vars => Membership'
  BY NextKeepsMembership
<1>2. Membership => MembershipAgrees
  BY DEF Membership
<1> QED
  BY MembershipInit, <1>1, <1>2, PTL DEF Spec

--------------------------------------------------------------------------------
(* Links. *)

Symmetric(l) == \A c, d \in Channels : c \in l[d] <=> d \in l[c]

(* linkToChannel adds a link at both ends. *)
LEMMA LinkedIsSymmetric ==
    ASSUME NEW l, Symmetric(l), NEW c, NEW ds
    PROVE  Symmetric(Linked(l, c, ds))
  BY DEF Symmetric, Linked

(* unlinkFromChannel removes it from both. *)
LEMMA UnlinkedIsSymmetric ==
    ASSUME NEW l, Symmetric(l), NEW c, NEW ds
    PROVE  Symmetric(Unlinked(l, c, ds))
  BY DEF Symmetric, Unlinked

LEMMA LinksAfterIsSymmetric ==
    ASSUME Symmetric(linked), NEW m
    PROVE  Symmetric(LinksAfter(m))
<1> DEFINE none == Unlinked(linked, m.chan, linked[m.chan])
           set == IF m.links = {} THEN linked ELSE Linked(none, m.chan, m.links)
           add == Linked(set, m.chan, m.add)
<1>1. Symmetric(none)
  BY UnlinkedIsSymmetric
<1> HIDE DEF none
<1>2. Symmetric(set)
  BY <1>1, LinkedIsSymmetric
<1> HIDE DEF set
<1>3. Symmetric(add)
  BY <1>2, LinkedIsSymmetric
<1> HIDE DEF add
<1>4. Symmetric(Unlinked(add, m.chan, {m.chan}))
  BY <1>3, UnlinkedIsSymmetric
<1>5. LinksAfter(m) = IF m.remove = {} THEN add ELSE Unlinked(add, m.chan, {m.chan})
  BY DEF LinksAfter, add, set, none
<1> QED
  BY <1>3, <1>4, <1>5

LEMMA NextKeepsLinks ==
    ASSUME Symmetric(linked), [Next]_vars
    PROVE  Symmetric(linked')
<1>1. CASE HandleChannelState
  <2>1. linked' = linked \/ linked' = LinksAfter(Head(inbox))
    BY <1>1 DEF HandleChannelState, tree
  <2> QED
    BY <2>1, LinksAfterIsSymmetric
<1>2. CASE ~HandleChannelState
  <2>1. linked' = linked
    BY <1>2 DEF Next, ServerStep, HandleMessage, HandleChannelRemove,
                HandleUserState, HandleUserRemove, HandleServerSync, Dealloc,
                RemoveAllChannels, EndPass, VisitChannel, vars, tree
  <2> QED
    BY <2>1
<1> QED
  BY <1>1, <1>2

(* A channel that is linked to another is one the other is linked to, after *)
(* any sequence of links, link_add and link_remove fields, also when one    *)
(* message has several of them.                                             *)
THEOREM LinksAlwaysSymmetric == Spec => []LinksSymmetric
<1>1. Init => LinksSymmetric
  BY DEF Init, LinksSymmetric
<1>2. LinksSymmetric /\ [Next]_vars => LinksSymmetric'
  BY NextKeepsLinks DEF LinksSymmetric, Symmetric
<1> QED
  BY <1>1, <1>2, PTL DEF Spec

--------------------------------------------------------------------------------
(* The model follows the server.  Between the model and the server's state  *)
(* lie the messages on their way.  Each of them tells of one change, from   *)
(* one state of the server, as far as it was announced, to the next: there  *)
(* is a state for every message still to be handled, the model mirrors the  *)
(* first of them, and the last is the state the server is in.               *)
ServerState ==
    [par : [Channels -> Channels \cup {None}], lnk : [Channels -> SUBSET Channels],
     in : [Users -> Channels \cup {None}], fl : [Users -> SUBSET Flags]]

Known(s) == {c \in Channels : s.par[c] # None}

FlagsLegal(f) == /\ "deaf" \in f => "mute" \in f
                 /\ "selfDeaf" \in f => "selfMute" \in f

(* What holds of every state that was announced. *)
TreeLegal(s) ==
    /\ s.par[Root] = Root
    /\ \A c \in Known(s) : s.par[c] \in Known(s)

LinksLegal(s) ==
    /\ \A c \in Channels : s.lnk[c] \subseteq Known(s) \ {c}
    /\ \A c \in Channels \ Known(s) : s.lnk[c] = {}

PeopleLegal(s) ==
    \A u \in Users : /\ s.in[u] # None => s.in[u] \in Known(s)
                     /\ FlagsLegal(s.fl[u])

Legal(s) == s \in ServerState /\ TreeLegal(s) /\ LinksLegal(s) /\ PeopleLegal(s)

(* The messages, and by their fields those of the two kinds with many. *)
ChannelMessage ==
    [type : {"ChannelState"}, chan : Channels, parent : Channels \cup {None},
     named : BOOLEAN, links : SUBSET Channels, add : SUBSET Channels,
     remove : SUBSET Channels]

UserMessage ==
    [type : {"UserState"}, user : Users, chan : Channels \cup {None},
     on : SUBSET Flags, off : SUBSET Flags, named : BOOLEAN]

RemovedMessage == [type : {"ChannelRemove"}, chan : Channels]
LeftMessage == [type : {"UserRemove"}, user : Users]
SyncMessage == [type : {"ServerSync"}, user : Users]

Message ==
    ChannelMessage \cup UserMessage \cup RemovedMessage \cup LeftMessage
        \cup SyncMessage

AChannelState(m, c, p, named, links, add, remove) ==
    /\ m.type = "ChannelState" /\ m.chan = c /\ m.parent = p /\ m.named = named
    /\ m.links = links /\ m.add = add /\ m.remove = remove

AUserState(m, u, c, on, off, named) ==
    /\ m.type = "UserState" /\ m.user = u /\ m.chan = c
    /\ m.on = on /\ m.off = off /\ m.named = named

SamePeople(s, t) == t.in = s.in /\ t.fl = s.fl
SameTree(s, t) == t.par = s.par /\ t.lnk = s.lnk

(* Message m tells of the change from s to t. *)
TellsOfRoot(m, s, t) ==
    /\ AChannelState(m, Root, None, TRUE, {}, {}, {})
    /\ SameTree(s, t) /\ SamePeople(s, t)

TellsAdded(m, s, t, c, p) ==
    /\ c \notin Known(s) /\ p \in Known(s)
    /\ AChannelState(m, c, p, TRUE, {}, {}, {})
    /\ t.par = [s.par EXCEPT ![c] = p] /\ t.lnk = s.lnk /\ SamePeople(s, t)

TellsMoved(m, s, t, c, p) ==
    /\ c \in Known(s) \ {Root} /\ p \in Known(s) /\ c \notin Upward(s.par, p)
    /\ AChannelState(m, c, p, FALSE, {}, {}, {})
    /\ t.par = [s.par EXCEPT ![c] = p] /\ t.lnk = s.lnk /\ SamePeople(s, t)

TellsRemoved(m, s, t, c) ==
    /\ c \in Known(s) \ {Root} /\ \A d \in Channels : s.par[d] # c
    /\ \A u \in Users : s.in[u] # c
    /\ m.type = "ChannelRemove" /\ m.chan = c
    /\ t.par = [s.par EXCEPT ![c] = None] /\ SamePeople(s, t)
    /\ \A d \in Channels : t.lnk[d] \subseteq s.lnk[d]

TellsLinks(m, s, t, c) ==
    /\ c \in Known(s)
    /\ AChannelState(m, c, None, FALSE, t.lnk[c], {}, {})
    /\ t.par = s.par /\ SamePeople(s, t)
    /\ \A d \in Channels \ {c} :
          t.lnk[d] = s.lnk[d] /\ (c \in s.lnk[d] => d \in t.lnk[c])

TellsLinked(m, s, t, c, d) ==
    /\ c \in Known(s) /\ d \in Known(s)
    /\ AChannelState(m, c, None, FALSE, {}, {d}, {})
    /\ t.par = s.par /\ SamePeople(s, t)
    /\ t.lnk[c] \subseteq s.lnk[c] \cup {d} /\ t.lnk[d] \subseteq s.lnk[d] \cup {c}
    /\ \A e \in Channels \ {c, d} : t.lnk[e] = s.lnk[e]

TellsUnlinked(m, s, t, c, d) ==
    /\ c \in Known(s) /\ d \in Known(s)
    /\ AChannelState(m, c, None, FALSE, {}, {}, {d})
    /\ t.par = s.par /\ SamePeople(s, t)
    /\ \A e \in Channels : t.lnk[e] \subseteq s.lnk[e]

TellsOfChannel(m, s, t) ==
    \/ TellsOfRoot(m, s, t)
    \/ \E c \in Channels :
        \/ TellsRemoved(m, s, t, c) \/ TellsLinks(m, s, t, c)
        \/ \E d \in Channels :
            \/ TellsAdded(m, s, t, c, d) \/ TellsMoved(m, s, t, c, d)
            \/ TellsLinked(m, s, t, c, d) \/ TellsUnlinked(m, s, t, c, d)

TellsJoined(m, s, t, u, c) ==
    /\ s.in[u] = None /\ c \in Known(s)
    /\ AUserState(m, u, ChannelField(c), t.fl[u], {}, TRUE)
    /\ SameTree(s, t) /\ t.in = [s.in EXCEPT ![u] = c]
    /\ \A v \in Users \ {u} : t.fl[v] = s.fl[v]

TellsUserMoved(m, s, t, u, c) ==
    /\ s.in[u] # None /\ c \in Known(s)
    /\ AUserState(m, u, c, {}, {}, FALSE)
    /\ SameTree(s, t) /\ t.in = [s.in EXCEPT ![u] = c] /\ t.fl = s.fl

TellsLeft(m, s, t, u) ==
    /\ s.in[u] # None
    /\ m.type = "UserRemove" /\ m.user = u
    /\ SameTree(s, t) /\ t.in = [s.in EXCEPT ![u] = None] /\ t.fl = s.fl

TellsFlags(m, s, t, u) ==
    /\ s.in[u] # None
    /\ \E f \in FlagChanges :
          /\ AUserState(m, u, None, f.on, f.off, FALSE)
          /\ t.fl = [s.fl EXCEPT ![u] = (@ \cup f.on) \ f.off]
    /\ SameTree(s, t) /\ t.in = s.in

TellsSync(m, s, t) ==
    /\ m.type = "ServerSync" /\ m.user = Me /\ s.in[Me] # None
    /\ SameTree(s, t) /\ SamePeople(s, t)

TellsOfUser(m, s, t) ==
    \/ TellsSync(m, s, t)
    \/ \E u \in Users :
        \/ TellsLeft(m, s, t, u) \/ TellsFlags(m, s, t, u)
        \/ \E c \in Channels :
              TellsJoined(m, s, t, u, c) \/ TellsUserMoved(m, s, t, u, c)

Tells(m, s, t) == TellsOfChannel(m, s, t) \/ TellsOfUser(m, s, t)

(* The model is what the server was in state s; it may have links too many. *)
MirrorsTree(s) ==
    /\ chans = Known(s)
    /\ \A c \in chans \ {Root} : parent[c] = s.par[c]

MirrorsLinks(s) == \A c \in chans : s.lnk[c] \subseteq linked[c]

MirrorsPeople(s) ==
    /\ users = {u \in Users : s.in[u] # None}
    /\ \A u \in users : chanOf[u] = s.in[u] /\ flags[u] = s.fl[u]

Mirrors(s) == MirrorsTree(s) /\ MirrorsLinks(s) /\ MirrorsPeople(s)

Now == [par |-> sParent, lnk |-> sLinks, in |-> sIn, fl |-> sFlags]

(* The states h from the one the model mirrors to the server's. *)
Story(h) ==
    /\ h \in [1 .. Len(inbox) + 1 -> ServerState]
    /\ \A i \in 1 .. Len(inbox) + 1 : Legal(h[i])
    /\ \A i \in 1 .. Len(inbox) : Tells(inbox[i], h[i], h[i + 1])
    /\ h[Len(inbox) + 1] = Now

--------------------------------------------------------------------------------
(* The inductive invariant, in parts. *)

Typed ==
    /\ inbox \in Seq(Message)
    /\ chans \subseteq Channels /\ users \subseteq Users
    /\ parent \in [Channels -> Channels \cup {None}]
    /\ children \in [Channels -> SUBSET Channels]
    /\ linked \in [Channels -> SUBSET Channels]
    /\ moved \subseteq Channels
    /\ members \in [Channels -> SUBSET Users]
    /\ chanOf \in [Users -> Channels \cup {None}]
    /\ flags \in [Users -> SUBSET Flags]
    /\ connectedUser \in {Me, None}
    /\ audio \subseteq AudioFlags
    /\ phase \in {"live", "unchaining", "dead"}
    /\ pending \subseteq chans /\ nparents \in BOOLEAN

(* The server's state is legal; no id is used again, no channel is its own  *)
(* parent, links are kept at both ends.                                     *)
NowLegal ==
    /\ sParent \in [Channels -> Channels \cup {None}]
    /\ sLinks \in [Channels -> SUBSET Channels]
    /\ sIn \in [Users -> Channels \cup {None}]
    /\ sFlags \in [Users -> SUBSET Flags]
    /\ sParent[Root] = Root
    /\ \A c \in sChans : sParent[c] \in sChans
    /\ \A c \in Channels : sLinks[c] \subseteq sChans \ {c}
    /\ \A c \in Channels \ sChans : sLinks[c] = {}
    /\ \A u \in Users : /\ sIn[u] # None => sIn[u] \in sChans
                        /\ FlagsLegal(sFlags[u])

ServerLegal ==
    /\ NowLegal
    /\ sChans \subseteq sUsed
    /\ \A c \in Channels \ {Root} : sParent[c] # c
    /\ Symmetric(sLinks)

(* Until the server sends its state the model is as it was made.            *)
Fresh ==
    /\ inbox = <<>> /\ chans = {Root} /\ users = {} /\ connectedUser = None
    /\ parent[Root] = None

Follows ==
    phase = "live" =>
        IF loggedIn THEN \E h : Story(h) /\ Mirrors(h[1]) ELSE Fresh

(* A channel the model does not have has no parent. *)
RootHasNoParent == phase = "live" => parent[Root] = None
NoParents == phase = "live" => \A c \in Channels \ chans : parent[c] = None

(* Until a channel is moved the root reaches every channel of the model.    *)
RootReachesAll == phase = "live" /\ moved = {} => chans \subseteq Downward(Root)

(* This client is announced once, before ServerSync.                        *)
NamesMe(m) == m.type = "UserState" /\ m.user = Me /\ m.named

MeAnnouncedFirst ==
    \A i \in 1 .. Len(inbox) : NamesMe(inbox[i]) =>
        /\ connectedUser = None
        /\ \A j \in 1 .. Len(inbox) : inbox[j].type = "ServerSync" => i < j

SilentUntilSync == connectedUser = None => audio = {}

(* Nothing is pending in removeAllChannels while the model lives. *)
NothingPending == phase = "live" => pending = {}

TreeInv == RootHasNoParent /\ NoParents /\ TreeAgrees /\ RootReachesAll

People == MeAnnouncedFirst /\ SilentUntilSync /\ OthersKnowModel

IInv ==
    /\ Typed
    /\ NothingPending
    /\ ServerLegal
    /\ Follows
    /\ TreeInv
    /\ People

--------------------------------------------------------------------------------
(* Lemmas about the operators of the model. *)

(* The way up from c stays in every set that has c and the parents of its   *)
(* channels; it has c, and the parent of c.                                 *)
LEMMA UpwardStaysIn ==
    ASSUME NEW par, NEW c, NEW S \in SUBSET Channels, c \in S,
           \A y \in S : par[y] \in S \cup {None}
    PROVE  Upward(par, c) \subseteq S
  BY DEF Upward

LEMMA UpwardBegins ==
    ASSUME NEW par, NEW c \in Channels
    PROVE  /\ c \in Upward(par, c)
           /\ par[c] \in Channels => par[c] \in Upward(par, c)
<1>1. c \in Upward(par, c)
  BY DEF Upward
<1>2. ASSUME par[c] \in Channels PROVE par[c] \in Upward(par, c)
  <2>1. \A S \in SUBSET Channels :
            c \in S /\ (\A y \in S : par[y] \in S \cup {None}) => par[c] \in S
    BY <1>2, ConstAssumption
  <2> QED
    BY <1>2, <2>1 DEF Upward
<1> QED
  BY <1>1, <1>2

(* What is off the way up stays off it when some channels lose their        *)
(* parents.                                                                 *)
LEMMA UpwardShrinks ==
    ASSUME NEW par, NEW was, NEW p \in Channels, NEW c,
           par \in [Channels -> Channels \cup {None}],
           was \in [Channels -> Channels \cup {None}],
           \A x \in Channels : par[x] \in {was[x], None},
           c \notin Upward(was, p), c \in Channels
    PROVE  c \notin Upward(par, p)
<1>1. PICK S \in SUBSET Channels :
          p \in S /\ (\A y \in S : was[y] \in S \cup {None}) /\ c \notin S
  BY DEF Upward
<1>2. \A y \in S : par[y] \in S \cup {None}
  BY <1>1
<1> QED
  BY <1>1, <1>2, UpwardStaysIn

(* linkToChannel only adds, and does so at both ends. *)
LEMMA LinkedGrows ==
    ASSUME NEW l \in [Channels -> SUBSET Channels], NEW c \in Channels,
           NEW ds \in SUBSET Channels
    PROVE  /\ Linked(l, c, ds) \in [Channels -> SUBSET Channels]
           /\ \A x \in Channels : l[x] \subseteq Linked(l, c, ds)[x]
           /\ ds \subseteq Linked(l, c, ds)[c]
           /\ \A d \in ds : c \in Linked(l, c, ds)[d]
<1> DEFINE L == Linked(l, c, ds)
<1>1. \A x \in Channels : L[x] = IF x = c THEN l[x] \cup ds
                                 ELSE IF x \in ds THEN l[x] \cup {c} ELSE l[x]
  BY DEF Linked
<1>2. L \in [Channels -> SUBSET Channels]
  BY DEF Linked
<1>3. \A d \in ds : c \in L[d]
  <2> SUFFICES ASSUME NEW d \in ds PROVE c \in L[d]
    OBVIOUS
  <2>1. CASE d = c
    BY <1>1, <2>1
  <2>2. CASE d # c
    BY <1>1, <2>2
  <2> QED
    BY <2>1, <2>2
<1> HIDE DEF L
<1> QED
  BY <1>1, <1>2, <1>3 DEF L

(* unlinkFromChannel only removes links that c is an end of. *)
LEMMA UnlinkedShrinks ==
    ASSUME NEW l \in [Channels -> SUBSET Channels], NEW c \in Channels, NEW ds
    PROVE  /\ Unlinked(l, c, ds) \in [Channels -> SUBSET Channels]
           /\ \A x \in Channels \ {c} : l[x] \ {c} \subseteq Unlinked(l, c, ds)[x]
           /\ l[c] \ ds \subseteq Unlinked(l, c, ds)[c]
           /\ ds = {c} => \A x \in Channels \ {c} : Unlinked(l, c, ds)[x] = l[x]
<1> DEFINE L == Unlinked(l, c, ds)
           gone == l[c] \cap ds
<1>1. \A x \in Channels : L[x] = IF x = c THEN l[x] \ gone
                                 ELSE IF x \in gone THEN l[x] \ {c} ELSE l[x]
  BY DEF Unlinked
<1>2. L \in [Channels -> SUBSET Channels]
  BY DEF Unlinked
<1> HIDE DEF L
<1> QED
  BY <1>1, <1>2 DEF L

(* What a ChannelState message does to the links. *)
LEMMA LinksAfterKeeps ==
    ASSUME linked \in [Channels -> SUBSET Channels], NEW m \in ChannelMessage
    PROVE  /\ LinksAfter(m) \in [Channels -> SUBSET Channels]
           /\ m.links = {} /\ m.remove = {} =>
                /\ \A x \in Channels : linked[x] \subseteq LinksAfter(m)[x]
                /\ m.add \subseteq LinksAfter(m)[m.chan]
                /\ \A d \in m.add : m.chan \in LinksAfter(m)[d]
           /\ m.links = {} =>
                \A x \in Channels : linked[x] \ {x} \subseteq LinksAfter(m)[x]
           /\ m.links # {} /\ m.remove = {} =>
                /\ m.links \subseteq LinksAfter(m)[m.chan]
                /\ \A x \in Channels \ {m.chan} :
                      /\ linked[x] \ {m.chan} \subseteq LinksAfter(m)[x]
                      /\ x \in m.links => m.chan \in LinksAfter(m)[x]
<1> DEFINE c == m.chan
           none == Unlinked(linked, c, linked[c])
           all == Linked(none, c, m.links)
           set == IF m.links = {} THEN linked ELSE all
           add == Linked(set, c, m.add)
           own == Unlinked(add, c, {c})
<1>1. /\ c \in Channels /\ m.links \in SUBSET Channels
      /\ m.add \in SUBSET Channels
  BY DEF ChannelMessage
<1>2. LinksAfter(m) = IF m.remove = {} THEN add ELSE own
  BY DEF LinksAfter
<1> HIDE DEF c
<1>3. /\ none \in [Channels -> SUBSET Channels]
      /\ \A x \in Channels \ {c} : linked[x] \ {c} \subseteq none[x]
  BY <1>1, UnlinkedShrinks
<1> HIDE DEF none
<1>4. /\ all \in [Channels -> SUBSET Channels]
      /\ \A x \in Channels : none[x] \subseteq all[x]
      /\ m.links \subseteq all[c]
      /\ \A d \in m.links : c \in all[d]
  BY <1>1, <1>3, LinkedGrows
<1> HIDE DEF all
<1>5. set \in [Channels -> SUBSET Channels]
  BY <1>4
<1>6. /\ m.links = {} => set = linked
      /\ m.links # {} => set = all
  OBVIOUS
<1> HIDE DEF set
<1>7. /\ add \in [Channels -> SUBSET Channels]
      /\ \A x \in Channels : set[x] \subseteq add[x]
      /\ m.add \subseteq add[c]
      /\ \A d \in m.add : c \in add[d]
  BY <1>1, <1>5, LinkedGrows
<1> HIDE DEF add
<1>8. /\ own \in [Channels -> SUBSET Channels]
      /\ \A x \in Channels : add[x] \ {x} \subseteq own[x]
  BY <1>1, <1>7, UnlinkedShrinks
<1> HIDE DEF own
<1>9. LinksAfter(m) \in [Channels -> SUBSET Channels]
  BY <1>2, <1>7, <1>8
<1>10. ASSUME m.links = {}, m.remove = {}
       PROVE  /\ \A x \in Channels : linked[x] \subseteq LinksAfter(m)[x]
              /\ m.add \subseteq LinksAfter(m)[c]
              /\ \A d \in m.add : c \in LinksAfter(m)[d]
  BY <1>2, <1>6, <1>7, <1>10
<1>11. ASSUME m.links = {}
       PROVE  \A x \in Channels : linked[x] \ {x} \subseteq LinksAfter(m)[x]
  BY <1>2, <1>6, <1>7, <1>8, <1>11
<1>12. ASSUME m.links # {}, m.remove = {}
       PROVE  /\ m.links \subseteq LinksAfter(m)[c]
              /\ \A x \in Channels \ {c} :
                    /\ linked[x] \ {c} \subseteq LinksAfter(m)[x]
                    /\ x \in m.links => c \in LinksAfter(m)[x]
  <2>1. LinksAfter(m) = add /\ set = all
    BY <1>2, <1>6, <1>12
  <2>2. \A x \in Channels : all[x] \subseteq LinksAfter(m)[x]
    BY <1>7, <2>1
  <2> QED
    BY <1>1, <1>3, <1>4, <2>2
<1> QED
  BY <1>9, <1>10, <1>11, <1>12 DEF c

--------------------------------------------------------------------------------
(* Messages. *)

(* A message has the fields of its type. *)
LEMMA MessageTypes ==
    ASSUME NEW m \in Message
    PROVE  /\ m.type = "ChannelState" => m \in ChannelMessage
           /\ m.type = "UserState" => m \in UserMessage
           /\ m.type = "ChannelRemove" => m \in RemovedMessage
           /\ m.type = "UserRemove" => m \in LeftMessage
           /\ m.type = "ServerSync" => m \in SyncMessage
<1>1. m \in ChannelMessage => m.type = "ChannelState"
  BY DEF ChannelMessage
<1>2. m \in UserMessage => m.type = "UserState"
  BY DEF UserMessage
<1>3. m \in RemovedMessage => m.type = "ChannelRemove"
  BY DEF RemovedMessage
<1>4. m \in LeftMessage => m.type = "UserRemove"
  BY DEF LeftMessage
<1>5. m \in SyncMessage => m.type = "ServerSync"
  BY DEF SyncMessage
<1> QED
  BY <1>1, <1>2, <1>3, <1>4, <1>5 DEF Message

LEMMA AboutChannelIsMessage ==
    ASSUME NEW c \in Channels, NEW p \in Channels \cup {None},
           NEW links \in SUBSET Channels, NEW add \in SUBSET Channels,
           NEW remove \in SUBSET Channels, NEW named \in BOOLEAN, NEW m,
           m = [type |-> "ChannelState", chan |-> c, parent |-> p,
                named |-> named, links |-> links, add |-> add, remove |-> remove]
    PROVE  m \in Message /\ AChannelState(m, c, p, named, links, add, remove)
  BY DEF Message, ChannelMessage, AChannelState

LEMMA UserStateIsMessage ==
    ASSUME NEW u \in Users, NEW c \in Channels \cup {None},
           NEW on \in SUBSET Flags, NEW off \in SUBSET Flags,
           NEW named \in BOOLEAN, NEW m, m = UserState(u, c, on, off, named)
    PROVE  m \in Message /\ AUserState(m, u, c, on, off, named)
  BY DEF Message, UserMessage, AUserState, UserState

(* The oldest message, and the others. *)
LEMMA HeadAndTail ==
    ASSUME inbox \in Seq(Message), inbox # <<>>
    PROVE  /\ Len(inbox) \in Nat \ {0}
           /\ Head(inbox) = inbox[1] /\ Head(inbox) \in Message
           /\ Tail(inbox) \in Seq(Message)
           /\ Len(Tail(inbox)) = Len(inbox) - 1
           /\ \A i \in 1 .. Len(inbox) - 1 : Tail(inbox)[i] = inbox[i + 1]
<1>1. Len(inbox) \in Nat \ {0}
  BY EmptySeq, LenProperties
<1>2. Head(inbox) = inbox[1] /\ Head(inbox) \in Message
  BY <1>1, HeadTailProperties
<1>3. Tail(inbox) \in Seq(Message) /\ Len(Tail(inbox)) = Len(inbox) - 1
  BY <1>1, HeadTailProperties
<1>4. \A i \in 1 .. Len(inbox) - 1 : Tail(inbox)[i] = inbox[i + 1]
  BY <1>1, HeadTailProperties
<1> QED
  BY <1>1, <1>2, <1>3, <1>4

--------------------------------------------------------------------------------
(* HandleChannelState. *)

(* A change to a known channel that names no parent changes its links only. *)
LEMMA KnownChannelState ==
    ASSUME Typed, HandleChannelState, Head(inbox).parent = None,
           Head(inbox).chan \in chans
    PROVE  /\ UNCHANGED <<chans, parent, children, moved>>
           /\ linked' = LinksAfter(Head(inbox))
<1> DEFINE m == Head(inbox)
           c == m.chan
<1>1. ~Ignores(m)
  BY DEF Ignores
<1>2. Lookup(m.parent) = None
  BY DEF Lookup
<1>3. /\ chans' = chans \cup {c}
      /\ children' = IF c \notin chans THEN ChildrenWith(c, Lookup(m.parent))
                     ELSE children
      /\ parent' = ParentAfterMove(IF c \notin chans
                        THEN [parent EXCEPT ![c] = Lookup(m.parent)] ELSE parent,
                        c, Lookup(m.parent))
      /\ moved' = IF parent'[c] = parent[c] \/ c \notin chans THEN moved
                  ELSE moved \cup {c}
      /\ linked' = LinksAfter(m)
  BY <1>1 DEF HandleChannelState
<1>4. parent' = parent
  BY <1>2, <1>3 DEF ParentAfterMove
<1> QED
  BY <1>3, <1>4

(* What a message about channels tells reaches the tree and the links.      *)
LEMMA LinkMessageMirrored ==
    ASSUME Typed, HandleChannelState, NEW s, NEW t, Legal(s), Legal(t),
           MirrorsTree(s), MirrorsLinks(s),
           NEW c \in Channels, NEW d \in Channels,
           LET m == Head(inbox)
           IN  \/ TellsOfRoot(m, s, t)
               \/ TellsLinks(m, s, t, c)
               \/ TellsLinked(m, s, t, c, d)
               \/ TellsUnlinked(m, s, t, c, d)
    PROVE  /\ MirrorsTree(t)' /\ MirrorsLinks(t)'
           /\ UNCHANGED <<chans, parent, children, moved>>
<1> DEFINE m == Head(inbox)
<1>1. m \in ChannelMessage /\ linked \in [Channels -> SUBSET Channels]
  BY HeadAndTail, MessageTypes DEF Typed, HandleChannelState, Handle
<1>2. m.parent = None /\ m.chan \in chans /\ t.par = s.par
  BY ConstAssumption
  DEF TellsOfRoot, TellsLinks, TellsLinked, TellsUnlinked, AChannelState,
      MirrorsTree, Legal, TreeLegal, Known, SameTree
<1>3. /\ UNCHANGED <<chans, parent, children, moved>>
      /\ linked' = LinksAfter(m)
  BY <1>2, KnownChannelState
<1>4. MirrorsTree(t)'
  BY <1>2, <1>3 DEF MirrorsTree, Known
<1>5. chans \subseteq Channels
  BY DEF Typed
<1> DEFINE L == LinksAfter(m)
<1>6. ASSUME NEW x \in chans PROVE t.lnk[x] \subseteq L[x]
  <2>1. x \in Channels /\ s.lnk[x] \subseteq linked[x]
        /\ x \notin s.lnk[x] /\ x \notin t.lnk[x]
    BY <1>5 DEF MirrorsLinks, Legal, LinksLegal
  <2>2. CASE TellsOfRoot(m, s, t)
    <3>1. m.links = {} /\ m.remove = {} /\ t.lnk = s.lnk
      BY <2>2 DEF TellsOfRoot, AChannelState, SameTree
    <3> QED
      BY <1>1, <2>1, <3>1, LinksAfterKeeps
  <2>3. CASE TellsLinks(m, s, t, c)
    <3>1. /\ m.links = t.lnk[c] /\ m.remove = {} /\ m.chan = c
          /\ \A e \in Channels \ {c} :
                t.lnk[e] = s.lnk[e] /\ (c \in s.lnk[e] => e \in t.lnk[c])
      BY <2>3 DEF TellsLinks, AChannelState
    <3>2. CASE m.links = {}
      <4>1. linked[x] \subseteq L[x]
        BY <1>1, <2>1, <3>1, <3>2, LinksAfterKeeps
      <4>2. t.lnk[x] \subseteq s.lnk[x]
        BY <2>1, <3>1, <3>2
      <4> QED
        BY <2>1, <4>1, <4>2
    <3>3. CASE m.links # {}
      <4>1. /\ m.links \subseteq L[c]
            /\ \A e \in Channels \ {c} : /\ linked[e] \ {c} \subseteq L[e]
                                         /\ e \in m.links => c \in L[e]
        BY <1>1, <3>1, <3>3, LinksAfterKeeps
      <4>2. CASE x = c
        BY <3>1, <4>1, <4>2
      <4>3. CASE x # c
        BY <2>1, <3>1, <4>1, <4>3
      <4> QED
        BY <4>2, <4>3
    <3> QED
      BY <3>2, <3>3
  <2>4. CASE TellsLinked(m, s, t, c, d)
    <3>1. m.links = {} /\ m.remove = {} /\ m.add = {d} /\ m.chan = c
      BY <2>4 DEF TellsLinked, AChannelState
    <3>2. /\ linked[x] \subseteq L[x]
          /\ d \in L[c] /\ c \in L[d]
      BY <1>1, <2>1, <3>1, LinksAfterKeeps
    <3>3. /\ x \notin {c, d} => t.lnk[x] = s.lnk[x]
          /\ t.lnk[c] \subseteq s.lnk[c] \cup {d}
          /\ t.lnk[d] \subseteq s.lnk[d] \cup {c}
      BY <2>1, <2>4 DEF TellsLinked
    <3> QED
      BY <2>1, <3>2, <3>3
  <2>5. CASE TellsUnlinked(m, s, t, c, d)
    <3>1. m.links = {} /\ t.lnk[x] \subseteq s.lnk[x]
      BY <2>1, <2>5 DEF TellsUnlinked, AChannelState
    <3>2. linked[x] \ {x} \subseteq L[x]
      BY <1>1, <2>1, <3>1, LinksAfterKeeps
    <3> QED
      BY <2>1, <3>1, <3>2
  <2> QED
    BY <2>2, <2>3, <2>4, <2>5
<1> QED
  BY <1>3, <1>4, <1>6 DEF MirrorsLinks

LEMMA TreeUnchanged ==
    ASSUME TreeInv, phase = "live",
           UNCHANGED <<chans, parent, children, moved>>
    PROVE  TreeInv'
<1>1. Downward(Root)' = Downward(Root)
  BY DEF Downward
<1> QED
  BY <1>1 DEF TreeInv, RootHasNoParent, NoParents, TreeAgrees, RootReachesAll

(* What is reached from c is in every set that has c and the subchannels of *)
(* its channels; and the subchannels of what is reached are reached.        *)
LEMMA DownwardStaysIn ==
    ASSUME NEW c, NEW S \in SUBSET Channels, c \in S,
           \A y \in S : children[y] \subseteq S
    PROVE  Downward(c) \subseteq S
  BY DEF Downward

LEMMA DownwardGoesOn ==
    ASSUME NEW c \in Channels, NEW x \in Downward(c), NEW y \in Channels,
           y \in children[x]
    PROVE  c \in Downward(c) /\ y \in Downward(c)
<1>1. c \in Downward(c)
  BY DEF Downward
<1>2. \A S \in SUBSET Channels :
          c \in S /\ (\A z \in S : children[z] \subseteq S) => y \in S
  <2> SUFFICES ASSUME NEW S \in SUBSET Channels, c \in S,
                      \A z \in S : children[z] \subseteq S
               PROVE  y \in S
    OBVIOUS
  <2>1. x \in S
    BY DownwardStaysIn
  <2> QED
    BY <2>1
<1> QED
  BY <1>1, <1>2 DEF Downward

(* A new channel. *)
LEMMA ChannelAdded ==
    ASSUME Typed, TreeInv, HandleChannelState, NEW s, NEW t, Legal(s), Legal(t),
           MirrorsTree(s), MirrorsLinks(s),
           NEW c \in Channels, NEW p \in Channels,
           TellsAdded(Head(inbox), s, t, c, p)
    PROVE  MirrorsTree(t)' /\ MirrorsLinks(t)' /\ TreeInv'
<1> DEFINE m == Head(inbox)
<1>1. m \in ChannelMessage /\ linked \in [Channels -> SUBSET Channels]
  BY HeadAndTail, MessageTypes DEF Typed, HandleChannelState, Handle
<1>2. /\ m.chan = c /\ m.parent = p /\ m.named
      /\ m.links = {} /\ m.add = {} /\ m.remove = {}
      /\ t.par = [s.par EXCEPT ![c] = p] /\ t.lnk = s.lnk
      /\ c \notin chans /\ p \in chans /\ p # None /\ c # p
  BY ConstAssumption DEF TellsAdded, AChannelState, MirrorsTree
<1>3. ~Ignores(m) /\ Lookup(m.parent) = p
  BY <1>2 DEF Ignores, Lookup
<1>4. /\ chans' = chans \cup {c}
      /\ children' = ChildrenWith(c, p)
      /\ parent' = ParentAfterMove([parent EXCEPT ![c] = p], c, p)
      /\ moved' = moved
      /\ linked' = LinksAfter(m)
      /\ phase' = "live" /\ phase = "live"
  BY <1>2, <1>3 DEF HandleChannelState, Handle
<1>5. parent' = [parent EXCEPT ![c] = p]
  <2> DEFINE par == [parent EXCEPT ![c] = p]
  <2>1. [par EXCEPT ![c] = p] = par
    BY DEF Typed
  <2> QED
    BY <1>4, <2>1 DEF ParentAfterMove
<1>6. children' = [children EXCEPT ![p] = @ \cup {c}]
  BY <1>2, <1>4 DEF ChildrenWith
<1>7. /\ parent \in [Channels -> Channels \cup {None}]
      /\ children \in [Channels -> SUBSET Channels]
      /\ s.par \in [Channels -> Channels \cup {None}]
      /\ chans \subseteq Channels /\ Root \in Channels
  BY ConstAssumption DEF Typed, Legal, ServerState
<1>8. Root \in chans /\ c # Root
  BY <1>2, <1>7, ConstAssumption DEF MirrorsTree, Known, Legal, TreeLegal
<1>9. MirrorsTree(t)'
  <2>1. Known(t) = Known(s) \cup {c}
    BY <1>2, <1>7 DEF Known
  <2>2. ASSUME NEW x \in chans' \ {Root} PROVE parent'[x] = t.par[x]
    <3>1. CASE x = c
      BY <1>2, <1>5, <1>7, <3>1
    <3>2. CASE x # c
      <4>1. x \in chans \ {Root} /\ x \in Channels
        BY <1>4, <1>7, <3>2
      <4>2. parent[x] = s.par[x]
        BY <4>1 DEF MirrorsTree
      <4> QED
        BY <1>2, <1>5, <1>7, <3>2, <4>1, <4>2
    <3> QED
      BY <3>1, <3>2
  <2> QED
    BY <1>4, <2>1, <2>2 DEF MirrorsTree, Known
<1>10. MirrorsLinks(t)'
  <2> SUFFICES ASSUME NEW x \in chans' PROVE t.lnk[x] \subseteq linked'[x]
    BY DEF MirrorsLinks
  <2>1. CASE x \in chans
    <3>1. linked[x] \subseteq LinksAfter(m)[x]
      BY <1>1, <1>2, <1>7, <2>1, LinksAfterKeeps
    <3> QED
      BY <1>2, <1>4, <2>1, <3>1 DEF MirrorsLinks
  <2>2. CASE x = c
    <3>1. t.lnk[c] = {}
      BY <1>2 DEF Legal, LinksLegal, TellsAdded
    <3> QED
      BY <2>2, <3>1
  <2> QED
    BY <1>4, <2>1, <2>2
<1>11. RootHasNoParent' /\ NoParents'
  <2>1. \A x \in Channels \ {c} : parent'[x] = parent[x]
    BY <1>5, <1>7
  <2>2. parent[Root] = None /\ \A x \in Channels \ chans : parent[x] = None
    BY <1>4 DEF TreeInv, RootHasNoParent, NoParents
  <2> QED
    BY ONLY <1>4, <1>7, <1>8, <2>1, <2>2 DEF RootHasNoParent, NoParents
<1>12. TreeAgrees'
  <2> SUFFICES ASSUME moved = {}, NEW x \in Channels, NEW y \in Channels
               PROVE  x \in children'[y] <=> parent'[x] = y
    BY <1>4 DEF TreeAgrees
  <2>1. x \in children[y] <=> parent[x] = y
    BY DEF TreeInv, TreeAgrees
  <2>2. parent[c] = None
    BY <1>2, <1>4 DEF TreeInv, NoParents
  <2> QED
    BY <1>2, <1>5, <1>6, <1>7, <2>1, <2>2, ConstAssumption
<1>13. RootReachesAll'
  <2> SUFFICES ASSUME moved = {} PROVE chans' \subseteq Downward(Root)'
    BY <1>4 DEF RootReachesAll
  <2>1. chans \subseteq Downward(Root)
    BY <1>4 DEF TreeInv, RootReachesAll
  <2>2. \A x \in Channels : children[x] \subseteq children'[x]
    BY <1>6, <1>7
  <2>3. c \in children'[p]
    BY <1>6, <1>7
  <2> SUFFICES ASSUME NEW x \in chans', NEW S \in SUBSET Channels, Root \in S,
                      \A y \in S : children'[y] \subseteq S
               PROVE  x \in S
    BY <1>4, <1>7 DEF Downward
  <2>4. chans \subseteq S
    BY <2>1, <2>2, DownwardStaysIn
  <2> QED
    BY <1>2, <1>4, <2>3, <2>4
<1> QED
  BY <1>9, <1>10, <1>11, <1>12, <1>13 DEF TreeInv

(* A channel that is moved. *)
LEMMA ChannelMoved ==
    ASSUME Typed, TreeInv, HandleChannelState, NEW s, NEW t, Legal(s), Legal(t),
           MirrorsTree(s), MirrorsLinks(s),
           NEW c \in Channels, NEW p \in Channels,
           TellsMoved(Head(inbox), s, t, c, p)
    PROVE  MirrorsTree(t)' /\ MirrorsLinks(t)' /\ TreeInv'
<1> DEFINE m == Head(inbox)
<1>1. m \in ChannelMessage /\ linked \in [Channels -> SUBSET Channels]
  BY HeadAndTail, MessageTypes DEF Typed, HandleChannelState, Handle
<1>2. /\ m.chan = c /\ m.parent = p
      /\ m.links = {} /\ m.add = {} /\ m.remove = {}
      /\ t.par = [s.par EXCEPT ![c] = p] /\ t.lnk = s.lnk
      /\ c \in chans /\ p \in chans /\ p # None /\ c # Root
      /\ c \notin Upward(s.par, p)
  BY ConstAssumption DEF TellsMoved, AChannelState, MirrorsTree
<1>3. ~Ignores(m) /\ Lookup(m.parent) = p
  BY <1>2 DEF Ignores, Lookup
<1>4. /\ chans' = chans \cup {c}
      /\ children' = children
      /\ parent' = ParentAfterMove(parent, c, p)
      /\ moved' = IF parent'[c] = parent[c] THEN moved ELSE moved \cup {c}
      /\ linked' = LinksAfter(m)
      /\ phase' = "live" /\ phase = "live"
  BY <1>2, <1>3 DEF HandleChannelState, Handle
<1>5. /\ parent \in [Channels -> Channels \cup {None}]
      /\ s.par \in [Channels -> Channels \cup {None}]
      /\ chans \subseteq Channels /\ Root \in Channels
  BY ConstAssumption DEF Typed, Legal, ServerState
<1>6. parent' = [parent EXCEPT ![c] = p]
  <2>1. \A x \in Channels : parent[x] \in {s.par[x], None}
    BY <1>4, <1>5 DEF TreeInv, NoParents, RootHasNoParent, MirrorsTree
  <2>2. c \notin Upward(parent, p)
    BY <1>2, <1>5, <2>1, UpwardShrinks
  <2> QED
    BY <1>2, <1>4, <2>2 DEF ParentAfterMove
<1>7. MirrorsTree(t)'
  <2>1. Known(t) = Known(s)
    BY <1>2, <1>5 DEF Known, MirrorsTree
  <2>2. \A x \in chans' \ {Root} : parent'[x] = t.par[x]
    BY <1>2, <1>4, <1>5, <1>6 DEF MirrorsTree
  <2> QED
    BY <1>2, <1>4, <2>1, <2>2 DEF MirrorsTree, Known
<1>8. MirrorsLinks(t)'
  <2>1. \A x \in Channels : linked[x] \subseteq LinksAfter(m)[x]
    BY <1>1, <1>2, LinksAfterKeeps
  <2> QED
    BY <1>2, <1>4, <1>5, <2>1 DEF MirrorsLinks
<1>9. TreeInv'
  <2>1. RootHasNoParent' /\ NoParents'
    BY <1>2, <1>4, <1>5, <1>6 DEF TreeInv, RootHasNoParent, NoParents
  <2>2. CASE parent'[c] = parent[c]
    <3>1. parent' = parent /\ chans' = chans /\ moved' = moved
      BY <1>2, <1>4, <1>5, <1>6, <2>2
    <3> QED
      BY <1>4, <3>1, TreeUnchanged
  <2>3. CASE parent'[c] # parent[c]
    BY <1>4, <2>1, <2>3 DEF TreeInv, TreeAgrees, RootReachesAll
  <2> QED
    BY <2>2, <2>3
<1> QED
  BY <1>7, <1>8, <1>9

(* People are not touched by messages about channels. *)
LEMMA PeopleUnchanged ==
    ASSUME NEW s, NEW t, MirrorsPeople(s), SamePeople(s, t), UNCHANGED people
    PROVE  MirrorsPeople(t)'
  BY DEF MirrorsPeople, SamePeople, people

LEMMA ChannelStateFollows ==
    ASSUME Typed, TreeInv, HandleChannelState, NEW s, NEW t, Legal(s), Legal(t),
           Mirrors(s), Tells(Head(inbox), s, t)
    PROVE  Mirrors(t)' /\ TreeInv'
<1> DEFINE m == Head(inbox)
<1>1. m.type = "ChannelState" /\ phase = "live" /\ UNCHANGED people
  BY DEF HandleChannelState, Handle
<1>2. /\ ~TellsOfUser(m, s, t)
      /\ \A c \in Channels : ~TellsRemoved(m, s, t, c)
  BY <1>1 DEF TellsOfUser, TellsSync, TellsLeft, TellsFlags, TellsJoined,
              TellsUserMoved, AUserState, TellsRemoved
<1>3. SamePeople(s, t) /\ TellsOfChannel(m, s, t)
  <2>1. TellsOfChannel(m, s, t)
    BY <1>2 DEF Tells
  <2> QED
    BY <2>1 DEF TellsOfChannel, TellsOfRoot, TellsRemoved, TellsLinks,
                TellsAdded, TellsMoved, TellsLinked, TellsUnlinked
<1>4. MirrorsPeople(t)'
  BY <1>1, <1>3, PeopleUnchanged DEF Mirrors
<1>5. CASE TellsOfRoot(m, s, t)
  <2>1. PICK c \in Channels : TRUE
    BY ConstAssumption
  <2> QED
    BY <1>1, <1>4, <1>5, <2>1, LinkMessageMirrored, TreeUnchanged DEF Mirrors
<1>6. ASSUME NEW c \in Channels, TellsLinks(m, s, t, c)
      PROVE  Mirrors(t)' /\ TreeInv'
  BY <1>1, <1>4, <1>6, LinkMessageMirrored, TreeUnchanged DEF Mirrors
<1>7. ASSUME NEW c \in Channels, NEW d \in Channels,
             TellsLinked(m, s, t, c, d) \/ TellsUnlinked(m, s, t, c, d)
      PROVE  Mirrors(t)' /\ TreeInv'
  BY <1>1, <1>4, <1>7, LinkMessageMirrored, TreeUnchanged DEF Mirrors
<1>8. ASSUME NEW c \in Channels, NEW d \in Channels,
             TellsAdded(m, s, t, c, d) \/ TellsMoved(m, s, t, c, d)
      PROVE  Mirrors(t)' /\ TreeInv'
  BY <1>4, <1>8, ChannelAdded, ChannelMoved DEF Mirrors
<1> QED
  BY <1>2, <1>3, <1>5, <1>6, <1>7, <1>8 DEF TellsOfChannel

(* A channel that is removed has no subchannels. *)
LEMMA ChannelRemoveFollows ==
    ASSUME Typed, TreeInv, HandleChannelRemove, NEW s, NEW t, Legal(s), Legal(t),
           Mirrors(s), Tells(Head(inbox), s, t)
    PROVE  Mirrors(t)' /\ TreeInv'
<1> DEFINE m == Head(inbox)
           c == m.chan
<1>1. /\ m.type = "ChannelRemove" /\ phase = "live" /\ phase' = "live"
      /\ UNCHANGED people
  BY DEF HandleChannelRemove, Handle
<1>2. c \in Channels /\ TellsRemoved(m, s, t, c)
  BY <1>1 DEF Tells, TellsOfUser, TellsSync, TellsLeft, TellsFlags,
              TellsJoined, TellsUserMoved, AUserState, TellsOfChannel,
              TellsRemoved, TellsOfRoot, TellsLinks, TellsAdded, TellsMoved,
              TellsLinked, TellsUnlinked, AChannelState
<1>3. /\ c \in chans \ {Root} /\ \A d \in Channels : s.par[d] # c
      /\ t.par = [s.par EXCEPT ![c] = None]
      /\ \A d \in Channels : t.lnk[d] \subseteq s.lnk[d]
      /\ SamePeople(s, t)
  BY <1>2 DEF TellsRemoved, Mirrors, MirrorsTree
<1>4. /\ children' = ChildrenWithout(c)
      /\ parent' = [parent EXCEPT ![c] = None]
      /\ chans' = chans \ {c}
      /\ linked' = linked /\ moved' = moved
  BY <1>3 DEF HandleChannelRemove
<1>5. /\ parent \in [Channels -> Channels \cup {None}]
      /\ children \in [Channels -> SUBSET Channels]
      /\ s.par \in [Channels -> Channels \cup {None}]
      /\ chans \subseteq Channels
  BY DEF Typed, Legal, ServerState
<1>6. \A x \in Channels : children'[x] \subseteq children[x]
                          /\ children[x] \ {c} \subseteq children'[x]
  BY <1>4 DEF ChildrenWithout
<1>7. MirrorsTree(t)'
  <2>1. Known(t) = Known(s) \ {c}
    BY <1>2, <1>3, <1>5 DEF Known
  <2>2. \A x \in chans' \ {Root} : parent'[x] = t.par[x]
    BY <1>3, <1>4, <1>5 DEF Mirrors, MirrorsTree
  <2>3. chans = Known(s)
    BY DEF Mirrors, MirrorsTree
  <2> QED
    BY <1>4, <2>1, <2>2, <2>3 DEF MirrorsTree, Known
<1>8. MirrorsLinks(t)'
  BY <1>3, <1>4, <1>5 DEF Mirrors, MirrorsLinks
<1>9. MirrorsPeople(t)'
  BY <1>1, <1>3, PeopleUnchanged DEF Mirrors
<1>10. RootHasNoParent' /\ NoParents'
  BY <1>1, <1>3, <1>4, <1>5 DEF TreeInv, RootHasNoParent, NoParents
<1>11. TreeAgrees'
  <2> SUFFICES ASSUME moved = {}, NEW x \in Channels, NEW y \in Channels
               PROVE  x \in children'[y] <=> parent'[x] = y
    BY <1>4 DEF TreeAgrees
  <2>1. x \in children[y] <=> parent[x] = y
    BY DEF TreeInv, TreeAgrees
  <2>2. children'[y] = IF y = parent[c] THEN children[y] \ {c} ELSE children[y]
    BY <1>4 DEF ChildrenWithout
  <2>3. parent'[x] = IF x = c THEN None ELSE parent[x]
    BY <1>4, <1>5
  <2> QED
    BY <2>1, <2>2, <2>3, ConstAssumption
<1>12. RootReachesAll'
  <2> SUFFICES ASSUME moved = {} PROVE chans' \subseteq Downward(Root)'
    BY <1>4 DEF RootReachesAll
  <2>1. chans \subseteq Downward(Root)
    BY <1>1 DEF TreeInv, RootReachesAll
  <2>2. children[c] = {}
    <3> SUFFICES ASSUME NEW d \in children[c] PROVE FALSE
      OBVIOUS
    <3>1. d \in Channels /\ parent[d] = c
      BY <1>2, <1>5 DEF TreeInv, TreeAgrees
    <3>2. d \in chans \ {Root}
      BY <1>1, <1>2, <3>1, ConstAssumption
      DEF TreeInv, NoParents, RootHasNoParent
    <3>3. s.par[d] = c
      BY <3>1, <3>2 DEF Mirrors, MirrorsTree
    <3> QED
      BY <1>3, <3>1, <3>3
  <2> SUFFICES ASSUME NEW x \in chans', NEW S \in SUBSET Channels, Root \in S,
                      \A y \in S : children'[y] \subseteq S
               PROVE  x \in S
    BY <1>4, <1>5 DEF Downward
  <2>3. \A y \in S \cup {c} : children[y] \subseteq S \cup {c}
    BY <1>6, <2>2
  <2>4. Downward(Root) \subseteq S \cup {c}
    <3> DEFINE T == S \cup {c}
    <3>1. T \in SUBSET Channels /\ Root \in T /\ \A y \in T : children[y] \subseteq T
      BY <1>2, <2>3
    <3> HIDE DEF T
    <3>2. Downward(Root) \subseteq T
      BY <3>1, DownwardStaysIn
    <3> QED
      BY <3>2 DEF T
  <2> QED
    BY <1>4, <2>1, <2>4
<1> QED
  BY <1>7, <1>8, <1>9, <1>10, <1>11, <1>12 DEF Mirrors, TreeInv

--------------------------------------------------------------------------------
(* Messages about users. *)

(* The setters make of a message what the server has made of the flags: it  *)
(* never announces that somebody is deaf and leaves out that he is mute.    *)
LEMMA FlagsFollow ==
    ASSUME NEW f \in SUBSET Flags, NEW g \in FlagChanges,
           NEW m, m.on = g.on, m.off = g.off
    PROVE  FlagsAfter(f, m) = (f \cup g.on) \ g.off
<1> DEFINE F == FlagsAfter(f, m)
           self == FlagPair(f, m, "selfMute", "selfDeaf")
           both == FlagPair(self, m, "mute", "deaf")
<1>1. F = (both \cup (m.on \cap {"suppress"})) \ (m.off \cap {"suppress"})
  BY DEF FlagsAfter
<1>2. CASE m.on = {"selfMute"} /\ m.off = {"selfDeaf"}
  <2>1. self = (f \cup {"selfMute"}) \ {"selfDeaf"}
    BY <1>2 DEF FlagPair
  <2>2. both = self
    BY <1>2 DEF FlagPair
  <2> QED
    BY <1>1, <1>2, <2>1, <2>2
<1>3. CASE m.on = {"selfMute", "selfDeaf"} /\ m.off = {}
  <2>1. self = f \cup {"selfMute", "selfDeaf"}
    BY <1>3 DEF FlagPair
  <2>2. both = self
    BY <1>3 DEF FlagPair
  <2> QED
    BY <1>1, <1>3, <2>1, <2>2
<1>4. CASE m.on = {} /\ m.off = {"selfMute", "selfDeaf"}
  <2>1. self = f \ {"selfMute", "selfDeaf"}
    BY <1>4 DEF FlagPair
  <2>2. both = self
    BY <1>4 DEF FlagPair
  <2> QED
    BY <1>1, <1>4, <2>1, <2>2
<1>5. CASE m.on = {"mute"} /\ m.off = {}
  <2>1. self = f
    BY <1>5 DEF FlagPair
  <2>2. both = self \cup {"mute"}
    BY <1>5 DEF FlagPair
  <2> QED
    BY <1>1, <1>5, <2>1, <2>2
<1>6. CASE m.on = {"mute", "deaf"} /\ m.off = {}
  <2>1. self = f
    BY <1>6 DEF FlagPair
  <2>2. both = self \cup {"mute", "deaf"}
    BY <1>6 DEF FlagPair
  <2> QED
    BY <1>1, <1>6, <2>1, <2>2
<1>7. CASE m.on = {} /\ m.off = {"deaf"}
  <2>1. self = f
    BY <1>7 DEF FlagPair
  <2>2. both = self \ {"deaf"}
    BY <1>7 DEF FlagPair
  <2> QED
    BY <1>1, <1>7, <2>1, <2>2
<1>8. CASE m.on = {} /\ m.off = {"mute", "deaf"}
  <2>1. self = f
    BY <1>8 DEF FlagPair
  <2>2. both = self \ {"mute", "deaf"}
    BY <1>8 DEF FlagPair
  <2> QED
    BY <1>1, <1>8, <2>1, <2>2
<1>9. CASE m.on = {"suppress"} /\ m.off = {}
  <2>1. self = f
    BY <1>9 DEF FlagPair
  <2>2. both = self
    BY <1>9 DEF FlagPair
  <2> QED
    BY <1>1, <1>9, <2>1, <2>2
<1>10. CASE m.on = {} /\ m.off = {"suppress"}
  <2>1. self = f
    BY <1>10 DEF FlagPair
  <2>2. both = self
    BY <1>10 DEF FlagPair
  <2> QED
    BY <1>1, <1>10, <2>1, <2>2
<1> QED
  BY <1>2, <1>3, <1>4, <1>5, <1>6, <1>7, <1>8, <1>9, <1>10 DEF FlagChanges

(* The flags of a user who is announced. *)
LEMMA FlagsAnnounced ==
    ASSUME NEW f \in SUBSET Flags, FlagsLegal(f), NEW m, m.on = f, m.off = {}
    PROVE  FlagsAfter({}, m) = f
<1> DEFINE self == FlagPair({}, m, "selfMute", "selfDeaf")
           both == FlagPair(self, m, "mute", "deaf")
<1>1. FlagsAfter({}, m) = (both \cup (m.on \cap {"suppress"})) \ (m.off \cap {"suppress"})
  BY DEF FlagsAfter
<1>2. self = f \cap {"selfMute", "selfDeaf"}
  <2>1. CASE "selfDeaf" \in f
    BY <2>1 DEF FlagPair, FlagsLegal
  <2>2. CASE "selfDeaf" \notin f
    BY <2>2 DEF FlagPair
  <2> QED
    BY <2>1, <2>2
<1> HIDE DEF self
<1>3. both = self \cup (f \cap {"mute", "deaf"})
  <2>1. CASE "deaf" \in f
    BY <2>1 DEF FlagPair, FlagsLegal
  <2>2. CASE "deaf" \notin f
    BY <2>2 DEF FlagPair
  <2> QED
    BY <2>1, <2>2
<1> HIDE DEF both
<1> QED
  BY <1>1, <1>2, <1>3 DEF Flags

(* No field, no change. *)
LEMMA FlagsKept ==
    ASSUME NEW f, NEW m, m.on = {}, m.off = {}
    PROVE  FlagsAfter(f, m) = f
<1>1. FlagPair(f, m, "selfMute", "selfDeaf") = f /\ FlagPair(f, m, "mute", "deaf") = f
  BY DEF FlagPair
<1> QED
  BY <1>1 DEF FlagsAfter

LEMMA FlagsAfterType ==
    ASSUME NEW f \in SUBSET Flags, NEW m, m.on \in SUBSET Flags
    PROVE  FlagsAfter(f, m) \in SUBSET Flags
<1>1. ASSUME NEW g \in SUBSET Flags, NEW a \in Flags, NEW b \in Flags
      PROVE  FlagPair(g, m, a, b) \in SUBSET Flags
  BY DEF FlagPair
<1>2. {"selfMute", "selfDeaf", "mute", "deaf", "suppress"} \subseteq Flags
  BY DEF Flags
<1>3. FlagPair(f, m, "selfMute", "selfDeaf") \in SUBSET Flags
  BY <1>1, <1>2
<1>4. FlagPair(FlagPair(f, m, "selfMute", "selfDeaf"), m, "mute", "deaf")
          \in SUBSET Flags
  BY <1>1, <1>2, <1>3
<1> QED
  BY <1>4 DEF FlagsAfter

(* What HandleUserState does to a user it does not ignore. *)
LEMMA UserStateEffect ==
    ASSUME Typed, HandleUserState,
           Head(inbox).user \in users \/ Head(inbox).named
    PROVE  LET m == Head(inbox)
               u == m.user
               new == u \notin users
               to == Destination(m, new)
           IN  /\ users' = users \cup {u}
               /\ flags' = [flags EXCEPT ![u] =
                      FlagsAfter(IF new THEN {} ELSE flags[u], m)]
               /\ chanOf' = [chanOf EXCEPT ![u] =
                      IF to = None THEN chanOf[u] ELSE to]
<1> DEFINE m == Head(inbox)
           u == m.user
           new == u \notin users
           to == Destination(m, new)
<1>1. /\ users' = users \cup {u}
      /\ flags' = [flags EXCEPT ![u] = FlagsAfter(IF new THEN {} ELSE flags[u], m)]
      /\ IF to \in {None, chanOf[u]} THEN UNCHANGED <<members, chanOf>>
         ELSE MoveUser(u, to)
  BY DEF HandleUserState
<1>2. chanOf \in [Users -> Channels \cup {None}]
  BY DEF Typed
<1>3. chanOf' = [chanOf EXCEPT ![u] = IF to = None THEN chanOf[u] ELSE to]
  <2>1. CASE to \in {None, chanOf[u]}
    <3>1. chanOf' = chanOf
      BY <1>1, <2>1
    <3>2. (IF to = None THEN chanOf[u] ELSE to) = chanOf[u]
      BY <2>1
    <3> QED
      BY <1>2, <3>1, <3>2
  <2>2. CASE to \notin {None, chanOf[u]}
    <3>1. MoveUser(u, to)
      BY <1>1, <2>2
    <3> QED
      BY <2>2, <3>1 DEF MoveUser
  <2> QED
    BY <2>1, <2>2
<1> QED
  BY <1>1, <1>3

LEMMA UserStateFollows ==
    ASSUME Typed, HandleUserState, NEW s, NEW t, Legal(s), Legal(t),
           Mirrors(s), Tells(Head(inbox), s, t)
    PROVE  Mirrors(t)'
<1> DEFINE m == Head(inbox)
           u == m.user
           new == u \notin users
           to == Destination(m, new)
<1>1. m.type = "UserState" /\ UNCHANGED tree
  BY DEF HandleUserState, Handle
<1>2. PICK v \in Users :
          \/ TellsFlags(m, s, t, v)
          \/ \E c \in Channels :
                TellsJoined(m, s, t, v, c) \/ TellsUserMoved(m, s, t, v, c)
  BY <1>1 DEF Tells, TellsOfUser, TellsSync, TellsLeft, TellsOfChannel,
              TellsRemoved, TellsOfRoot, TellsLinks, TellsAdded, TellsMoved,
              TellsLinked, TellsUnlinked, AChannelState
<1>3. u = v /\ u \in Users /\ SameTree(s, t)
  BY <1>2 DEF TellsFlags, TellsJoined, TellsUserMoved, AUserState
<1>4. MirrorsTree(t)' /\ MirrorsLinks(t)'
  BY <1>1, <1>3 DEF Mirrors, MirrorsTree, MirrorsLinks, SameTree, Known, tree
<1>5. /\ s.in \in [Users -> Channels \cup {None}] /\ s.fl \in [Users -> SUBSET Flags]
      /\ t.fl \in [Users -> SUBSET Flags]
      /\ chanOf \in [Users -> Channels \cup {None}]
      /\ flags \in [Users -> SUBSET Flags]
  BY DEF Legal, ServerState, Typed
<1>6. /\ users = {w \in Users : s.in[w] # None}
      /\ \A w \in users : chanOf[w] = s.in[w] /\ flags[w] = s.fl[w]
      /\ chans = Known(s)
  BY DEF Mirrors, MirrorsPeople, MirrorsTree
<1>7. ASSUME NEW c \in Channels,
             u \in users \/ m.named, to \in {c, None},
             to = None => u \in users /\ c = chanOf[u],
             t.in = [s.in EXCEPT ![u] = c],
             FlagsAfter(IF new THEN {} ELSE flags[u], m) = t.fl[u],
             \A w \in Users \ {u} : t.fl[w] = s.fl[w]
      PROVE  MirrorsPeople(t)'
  <2>1. /\ users' = users \cup {u}
        /\ flags' = [flags EXCEPT ![u] = t.fl[u]]
        /\ chanOf' = [chanOf EXCEPT ![u] = c]
    <3>1. (IF to = None THEN chanOf[u] ELSE to) = c
      BY <1>7
    <3> HIDE DEF new, to
    <3> QED
      BY <1>7, <3>1, UserStateEffect DEF new, to
  <2>2. c # None
    BY ConstAssumption
  <2>3. users' = {w \in Users : t.in[w] # None}
    BY <1>3, <1>5, <1>6, <1>7, <2>1, <2>2
  <2>4. ASSUME NEW w \in users' PROVE chanOf'[w] = t.in[w] /\ flags'[w] = t.fl[w]
    <3>1. CASE w = u
      BY <1>3, <1>5, <1>7, <2>1, <3>1
    <3>2. CASE w # u
      BY <1>3, <1>5, <1>6, <1>7, <2>1, <3>2
    <3> QED
      BY <3>1, <3>2
  <2> QED
    BY <2>3, <2>4 DEF MirrorsPeople
<1>8. CASE TellsFlags(m, s, t, u)
  <2>1. PICK f \in FlagChanges :
            /\ AUserState(m, u, None, f.on, f.off, FALSE)
            /\ t.fl = [s.fl EXCEPT ![u] = (@ \cup f.on) \ f.off]
    BY <1>8 DEF TellsFlags
  <2>2. u \in users /\ t.in = s.in /\ s.in[u] \in Channels
    BY <1>3, <1>5, <1>6, <1>8 DEF TellsFlags
  <2>3. to = None
    BY <2>1, <2>2, <1>6, ConstAssumption DEF Destination, Lookup, Known, AUserState
  <2>4. FlagsAfter(flags[u], m) = t.fl[u]
    <3>1. FlagsAfter(flags[u], m) = (flags[u] \cup f.on) \ f.off
      BY <1>3, <1>5, <2>1, FlagsFollow DEF AUserState
    <3> QED
      BY <1>3, <1>5, <1>6, <2>1, <2>2, <3>1
  <2>5. t.in = [s.in EXCEPT ![u] = s.in[u]] /\ s.in[u] = chanOf[u]
    BY <1>3, <1>5, <1>6, <2>2
  <2>6. \A w \in Users \ {u} : t.fl[w] = s.fl[w]
    BY <1>5, <2>1
  <2>7. MirrorsPeople(t)'
    BY <1>7, <2>2, <2>3, <2>4, <2>5, <2>6
  <2> QED
    BY <1>4, <2>7 DEF Mirrors
<1>9. ASSUME NEW c \in Channels, TellsJoined(m, s, t, u, c) PROVE Mirrors(t)'
  <2>1. /\ u \notin users /\ c \in chans
        /\ AUserState(m, u, ChannelField(c), t.fl[u], {}, TRUE)
        /\ t.in = [s.in EXCEPT ![u] = c]
        /\ \A w \in Users \ {u} : t.fl[w] = s.fl[w]
    BY <1>3, <1>6, <1>9 DEF TellsJoined
  <2>2. to = c /\ m.named
    BY <2>1, ConstAssumption DEF Destination, Lookup, ChannelField, AUserState
  <2>3. FlagsAfter({}, m) = t.fl[u]
    <3>1. t.fl[u] \in SUBSET Flags /\ FlagsLegal(t.fl[u])
      BY <1>3, <1>5 DEF Legal, PeopleLegal
    <3> QED
      BY <2>1, <3>1, FlagsAnnounced DEF AUserState
  <2>4. c # None
    BY ConstAssumption
  <2>5. MirrorsPeople(t)'
    BY <1>7, <2>1, <2>2, <2>3, <2>4
  <2> QED
    BY <1>4, <2>5 DEF Mirrors
<1>10. ASSUME NEW c \in Channels, TellsUserMoved(m, s, t, u, c) PROVE Mirrors(t)'
  <2>1. /\ u \in users /\ c \in chans
        /\ AUserState(m, u, c, {}, {}, FALSE)
        /\ t.in = [s.in EXCEPT ![u] = c] /\ t.fl = s.fl
    BY <1>3, <1>6, <1>10 DEF TellsUserMoved
  <2>2. to = c
    BY <2>1, ConstAssumption DEF Destination, Lookup, AUserState
  <2>3. FlagsAfter(flags[u], m) = t.fl[u]
    BY <1>6, <2>1, FlagsKept DEF AUserState
  <2>4. c # None
    BY ConstAssumption
  <2>5. MirrorsPeople(t)'
    BY <1>7, <2>1, <2>2, <2>3, <2>4
  <2> QED
    BY <1>4, <2>5 DEF Mirrors
<1> QED
  BY <1>2, <1>3, <1>8, <1>9, <1>10

LEMMA UserRemoveFollows ==
    ASSUME Typed, HandleUserRemove, NEW s, NEW t, Legal(s), Legal(t),
           Mirrors(s), Tells(Head(inbox), s, t)
    PROVE  Mirrors(t)'
<1> DEFINE m == Head(inbox)
           u == m.user
<1>1. m.type = "UserRemove" /\ UNCHANGED tree
  BY DEF HandleUserRemove, Handle
<1>2. u \in Users /\ TellsLeft(m, s, t, u)
  BY <1>1 DEF Tells, TellsOfUser, TellsSync, TellsLeft, TellsFlags,
              TellsJoined, TellsUserMoved, AUserState, TellsOfChannel,
              TellsRemoved, TellsOfRoot, TellsLinks, TellsAdded, TellsMoved,
              TellsLinked, TellsUnlinked, AChannelState
<1>3. /\ SameTree(s, t) /\ t.in = [s.in EXCEPT ![u] = None] /\ t.fl = s.fl
      /\ u \in users
  BY <1>2 DEF TellsLeft, Mirrors, MirrorsPeople
<1>4. MirrorsTree(t)' /\ MirrorsLinks(t)'
  BY <1>1, <1>3 DEF Mirrors, MirrorsTree, MirrorsLinks, SameTree, Known, tree
<1>5. s.in \in [Users -> Channels \cup {None}]
      /\ chanOf \in [Users -> Channels \cup {None}]
  BY DEF Legal, ServerState, Typed
<1>6. /\ users' = users \ {u} /\ chanOf' = [chanOf EXCEPT ![u] = None]
      /\ flags' = flags
  BY <1>3 DEF HandleUserRemove
<1>7. MirrorsPeople(t)'
  BY <1>2, <1>3, <1>5, <1>6 DEF Mirrors, MirrorsPeople
<1> QED
  BY <1>4, <1>7 DEF Mirrors

LEMMA ServerSyncFollows ==
    ASSUME Typed, HandleServerSync, NEW s, NEW t, Legal(s), Legal(t),
           Mirrors(s), Tells(Head(inbox), s, t)
    PROVE  Mirrors(t)' /\ Head(inbox).user = Me /\ Me \in users
<1> DEFINE m == Head(inbox)
<1>1. m.type = "ServerSync" /\ UNCHANGED <<tree, people>>
  BY DEF HandleServerSync, Handle
<1>2. TellsSync(m, s, t)
  BY <1>1 DEF Tells, TellsOfUser, TellsSync, TellsLeft, TellsFlags,
              TellsJoined, TellsUserMoved, AUserState, TellsOfChannel,
              TellsRemoved, TellsOfRoot, TellsLinks, TellsAdded, TellsMoved,
              TellsLinked, TellsUnlinked, AChannelState
<1>3. Mirrors(t)'
  BY <1>1, <1>2 DEF TellsSync, SameTree, SamePeople, Mirrors, MirrorsTree,
                    MirrorsLinks, MirrorsPeople, Known, tree, people
<1> QED
  BY <1>2, <1>3, ConstAssumption DEF TellsSync, Mirrors, MirrorsPeople

--------------------------------------------------------------------------------
(* Types. *)

LEMMA ChannelStateTyped ==
    ASSUME Typed, HandleChannelState
    PROVE  Typed'
<1> DEFINE m == Head(inbox)
           c == m.chan
           p == Lookup(m.parent)
           new == c \notin chans
           par == IF new THEN [parent EXCEPT ![c] = p] ELSE parent
<1>1. m \in ChannelMessage /\ inbox' \in Seq(Message)
  BY HeadAndTail, MessageTypes DEF Typed, HandleChannelState, Handle
<1>2. /\ UNCHANGED <<phase, unchain, people, connectedUser>>
      /\ audio' = audio
  BY DEF HandleChannelState, Handle, told
<1>3. CASE Ignores(m)
  BY <1>1, <1>2, <1>3 DEF Typed, HandleChannelState, tree, told, people, unchain
<1>4. CASE ~Ignores(m)
  <2>1. /\ chans' = chans \cup {c}
        /\ children' = IF new THEN ChildrenWith(c, p) ELSE children
        /\ parent' = ParentAfterMove(par, c, p)
        /\ moved' \in {moved, moved \cup {c}}
        /\ linked' = LinksAfter(m)
    BY <1>4 DEF HandleChannelState
  <2>2. c \in Channels /\ p \in Channels \cup {None}
    BY <1>1 DEF ChannelMessage, Lookup, Typed
  <2>3. par \in [Channels -> Channels \cup {None}]
    BY <2>2 DEF Typed
  <2>4. parent' \in [Channels -> Channels \cup {None}]
    BY <2>1, <2>2, <2>3 DEF ParentAfterMove
  <2>5. children' \in [Channels -> SUBSET Channels]
    <3>1. ChildrenWith(c, p) \in [Channels -> SUBSET Channels]
      BY <2>2 DEF ChildrenWith, Typed
    <3> QED
      BY <2>1, <3>1 DEF Typed
  <2>6. linked' \in [Channels -> SUBSET Channels]
    BY <1>1, <2>1, LinksAfterKeeps DEF Typed
  <2>7. chans' \subseteq Channels /\ moved' \subseteq Channels /\ pending' \subseteq chans'
    BY <1>2, <2>1, <2>2 DEF Typed, unchain
  <2> QED
    BY <1>1, <1>2, <2>4, <2>5, <2>6, <2>7 DEF Typed, people, unchain
<1> QED
  BY <1>3, <1>4

LEMMA ChildrenWithoutType ==
    ASSUME children \in [Channels -> SUBSET Channels], NEW c
    PROVE  ChildrenWithout(c) \in [Channels -> SUBSET Channels]
  BY DEF ChildrenWithout

LEMMA ChannelRemoveTyped ==
    ASSUME Typed, NothingPending, HandleChannelRemove
    PROVE  Typed'
<1> DEFINE c == Head(inbox).chan
<1>1. inbox' \in Seq(Message)
  BY HeadAndTail DEF Typed, HandleChannelRemove, Handle
<1>2. UNCHANGED <<phase, unchain, people, connectedUser>> /\ phase = "live"
  BY DEF HandleChannelRemove, Handle
<1>3. CASE c \notin chans \ {Root}
  BY <1>1, <1>2, <1>3 DEF Typed, HandleChannelRemove, tree, told, people, unchain
<1>4. CASE c \in chans \ {Root}
  <2>1. /\ children' = ChildrenWithout(c)
        /\ parent' = [parent EXCEPT ![c] = None]
        /\ chans' = chans \ {c}
        /\ UNCHANGED <<linked, moved, told>>
    BY <1>4 DEF HandleChannelRemove
  <2>2. pending' \subseteq chans'
    BY <1>2 DEF NothingPending, unchain
  <2>3. parent' \in [Channels -> Channels \cup {None}]
    BY <2>1 DEF Typed
  <2>4. children' \in [Channels -> SUBSET Channels]
    BY <2>1, ChildrenWithoutType DEF Typed
  <2> QED
    BY <1>1, <1>2, <2>1, <2>2, <2>3, <2>4 DEF Typed, told, people, unchain
<1> QED
  BY <1>3, <1>4

LEMMA UserStateTyped ==
    ASSUME Typed, HandleUserState
    PROVE  Typed'
<1> DEFINE m == Head(inbox)
           u == m.user
           new == u \notin users
           to == Destination(m, new)
           after == FlagsAfter(IF new THEN {} ELSE flags[u], m)
<1>1. m \in UserMessage /\ inbox' \in Seq(Message)
  BY HeadAndTail, MessageTypes DEF Typed, HandleUserState, Handle
<1>2. UNCHANGED <<phase, unchain, tree, connectedUser>>
  BY DEF HandleUserState, Handle
<1>3. CASE new /\ ~m.named
  BY <1>1, <1>2, <1>3 DEF Typed, HandleUserState, tree, told, people, unchain
<1>4. CASE ~(new /\ ~m.named)
  <2>1. /\ users' = users \cup {u}
        /\ flags' = [flags EXCEPT ![u] = after]
        /\ IF to \in {None, chanOf[u]} THEN UNCHANGED <<members, chanOf>>
           ELSE MoveUser(u, to)
        /\ audio' = IF u = connectedUser THEN AudioAfter(after, m) ELSE audio
    BY <1>4 DEF HandleUserState
  <2>2. u \in Users /\ m.on \in SUBSET Flags
    BY <1>1 DEF UserMessage
  <2>3. after \in SUBSET Flags
    BY <2>2, FlagsAfterType DEF Typed
  <2>4. to \in Channels \cup {None}
    BY ConstAssumption DEF Destination, Lookup, Typed
  <2>5. /\ members' \in [Channels -> SUBSET Users]
        /\ chanOf' \in [Users -> Channels \cup {None}]
    <3>1. ASSUME MoveUser(u, to)
          PROVE  /\ members' \in [Channels -> SUBSET Users]
                 /\ chanOf' \in [Users -> Channels \cup {None}]
      BY <2>2, <2>4, <3>1 DEF MoveUser, Typed
    <3> QED
      BY <2>1, <3>1 DEF Typed
  <2>6. audio' \subseteq AudioFlags
    <3>1. AudioAfter(after, m) \subseteq AudioFlags
      BY DEF AudioAfter, AudioFlags, Typed
    <3> QED
      BY <2>1, <3>1 DEF Typed
  <2>7. flags' \in [Users -> SUBSET Flags] /\ users' \subseteq Users
    BY <2>1, <2>2, <2>3 DEF Typed
  <2> QED
    BY <1>1, <1>2, <2>5, <2>6, <2>7 DEF Typed, tree, unchain
<1> QED
  BY <1>3, <1>4

LEMMA UserRemoveTyped ==
    ASSUME Typed, HandleUserRemove
    PROVE  Typed'
<1> DEFINE u == Head(inbox).user
<1>1. inbox' \in Seq(Message)
  BY HeadAndTail DEF Typed, HandleUserRemove, Handle
<1>2. UNCHANGED <<phase, unchain, tree, connectedUser>>
  BY DEF HandleUserRemove, Handle
<1>3. CASE u \notin users
  BY <1>1, <1>2, <1>3 DEF Typed, HandleUserRemove, tree, told, people, unchain
<1>4. CASE u \in users
  <2>1. /\ members' = [x \in Channels |->
                IF x = chanOf[u] THEN members[x] \ {u} ELSE members[x]]
        /\ chanOf' = [chanOf EXCEPT ![u] = None]
        /\ users' = users \ {u}
        /\ UNCHANGED <<flags, audio>>
    BY <1>4 DEF HandleUserRemove
  <2>2. /\ members' \in [Channels -> SUBSET Users]
        /\ chanOf' \in [Users -> Channels \cup {None}]
        /\ users' \subseteq Users
    BY <2>1 DEF Typed
  <2> QED
    BY <1>1, <1>2, <2>1, <2>2 DEF Typed, tree, unchain
<1> QED
  BY <1>3, <1>4

LEMMA ServerSyncTyped ==
    ASSUME Typed, HandleServerSync, Head(inbox).user = Me
    PROVE  Typed'
<1>1. inbox' \in Seq(Message)
  BY HeadAndTail DEF Typed, HandleServerSync, Handle
<1>2. connectedUser' \in {Me, None}
  BY DEF HandleServerSync
<1> QED
  BY <1>1, <1>2 DEF Typed, HandleServerSync, Handle, tree, people, unchain

--------------------------------------------------------------------------------
(* What the delegate and the audio engine know. *)

(* The audio engine keeps a flag only when the message is not about it, and *)
(* then the user keeps it too.                                              *)
LEMMA AudioFollowsFlags ==
    ASSUME NEW f, NEW m, audio \subseteq f, audio \subseteq AudioFlags
    PROVE  AudioAfter(FlagsAfter(f, m), m) \subseteq FlagsAfter(f, m)
<1> DEFINE F == FlagsAfter(f, m)
           fields == m.on \cup m.off
           about(x) == IF x = "selfMute" THEN fields \cap {"selfMute", "selfDeaf"} # {}
                       ELSE fields \cap {"mute", "deaf", "suppress"} # {}
<1>1. \A x \in AudioAfter(F, m) : x \in F \/ (x \in audio /\ ~about(x))
  BY DEF AudioAfter, AudioFlags
<1>2. ASSUME NEW x \in audio, ~about(x) PROVE x \in F
  <2> DEFINE self == FlagPair(f, m, "selfMute", "selfDeaf")
             both == FlagPair(self, m, "mute", "deaf")
  <2>1. F = (both \cup (m.on \cap {"suppress"})) \ (m.off \cap {"suppress"})
    BY DEF FlagsAfter
  <2>2. x \in f /\ x \in {"selfMute", "mute", "suppress"}
    BY DEF AudioFlags
  <2>3. x \in self
    BY <1>2, <2>2 DEF FlagPair
  <2> HIDE DEF self
  <2>4. x \in both
    BY <1>2, <2>2, <2>3 DEF FlagPair
  <2> HIDE DEF both
  <2> QED
    BY <1>2, <2>1, <2>2, <2>4
<1> QED
  BY <1>1, <1>2

LEMMA AnnouncedFirstStays ==
    ASSUME Typed, MeAnnouncedFirst, inbox # <<>>, inbox' = Tail(inbox),
           connectedUser' = connectedUser
    PROVE  MeAnnouncedFirst'
<1>1. /\ Len(inbox) \in Nat \ {0} /\ Len(inbox') = Len(inbox) - 1
      /\ \A i \in 1 .. Len(inbox') : inbox'[i] = inbox[i + 1]
  BY HeadAndTail DEF Typed
<1> SUFFICES ASSUME NEW i \in 1 .. Len(inbox'), NamesMe(inbox'[i])
             PROVE  /\ connectedUser = None
                    /\ \A j \in 1 .. Len(inbox') :
                          inbox'[j].type = "ServerSync" => i < j
  BY DEF MeAnnouncedFirst, NamesMe
<1>2. i + 1 \in 1 .. Len(inbox) /\ NamesMe(inbox[i + 1])
  BY <1>1
<1>3. /\ connectedUser = None
      /\ \A j \in 1 .. Len(inbox) : inbox[j].type = "ServerSync" => i + 1 < j
  BY <1>2 DEF MeAnnouncedFirst
<1>4. ASSUME NEW j \in 1 .. Len(inbox'), inbox'[j].type = "ServerSync"
      PROVE  i < j
  <2>1. j + 1 \in 1 .. Len(inbox) /\ inbox[j + 1].type = "ServerSync"
    BY <1>1, <1>4
  <2>2. i + 1 < j + 1
    BY <1>3, <2>1
  <2> QED
    BY <1>1, <2>2
<1> QED
  BY <1>3, <1>4

LEMMA ChannelMessagePeople ==
    ASSUME Typed, People, HandleChannelState \/ HandleChannelRemove
    PROVE  People'
<1>1. /\ UNCHANGED <<people, connectedUser, audio, usersTold, phase>>
      /\ inbox # <<>> /\ inbox' = Tail(inbox)
  BY DEF HandleChannelState, HandleChannelRemove, Handle, told
<1>2. MeAnnouncedFirst'
  BY <1>1, AnnouncedFirstStays DEF People
<1> QED
  BY <1>1, <1>2 DEF People, SilentUntilSync, OthersKnowModel, UsersAnnounced,
                    NeverMutedWithoutReason, Synced, people

LEMMA UserStatePeople ==
    ASSUME Typed, People, HandleUserState
    PROVE  People'
<1> DEFINE m == Head(inbox)
           u == m.user
           new == u \notin users
           before == IF new THEN {} ELSE flags[u]
           after == FlagsAfter(before, m)
<1>1. /\ inbox # <<>> /\ inbox' = Tail(inbox) /\ m.type = "UserState"
      /\ phase = "live" /\ phase' = "live"
      /\ connectedUser' = connectedUser
  BY DEF HandleUserState, Handle
<1>2. MeAnnouncedFirst'
  BY <1>1, AnnouncedFirstStays DEF People
<1>3. CASE new /\ ~m.named
  BY <1>1, <1>2, <1>3 DEF HandleUserState, People, SilentUntilSync,
     OthersKnowModel, UsersAnnounced, NeverMutedWithoutReason, Synced, people, told
<1>4. CASE ~(new /\ ~m.named)
  <2>1. /\ users' = users \cup {u}
        /\ flags' = [flags EXCEPT ![u] = after]
        /\ usersTold' = UserJoined(u, new)
        /\ audio' = IF u = connectedUser THEN AudioAfter(after, m) ELSE audio
    BY <1>4 DEF HandleUserState
  <2>2. u \in Users /\ m = inbox[1] /\ 1 \in 1 .. Len(inbox)
    <3>1. m \in UserMessage /\ m = inbox[1] /\ Len(inbox) \in Nat \ {0}
      BY <1>1, HeadAndTail, MessageTypes DEF Typed
    <3> QED
      BY <3>1 DEF UserMessage
  <2>3. SilentUntilSync'
    BY <1>1, <2>1, <2>2, ConstAssumption DEF People, SilentUntilSync
  <2>4. UsersAnnounced'
    BY <1>1, <2>1 DEF UserJoined, People, OthersKnowModel, UsersAnnounced, Synced
  <2>5. NeverMutedWithoutReason'
    <3> SUFFICES ASSUME connectedUser \in users'
                 PROVE  audio' \subseteq flags'[connectedUser]
      BY <1>1 DEF NeverMutedWithoutReason
    <3>1. flags \in [Users -> SUBSET Flags] /\ audio \subseteq AudioFlags
          /\ connectedUser \in {Me, None}
      BY DEF Typed
    <3>2. connectedUser \in users => audio \subseteq flags[connectedUser]
      BY <1>1 DEF People, OthersKnowModel, NeverMutedWithoutReason
    <3>3. CASE u = connectedUser
      <4>1. u \in users
        <5> SUFFICES ASSUME new PROVE FALSE
          OBVIOUS
        <5>1. u = Me
          BY <2>2, <3>1, <3>3, ConstAssumption
        <5>2. NamesMe(inbox[1])
          BY <1>1, <1>4, <2>2, <5>1 DEF NamesMe
        <5>3. connectedUser = None
          BY <2>2, <5>2 DEF People, MeAnnouncedFirst
        <5> QED
          BY <2>2, <3>3, <5>3, ConstAssumption
      <4>2. AudioAfter(after, m) \subseteq after
        BY <3>1, <3>2, <3>3, <4>1, AudioFollowsFlags
      <4> QED
        BY <2>1, <2>2, <3>1, <3>3, <4>2
    <3>4. CASE u # connectedUser
      BY <2>1, <3>1, <3>2, <3>4
    <3> QED
      BY <3>3, <3>4
  <2> QED
    BY <1>2, <2>3, <2>4, <2>5 DEF People, OthersKnowModel
<1> QED
  BY <1>3, <1>4

LEMMA UserRemovePeople ==
    ASSUME Typed, People, HandleUserRemove
    PROVE  People'
<1> DEFINE u == Head(inbox).user
<1>1. /\ inbox # <<>> /\ inbox' = Tail(inbox)
      /\ phase = "live" /\ phase' = "live"
      /\ connectedUser' = connectedUser
  BY DEF HandleUserRemove, Handle
<1>2. MeAnnouncedFirst'
  BY <1>1, AnnouncedFirstStays DEF People
<1>3. CASE u \notin users
  BY <1>1, <1>2, <1>3 DEF HandleUserRemove, People, SilentUntilSync,
     OthersKnowModel, UsersAnnounced, NeverMutedWithoutReason, Synced, people, told
<1>4. CASE u \in users
  <2>1. /\ users' = users \ {u}
        /\ usersTold' = IF Synced THEN usersTold \ {u} ELSE usersTold
        /\ UNCHANGED <<flags, audio>>
    BY <1>4 DEF HandleUserRemove
  <2> QED
    BY <1>1, <1>2, <2>1 DEF People, SilentUntilSync, OthersKnowModel,
       UsersAnnounced, NeverMutedWithoutReason, Synced
<1> QED
  BY <1>3, <1>4

LEMMA ServerSyncPeople ==
    ASSUME Typed, People, HandleServerSync, Head(inbox).user = Me, Me \in users
    PROVE  People'
<1>1. /\ inbox # <<>> /\ inbox' = Tail(inbox) /\ Head(inbox).type = "ServerSync"
      /\ phase = "live" /\ phase' = "live"
      /\ connectedUser' = Me /\ usersTold' = users
      /\ UNCHANGED <<people, audio>>
  BY DEF HandleServerSync, Handle
<1>2. MeAnnouncedFirst'
  <2>1. /\ Len(inbox) \in Nat \ {0} /\ Len(inbox') = Len(inbox) - 1
        /\ Head(inbox) = inbox[1]
        /\ \A i \in 1 .. Len(inbox') : inbox'[i] = inbox[i + 1]
    BY <1>1, HeadAndTail DEF Typed
  <2> SUFFICES ASSUME NEW i \in 1 .. Len(inbox'), NamesMe(inbox'[i]) PROVE FALSE
    BY DEF MeAnnouncedFirst, NamesMe
  <2>2. i + 1 \in 1 .. Len(inbox) /\ NamesMe(inbox[i + 1]) /\ 1 \in 1 .. Len(inbox)
    BY <2>1
  <2>3. i + 1 < 1
    BY <1>1, <2>1, <2>2 DEF People, MeAnnouncedFirst
  <2> QED
    BY <2>1, <2>3
<1>3. SilentUntilSync'
  BY <1>1, ConstAssumption DEF SilentUntilSync
<1>4. audio \subseteq flags[Me]
  <2>1. CASE connectedUser = Me
    BY <1>1, <2>1 DEF People, OthersKnowModel, NeverMutedWithoutReason
  <2>2. CASE connectedUser = None
    BY <2>2 DEF People, SilentUntilSync
  <2> QED
    BY <2>1, <2>2 DEF Typed
<1>5. OthersKnowModel'
  BY <1>1, <1>4 DEF OthersKnowModel, UsersAnnounced, NeverMutedWithoutReason, people
<1> QED
  BY <1>2, <1>3, <1>5 DEF People

--------------------------------------------------------------------------------
(* Handlers take the story one state further. *)

LEMMA NowIsLegal == (NowLegal => Legal(Now)) /\ (NowLegal' => Legal(Now)')
<1>1. /\ Now.par = sParent /\ Now.lnk = sLinks /\ Now.in = sIn /\ Now.fl = sFlags
      /\ Known(Now) = sChans
  BY DEF Now, Known, sChans
<1>2. NowLegal => Now \in ServerState
  BY DEF NowLegal, Now, ServerState
<1>3. NowLegal => Legal(Now)
  <2> SUFFICES ASSUME NowLegal PROVE Legal(Now)
    OBVIOUS
  <2>1. TreeLegal(Now)
    BY <1>1 DEF NowLegal, TreeLegal
  <2>2. LinksLegal(Now)
    BY <1>1 DEF NowLegal, LinksLegal
  <2>3. PeopleLegal(Now)
    BY <1>1 DEF NowLegal, PeopleLegal, FlagsLegal
  <2> QED
    BY <1>2, <2>1, <2>2, <2>3 DEF Legal
<1>4. /\ Now'.par = sParent' /\ Now'.lnk = sLinks'
      /\ Now'.in = sIn' /\ Now'.fl = sFlags'
      /\ Known(Now)' = sChans'
  BY DEF Now, Known, sChans
<1>5. NowLegal' => Now' \in ServerState
  BY DEF NowLegal, Now, ServerState
<1>6. NowLegal' => Legal(Now)'
  <2> SUFFICES ASSUME NowLegal' PROVE Legal(Now)'
    OBVIOUS
  <2>1. TreeLegal(Now)'
    BY <1>4 DEF NowLegal, TreeLegal
  <2>2. LinksLegal(Now)'
    BY <1>4 DEF NowLegal, LinksLegal
  <2>3. PeopleLegal(Now)'
    BY <1>4 DEF NowLegal, PeopleLegal, FlagsLegal
  <2> QED
    BY <1>5, <2>1, <2>2, <2>3 DEF Legal
<1> QED
  BY <1>3, <1>6

LEMMA StoryGoesOn ==
    ASSUME Typed, inbox # <<>>, inbox' = Tail(inbox), UNCHANGED server,
           NEW h, Story(h)
    PROVE  /\ Legal(h[1]) /\ Legal(h[2]) /\ Tells(Head(inbox), h[1], h[2])
           /\ \E g : Story(g)' /\ g[1] = h[2]
<1> PICK n : n = Len(inbox)
  OBVIOUS
<1> PICK g : g = [i \in 1 .. n |-> h[i + 1]]
  OBVIOUS
<1>1. /\ n \in Nat \ {0} /\ Len(inbox') = n - 1 /\ Head(inbox) = inbox[1]
      /\ \A i \in 1 .. n - 1 : inbox'[i] = inbox[i + 1]
  BY HeadAndTail DEF Typed
<1>2. /\ h \in [1 .. n + 1 -> ServerState]
      /\ \A i \in 1 .. n + 1 : Legal(h[i])
      /\ \A i \in 1 .. n : Tells(inbox[i], h[i], h[i + 1])
      /\ h[n + 1] = Now
  BY DEF Story
<1>3. 1 \in 1 .. n /\ 1 \in 1 .. n + 1 /\ 2 \in 1 .. n + 1
      /\ Len(inbox') + 1 = n
  BY <1>1
<1>4. Legal(h[1]) /\ Legal(h[2]) /\ Tells(inbox[1], h[1], h[2])
  <2>1. Tells(inbox[1], h[1], h[1 + 1]) /\ 1 + 1 = 2
    BY <1>2, <1>3
  <2> QED
    BY <1>2, <1>3, <2>1
<1>5. \A i \in 1 .. n : i + 1 \in 1 .. n + 1 /\ g[i] = h[i + 1]
  BY <1>1
<1>6. g \in [1 .. n -> ServerState]
  BY <1>2, <1>5
<1>7. \A i \in 1 .. n : Legal(g[i])
  BY <1>2, <1>5
<1>8. ASSUME NEW i \in 1 .. n - 1 PROVE Tells(inbox'[i], g[i], g[i + 1])
  <2>1. i \in 1 .. n /\ i + 1 \in 1 .. n
    BY <1>1
  <2>2. g[i] = h[i + 1] /\ g[i + 1] = h[i + 1 + 1]
    BY <2>1
  <2>3. Tells(inbox[i + 1], h[i + 1], h[i + 1 + 1])
    BY <1>2, <2>1
  <2> QED
    BY <1>1, <2>2, <2>3
<1>9. g[n] = Now /\ g[1] = h[2]
  <2>1. n \in 1 .. n
    BY <1>1
  <2> QED
    BY <1>2, <1>3, <1>5, <2>1
<1>10. Now' = Now
  BY DEF Now, server
<1>11. Story(g)'
  <2>1. (\A i \in 1 .. Len(inbox) : Tells(inbox[i], g[i], g[i + 1]))'
    <3> SUFFICES ASSUME NEW i \in 1 .. Len(inbox')
                 PROVE  Tells(inbox'[i], g[i], g[i + 1])
      OBVIOUS
    <3>1. i \in 1 .. n - 1
      BY <1>1
    <3> QED
      BY <1>8, <3>1
  <2>2. (g \in [1 .. Len(inbox) + 1 -> ServerState])'
    BY <1>3, <1>6
  <2>3. (\A i \in 1 .. Len(inbox) + 1 : Legal(g[i]))'
    BY <1>3, <1>7
  <2>4. (g[Len(inbox) + 1] = Now)'
    BY <1>3, <1>9, <1>10
  <2> QED
    BY <2>1, <2>2, <2>3, <2>4 DEF Story
<1> QED
  BY <1>1, <1>4, <1>9, <1>11

LEMMA HandlerKeepsIInv ==
    ASSUME IInv, HandleMessage
    PROVE  IInv'
<1>1. /\ phase = "live" /\ phase' = "live" /\ inbox # <<>> /\ inbox' = Tail(inbox)
      /\ UNCHANGED <<server, pending>>
  BY DEF HandleMessage, HandleChannelState, HandleChannelRemove, HandleUserState,
         HandleUserRemove, HandleServerSync, Handle, unchain
<1>2. loggedIn /\ loggedIn'
  BY <1>1 DEF IInv, Follows, Fresh, server
<1>3. PICK h : Story(h) /\ Mirrors(h[1])
  BY <1>1, <1>2 DEF IInv, Follows
<1> DEFINE s == h[1]
           t == h[2]
<1>4. /\ Legal(s) /\ Legal(t) /\ Tells(Head(inbox), s, t) /\ Mirrors(s)
      /\ \E g : Story(g)' /\ g[1] = t
  BY <1>1, <1>3, StoryGoesOn DEF IInv
<1> HIDE DEF s, t
<1>5. Mirrors(t)' => Follows'
  <2> SUFFICES ASSUME Mirrors(t)' PROVE Follows'
    OBVIOUS
  <2>1. PICK g : Story(g)' /\ g[1] = t
    BY <1>4
  <2>2. Mirrors(g[1])'
    BY <2>1
  <2> QED
    BY <1>2, <2>1, <2>2 DEF Follows
<1>6. NothingPending' /\ ServerLegal'
  BY <1>1 DEF IInv, NothingPending, ServerLegal, NowLegal, sChans, server
<1>7. CASE HandleChannelState
  BY <1>4, <1>5, <1>6, <1>7, ChannelStateFollows, ChannelStateTyped,
     ChannelMessagePeople DEF IInv
<1>8. CASE HandleChannelRemove
  BY <1>4, <1>5, <1>6, <1>8, ChannelRemoveFollows, ChannelRemoveTyped,
     ChannelMessagePeople DEF IInv
<1>9. ASSUME UNCHANGED tree PROVE TreeInv'
  BY <1>1, <1>9, TreeUnchanged DEF IInv, tree
<1>10. CASE HandleUserState
  <2>1. UNCHANGED tree
    BY <1>10 DEF HandleUserState
  <2> QED
    BY <1>4, <1>5, <1>6, <1>9, <1>10, <2>1, UserStateFollows, UserStateTyped,
       UserStatePeople DEF IInv
<1>11. CASE HandleUserRemove
  <2>1. UNCHANGED tree
    BY <1>11 DEF HandleUserRemove
  <2> QED
    BY <1>4, <1>5, <1>6, <1>9, <1>11, <2>1, UserRemoveFollows, UserRemoveTyped,
       UserRemovePeople DEF IInv
<1>12. CASE HandleServerSync
  <2>1. UNCHANGED tree
    BY <1>12 DEF HandleServerSync
  <2>2. Head(inbox).user = Me /\ Me \in users /\ Mirrors(t)'
    BY <1>4, <1>12, ServerSyncFollows DEF IInv
  <2> QED
    BY <1>5, <1>6, <1>9, <1>12, <2>1, <2>2, ServerSyncTyped, ServerSyncPeople
    DEF IInv
<1> QED
  BY <1>7, <1>8, <1>10, <1>11, <1>12 DEF HandleMessage

--------------------------------------------------------------------------------
(* What the server does keeps its state legal, and the message it sends     *)
(* tells of the change.                                                     *)
Announced(m) ==
    /\ m \in Message /\ ~NamesMe(m) /\ m.type # "ServerSync"
    /\ Send(<<m>>) /\ Tells(m, Now, Now') /\ loggedIn' = loggedIn

LEMMA NowFields ==
    /\ Now.par = sParent /\ Now.lnk = sLinks /\ Now.in = sIn /\ Now.fl = sFlags
    /\ Known(Now) = sChans
    /\ Now'.par = sParent' /\ Now'.lnk = sLinks'
    /\ Now'.in = sIn' /\ Now'.fl = sFlags'
  BY DEF Now, Known, sChans

(* AboutChannel with some of its fields changed is a message. *)
LEMMA ChangedFields ==
    ASSUME NEW c \in Channels, NEW p \in Channels \cup {None}, NEW d \in Channels
    PROVE  /\ AboutChannel(c) \in ChannelMessage
           /\ [AboutChannel(c) EXCEPT !.parent = p] \in ChannelMessage
           /\ [AboutChannel(c) EXCEPT !.parent = p, !.named = TRUE] \in ChannelMessage
           /\ [AboutChannel(c) EXCEPT !.named = TRUE, !.parent = p] \in ChannelMessage
           /\ [AboutChannel(c) EXCEPT !.add = {d}] \in ChannelMessage
           /\ [AboutChannel(c) EXCEPT !.remove = {d}] \in ChannelMessage
<1>1. AboutChannel(c) \in ChannelMessage
  BY DEF AboutChannel, ChannelMessage
<1> DEFINE a == AboutChannel(c)
<1> HIDE DEF a
<1>2. a \in ChannelMessage
  BY <1>1 DEF a
<1>3. /\ [a EXCEPT !.parent = p] \in ChannelMessage
      /\ [a EXCEPT !.parent = p, !.named = TRUE] \in ChannelMessage
      /\ [a EXCEPT !.named = TRUE, !.parent = p] \in ChannelMessage
  BY <1>2 DEF ChannelMessage
<1>4. /\ [a EXCEPT !.add = {d}] \in ChannelMessage
      /\ [a EXCEPT !.remove = {d}] \in ChannelMessage
  BY <1>2 DEF ChannelMessage
<1> QED
  BY <1>2, <1>3, <1>4 DEF a

LEMMA AddIsAnnounced ==
    ASSUME ServerLegal, NEW c \in Channels, NEW p \in Channels,
           ServerAddChannel(c, p)
    PROVE  ServerLegal' /\ \E m : Announced(m)
<1> DEFINE m == [AboutChannel(c) EXCEPT !.parent = p, !.named = TRUE]
<1>1. /\ c \notin sUsed /\ p \in sChans /\ c \notin sChans /\ c # p
      /\ sParent' = [sParent EXCEPT ![c] = p] /\ sUsed' = sUsed \cup {c}
      /\ UNCHANGED <<sLinks, sIn, sFlags, loggedIn>>
      /\ Send(<<m>>)
  BY DEF ServerAddChannel, ServerLegal
<1>2. sChans' = sChans \cup {c}
  BY <1>1, ConstAssumption DEF sChans, ServerLegal, NowLegal
<1>3. c # Root
  BY <1>1, ConstAssumption DEF sChans, ServerLegal, NowLegal
<1>4. NowLegal'
  BY <1>1, <1>2, <1>3 DEF ServerLegal, NowLegal
<1>5. ServerLegal'
  BY <1>1, <1>2, <1>4 DEF ServerLegal, NowLegal
<1>6. AChannelState(m, c, p, TRUE, {}, {}, {})
  BY DEF AboutChannel, AChannelState
<1>7. m \in Message /\ AChannelState(m, c, p, TRUE, {}, {}, {})
  BY <1>6, ChangedFields DEF Message
<1> HIDE DEF m
<1>8. TellsAdded(m, Now, Now', c, p)
  BY <1>1, <1>7, NowFields DEF TellsAdded, SamePeople
<1>9. Announced(m)
  <2>1. m.type = "ChannelState"
    BY <1>7 DEF AChannelState
  <2>2. Tells(m, Now, Now')
    BY <1>8 DEF Tells, TellsOfChannel
  <2> QED
    BY <1>1, <1>7, <2>1, <2>2 DEF Announced, NamesMe
<1> QED
  BY <1>5, <1>9

LEMMA MoveIsAnnounced ==
    ASSUME ServerLegal, NEW c \in Channels, NEW p \in Channels,
           ServerMoveChannel(c, p)
    PROVE  ServerLegal' /\ \E m : Announced(m)
<1> DEFINE m == [AboutChannel(c) EXCEPT !.parent = p]
<1>1. /\ c \in sChans \ {Root} /\ p \in sChans /\ c \notin Upward(sParent, p)
      /\ sParent' = [sParent EXCEPT ![c] = p]
      /\ UNCHANGED <<sUsed, sLinks, sIn, sFlags, loggedIn>>
      /\ Send(<<m>>)
  BY DEF ServerMoveChannel
<1>2. sChans' = sChans
  BY <1>1, ConstAssumption DEF sChans, ServerLegal, NowLegal
<1>3. c # p
  BY <1>1, UpwardBegins
<1>4. NowLegal'
  BY <1>1, <1>2 DEF ServerLegal, NowLegal
<1>5. ServerLegal'
  BY <1>1, <1>2, <1>3, <1>4 DEF ServerLegal, NowLegal
<1>6. AChannelState(m, c, p, FALSE, {}, {}, {})
  BY DEF AboutChannel, AChannelState
<1>7. m \in Message /\ AChannelState(m, c, p, FALSE, {}, {}, {})
  BY <1>6, ChangedFields DEF Message
<1> HIDE DEF m
<1>8. TellsMoved(m, Now, Now', c, p)
  BY <1>1, <1>7, NowFields DEF TellsMoved, SamePeople
<1>9. Announced(m)
  <2>1. m.type = "ChannelState"
    BY <1>7 DEF AChannelState
  <2>2. Tells(m, Now, Now')
    BY <1>8 DEF Tells, TellsOfChannel
  <2> QED
    BY <1>1, <1>7, <2>1, <2>2 DEF Announced, NamesMe
<1> QED
  BY <1>5, <1>9

LEMMA RemovalIsAnnounced ==
    ASSUME ServerLegal, NEW c \in Channels, ServerRemoveChannel(c)
    PROVE  ServerLegal' /\ \E m : Announced(m)
<1> DEFINE m == [type |-> "ChannelRemove", chan |-> c]
<1>1. /\ c \in sChans \ {Root}
      /\ \A d \in Channels : sParent[d] # c
      /\ \A u \in Users : sIn[u] # c
      /\ sParent' = [sParent EXCEPT ![c] = None]
      /\ sLinks' = [d \in Channels |-> IF d = c THEN {} ELSE sLinks[d] \ {c}]
      /\ UNCHANGED <<sUsed, sIn, sFlags, loggedIn>>
      /\ Send(<<m>>)
  BY DEF ServerRemoveChannel
<1>2. sChans' = sChans \ {c}
  BY <1>1, ConstAssumption DEF sChans, ServerLegal, NowLegal
<1>3. NowLegal'
  <2>1. (\A d \in sChans : sParent[d] \in sChans)'
    <3>1. \A d \in sChans \ {c} : sParent[d] \in sChans \ {c} /\ sParent'[d] = sParent[d]
      BY <1>1 DEF ServerLegal, NowLegal, sChans
    <3> QED
      BY <1>2, <3>1
  <2>2. /\ (\A d \in Channels : sLinks[d] \subseteq sChans \ {d})'
        /\ (\A d \in Channels \ sChans : sLinks[d] = {})'
    BY <1>1, <1>2 DEF ServerLegal, NowLegal
  <2>3. /\ (sParent \in [Channels -> Channels \cup {None}])'
        /\ (sLinks \in [Channels -> SUBSET Channels])'
        /\ (sParent[Root] = Root)'
    BY <1>1, <1>2, ConstAssumption DEF ServerLegal, NowLegal
  <2>4. (\A u \in Users : /\ sIn[u] # None => sIn[u] \in sChans
                          /\ FlagsLegal(sFlags[u]))'
    BY <1>1, <1>2 DEF ServerLegal, NowLegal
  <2> QED
    BY <1>1, <2>1, <2>2, <2>3, <2>4 DEF ServerLegal, NowLegal
<1>4. ServerLegal'
  BY <1>1, <1>2, <1>3, ConstAssumption DEF ServerLegal, NowLegal, Symmetric
<1>5. m \in Message /\ m.type = "ChannelRemove" /\ m.chan = c
  BY DEF Message, RemovedMessage
<1> HIDE DEF m
<1>6. TellsRemoved(m, Now, Now', c)
  BY <1>1, <1>5, NowFields DEF TellsRemoved, SamePeople
<1>7. Announced(m)
  <2>1. Tells(m, Now, Now')
    BY <1>6 DEF Tells, TellsOfChannel
  <2> QED
    BY <1>1, <1>5, <2>1 DEF Announced, NamesMe
<1> QED
  BY <1>4, <1>7

LEMMA LinkIsAnnounced ==
    ASSUME ServerLegal, NEW c \in Channels, NEW d \in Channels, ServerLink(c, d)
    PROVE  ServerLegal' /\ \E m : Announced(m)
<1> DEFINE m == [AboutChannel(c) EXCEPT !.add = {d}]
<1>1. /\ c \in sChans /\ d \in sChans /\ d # c
      /\ sLinks' = [sLinks EXCEPT ![c] = @ \cup {d}, ![d] = @ \cup {c}]
      /\ UNCHANGED <<sParent, sUsed, sIn, sFlags, loggedIn>>
      /\ Send(<<m>>)
  BY DEF ServerLink
<1>2. sChans' = sChans
  BY <1>1 DEF sChans
<1>3. /\ sLinks' \in [Channels -> SUBSET Channels]
      /\ sLinks'[c] = sLinks[c] \cup {d} /\ sLinks'[d] = sLinks[d] \cup {c}
      /\ \A e \in Channels \ {c, d} : sLinks'[e] = sLinks[e]
  BY <1>1 DEF ServerLegal, NowLegal
<1>4. NowLegal'
  BY <1>1, <1>2, <1>3 DEF ServerLegal, NowLegal
<1>5. Symmetric(sLinks)'
  BY <1>1, <1>3 DEF ServerLegal, Symmetric
<1>6. ServerLegal'
  BY <1>1, <1>2, <1>4, <1>5 DEF ServerLegal
<1>7. AChannelState(m, c, None, FALSE, {}, {d}, {})
  BY DEF AboutChannel, AChannelState
<1>8. m \in Message /\ AChannelState(m, c, None, FALSE, {}, {d}, {})
  BY <1>7, ChangedFields DEF Message
<1> HIDE DEF m
<1>9. TellsLinked(m, Now, Now', c, d)
  BY <1>1, <1>3, <1>8, NowFields DEF TellsLinked, SamePeople
<1>10. Announced(m)
  <2>1. m.type = "ChannelState"
    BY <1>8 DEF AChannelState
  <2>2. Tells(m, Now, Now')
    BY <1>9 DEF Tells, TellsOfChannel
  <2> QED
    BY <1>1, <1>8, <2>1, <2>2 DEF Announced, NamesMe
<1> QED
  BY <1>6, <1>10

LEMMA UnlinkIsAnnounced ==
    ASSUME ServerLegal, NEW c \in Channels, NEW d \in Channels, ServerUnlink(c, d)
    PROVE  ServerLegal' /\ \E m : Announced(m)
<1> DEFINE m == [AboutChannel(c) EXCEPT !.remove = {d}]
<1>1. /\ c \in sChans /\ d \in sLinks[c] /\ d \in sChans /\ d # c
      /\ sLinks' = [sLinks EXCEPT ![c] = @ \ {d}, ![d] = @ \ {c}]
      /\ UNCHANGED <<sParent, sUsed, sIn, sFlags, loggedIn>>
      /\ Send(<<m>>)
  BY DEF ServerUnlink, ServerLegal, NowLegal
<1>2. sChans' = sChans
  BY <1>1 DEF sChans
<1>3. /\ sLinks' \in [Channels -> SUBSET Channels]
      /\ sLinks'[c] = sLinks[c] \ {d} /\ sLinks'[d] = sLinks[d] \ {c}
      /\ \A e \in Channels \ {c, d} : sLinks'[e] = sLinks[e]
  BY <1>1 DEF ServerLegal, NowLegal
<1>4. NowLegal'
  BY <1>1, <1>2, <1>3 DEF ServerLegal, NowLegal
<1>5. Symmetric(sLinks)'
  BY <1>1, <1>3 DEF ServerLegal, Symmetric
<1>6. ServerLegal'
  BY <1>1, <1>2, <1>4, <1>5 DEF ServerLegal
<1>7. AChannelState(m, c, None, FALSE, {}, {}, {d})
  BY DEF AboutChannel, AChannelState
<1>8. m \in Message /\ AChannelState(m, c, None, FALSE, {}, {}, {d})
  BY <1>7, ChangedFields DEF Message
<1> HIDE DEF m
<1>9. TellsUnlinked(m, Now, Now', c, d)
  BY <1>1, <1>3, <1>8, NowFields DEF TellsUnlinked, SamePeople
<1>10. Announced(m)
  <2>1. m.type = "ChannelState"
    BY <1>8 DEF AChannelState
  <2>2. Tells(m, Now, Now')
    BY <1>9 DEF Tells, TellsOfChannel
  <2> QED
    BY <1>1, <1>8, <2>1, <2>2 DEF Announced, NamesMe
<1> QED
  BY <1>6, <1>10

LEMMA JoinIsAnnounced ==
    ASSUME ServerLegal, NEW u \in Users, NEW c \in Channels, ServerJoin(u, c)
    PROVE  ServerLegal' /\ \E m : Announced(m)
<1> DEFINE m == UserState(u, ChannelField(c), {}, {}, TRUE)
<1>1. /\ u # Me /\ sIn[u] = None /\ c \in sChans
      /\ sIn' = [sIn EXCEPT ![u] = c]
      /\ sFlags' = [sFlags EXCEPT ![u] = {}]
      /\ UNCHANGED <<sParent, sUsed, sLinks, loggedIn>>
      /\ Send(<<m>>)
  BY DEF ServerJoin
<1>2. sChans' = sChans
  BY <1>1 DEF sChans
<1>3. /\ sIn' \in [Users -> Channels \cup {None}]
      /\ sFlags' \in [Users -> SUBSET Flags]
      /\ \A v \in Users : /\ sIn'[v] = IF v = u THEN c ELSE sIn[v]
                          /\ sFlags'[v] = IF v = u THEN {} ELSE sFlags[v]
  BY <1>1 DEF ServerLegal, NowLegal
<1>4. NowLegal'
  BY <1>1, <1>2, <1>3 DEF ServerLegal, NowLegal, FlagsLegal
<1>5. ServerLegal'
  BY <1>1, <1>2, <1>4 DEF ServerLegal
<1>6. ChannelField(c) \in Channels \cup {None}
  BY DEF ChannelField
<1>7. m \in Message /\ AUserState(m, u, ChannelField(c), {}, {}, TRUE)
  BY <1>6, UserStateIsMessage
<1> HIDE DEF m
<1>8. TellsJoined(m, Now, Now', u, c)
  BY <1>1, <1>3, <1>7, NowFields DEF TellsJoined, SameTree
<1>9. Announced(m)
  <2>1. m.type = "UserState" /\ m.user = u
    BY <1>7 DEF AUserState
  <2>2. Tells(m, Now, Now')
    BY <1>8 DEF Tells, TellsOfUser
  <2> QED
    BY <1>1, <1>7, <2>1, <2>2 DEF Announced, NamesMe
<1> QED
  BY <1>5, <1>9

LEMMA UserMoveIsAnnounced ==
    ASSUME ServerLegal, NEW u \in Users, NEW c \in Channels,
           sIn[u] # None, c \in sChans, sIn' = [sIn EXCEPT ![u] = c],
           Send(<<UserState(u, c, {}, {}, FALSE)>>),
           UNCHANGED <<sParent, sUsed, sLinks, sFlags, loggedIn>>
    PROVE  ServerLegal' /\ \E m : Announced(m)
<1> DEFINE m == UserState(u, c, {}, {}, FALSE)
<1>1. /\ sIn[u] # None /\ c \in sChans
      /\ sIn' = [sIn EXCEPT ![u] = c]
      /\ UNCHANGED <<sParent, sUsed, sLinks, sFlags, loggedIn>>
      /\ Send(<<m>>)
  OBVIOUS
<1>2. sChans' = sChans
  BY <1>1 DEF sChans
<1>3. /\ sIn' \in [Users -> Channels \cup {None}]
      /\ \A v \in Users : sIn'[v] = IF v = u THEN c ELSE sIn[v]
  BY <1>1 DEF ServerLegal, NowLegal
<1>4. ServerLegal'
  BY <1>1, <1>2, <1>3 DEF ServerLegal, NowLegal
<1>5. m \in Message /\ AUserState(m, u, c, {}, {}, FALSE)
  BY UserStateIsMessage
<1> HIDE DEF m
<1>6. TellsUserMoved(m, Now, Now', u, c)
  BY <1>1, <1>5, NowFields DEF TellsUserMoved, SameTree
<1>7. Announced(m)
  <2>1. m.type = "UserState" /\ ~m.named
    BY <1>5 DEF AUserState
  <2>2. Tells(m, Now, Now')
    BY <1>6 DEF Tells, TellsOfUser
  <2> QED
    BY <1>1, <1>5, <2>1, <2>2 DEF Announced, NamesMe
<1> QED
  BY <1>4, <1>7

LEMMA LeavingIsAnnounced ==
    ASSUME ServerLegal, NEW u \in Users, ServerLeave(u)
    PROVE  ServerLegal' /\ \E m : Announced(m)
<1> DEFINE m == [type |-> "UserRemove", user |-> u]
<1>1. /\ sIn[u] # None
      /\ sIn' = [sIn EXCEPT ![u] = None]
      /\ UNCHANGED <<sParent, sUsed, sLinks, sFlags, loggedIn>>
      /\ Send(<<m>>)
  BY DEF ServerLeave
<1>2. sChans' = sChans
  BY <1>1 DEF sChans
<1>3. /\ sIn' \in [Users -> Channels \cup {None}]
      /\ \A v \in Users : sIn'[v] = IF v = u THEN None ELSE sIn[v]
  BY <1>1 DEF ServerLegal, NowLegal
<1>4. ServerLegal'
  BY <1>1, <1>2, <1>3 DEF ServerLegal, NowLegal
<1>5. m \in Message /\ m.type = "UserRemove" /\ m.user = u
  BY DEF Message, LeftMessage
<1> HIDE DEF m
<1>6. TellsLeft(m, Now, Now', u)
  BY <1>1, <1>5, NowFields DEF TellsLeft, SameTree
<1>7. Announced(m)
  <2>1. Tells(m, Now, Now')
    BY <1>6 DEF Tells, TellsOfUser
  <2> QED
    BY <1>1, <1>5, <2>1 DEF Announced, NamesMe
<1> QED
  BY <1>4, <1>7

LEMMA FlagsAreAnnounced ==
    ASSUME ServerLegal, NEW u \in Users, NEW f \in FlagChanges, ServerSetFlags(u, f)
    PROVE  ServerLegal' /\ \E m : Announced(m)
<1> DEFINE m == UserState(u, None, f.on, f.off, FALSE)
<1>1. /\ sIn[u] # None
      /\ sFlags' = [sFlags EXCEPT ![u] = (@ \cup f.on) \ f.off]
      /\ UNCHANGED <<sParent, sUsed, sLinks, sIn, loggedIn>>
      /\ Send(<<m>>)
  BY DEF ServerSetFlags
<1>2. sChans' = sChans
  BY <1>1 DEF sChans
<1>3. /\ f.on \in SUBSET Flags /\ f.off \in SUBSET Flags
      /\ FlagsLegal(sFlags[u]) => FlagsLegal((sFlags[u] \cup f.on) \ f.off)
  BY DEF FlagChanges, Flags, FlagsLegal
<1>4. /\ sFlags' \in [Users -> SUBSET Flags]
      /\ \A v \in Users : sFlags'[v] = IF v = u THEN (sFlags[u] \cup f.on) \ f.off
                                       ELSE sFlags[v]
  BY <1>1, <1>3 DEF ServerLegal, NowLegal
<1>5. ServerLegal'
  BY <1>1, <1>2, <1>3, <1>4 DEF ServerLegal, NowLegal
<1>6. m \in Message /\ AUserState(m, u, None, f.on, f.off, FALSE)
  BY <1>3, UserStateIsMessage
<1> HIDE DEF m
<1>7. TellsFlags(m, Now, Now', u)
  BY <1>1, <1>6, NowFields DEF TellsFlags, SameTree
<1>8. Announced(m)
  <2>1. m.type = "UserState" /\ ~m.named
    BY <1>6 DEF AUserState
  <2>2. Tells(m, Now, Now')
    BY <1>7 DEF Tells, TellsOfUser
  <2> QED
    BY <1>1, <1>6, <2>1, <2>2 DEF Announced, NamesMe
<1> QED
  BY <1>5, <1>8

LEMMA AppendedMessage ==
    ASSUME inbox \in Seq(Message), NEW m \in Message, inbox' = inbox \o <<m>>
    PROVE  /\ inbox' \in Seq(Message) /\ Len(inbox) \in Nat
           /\ Len(inbox') = Len(inbox) + 1
           /\ \A i \in 1 .. Len(inbox) : inbox'[i] = inbox[i]
           /\ inbox'[Len(inbox) + 1] = m
<1>1. <<m>> \in Seq(Message) /\ Len(<<m>>) = 1 /\ <<m>>[1] = m
  OBVIOUS
<1>2. Len(inbox) \in Nat
  BY LenProperties
<1> QED
  BY <1>1, <1>2, ConcatProperties

(* The story goes on to the new state of the server. *)
LEMMA StoryGrows ==
    ASSUME inbox \in Seq(Message), NEW m \in Message, inbox' = inbox \o <<m>>,
           NowLegal', Tells(m, Now, Now'), NEW h, Story(h)
    PROVE  \E g : Story(g)' /\ g[1] = h[1]
<1> PICK n : n = Len(inbox)
  OBVIOUS
<1> PICK t : t = Now'
  OBVIOUS
<1> PICK g : g = [i \in 1 .. n + 2 |-> IF i = n + 2 THEN t ELSE h[i]]
  OBVIOUS
<1>1. /\ n \in Nat /\ Len(inbox') = n + 1
      /\ \A i \in 1 .. n : inbox'[i] = inbox[i]
      /\ inbox'[n + 1] = m
  BY AppendedMessage
<1>2. /\ h \in [1 .. n + 1 -> ServerState]
      /\ \A i \in 1 .. n + 1 : Legal(h[i])
      /\ \A i \in 1 .. n : Tells(inbox[i], h[i], h[i + 1])
      /\ h[n + 1] = Now
  BY DEF Story
<1>3. Legal(t) /\ t \in ServerState
  BY NowIsLegal DEF Legal
<1>4. /\ \A i \in 1 .. n + 1 : i \in 1 .. n + 2 /\ g[i] = h[i]
      /\ n + 2 \in 1 .. n + 2 /\ g[n + 2] = t
  BY <1>1
<1>5. g \in [1 .. n + 2 -> ServerState] /\ \A i \in 1 .. n + 2 : Legal(g[i])
  <2>1. \A i \in 1 .. n + 2 : i = n + 2 \/ i \in 1 .. n + 1
    BY <1>1
  <2>2. \A i \in 1 .. n + 2 : g[i] \in ServerState /\ Legal(g[i])
    BY <1>2, <1>3, <1>4, <2>1
  <2> QED
    BY <2>2
<1>6. ASSUME NEW i \in 1 .. n + 1 PROVE Tells(inbox'[i], g[i], g[i + 1])
  <2>1. CASE i = n + 1
    <3>1. i + 1 = n + 2 /\ i \in 1 .. n + 1
      BY <1>1, <2>1
    <3> QED
      BY <1>1, <1>2, <1>4, <2>1, <3>1
  <2>2. CASE i # n + 1
    <3>1. i \in 1 .. n /\ i + 1 \in 1 .. n + 1
      BY <1>1, <2>2
    <3> QED
      BY <1>1, <1>2, <1>4, <3>1
  <2> QED
    BY <2>1, <2>2
<1>7. Len(inbox') + 1 = n + 2 /\ 1 \in 1 .. n + 1
  BY <1>1
<1>8. Story(g)'
  <2>1. (\A i \in 1 .. Len(inbox) : Tells(inbox[i], g[i], g[i + 1]))'
    BY <1>1, <1>6
  <2>2. (g \in [1 .. Len(inbox) + 1 -> ServerState])'
    BY <1>5, <1>7
  <2>3. (\A i \in 1 .. Len(inbox) + 1 : Legal(g[i]))'
    BY <1>5, <1>7
  <2>4. (g[Len(inbox) + 1] = Now)'
    BY <1>4, <1>7
  <2> QED
    BY <2>1, <2>2, <2>3, <2>4 DEF Story
<1>9. g[1] = h[1]
  BY ONLY <1>4, <1>7
<1> QED
  BY ONLY <1>8, <1>9

LEMMA MirrorsUnchanged ==
    ASSUME NEW s, Mirrors(s), UNCHANGED <<chans, parent, linked, users, chanOf, flags>>
    PROVE  Mirrors(s)'
  BY DEF Mirrors, MirrorsTree, MirrorsLinks, MirrorsPeople

LEMMA AnnouncedKeepsIInv ==
    ASSUME IInv, phase = "live", ServerLegal', NEW m, Announced(m),
           UNCHANGED <<phase, tree, people, connectedUser, told, unchain>>
    PROVE  IInv'
<1>1. /\ UNCHANGED <<chans, parent, children, linked, moved, members, users, chanOf,
                     flags, audio, usersTold, pending, nparents>>
      /\ m \in Message /\ ~NamesMe(m) /\ m.type # "ServerSync"
      /\ Send(<<m>>) /\ loggedIn' = loggedIn
  BY DEF Announced, tree, people, told, unchain
<1>2. TreeInv' /\ NothingPending'
  BY <1>1, TreeUnchanged DEF IInv, NothingPending
<1>3. SilentUntilSync' /\ OthersKnowModel'
  BY <1>1 DEF IInv, People, SilentUntilSync, OthersKnowModel, UsersAnnounced,
     NeverMutedWithoutReason, Synced
<1>4. CASE loggedIn
  <2>1. inbox' = inbox \o <<m>>
    BY <1>1, <1>4 DEF Send
  <2>2. /\ inbox' \in Seq(Message) /\ Len(inbox) \in Nat
        /\ Len(inbox') = Len(inbox) + 1
        /\ \A i \in 1 .. Len(inbox) : inbox'[i] = inbox[i]
        /\ inbox'[Len(inbox) + 1] = m
    BY <1>1, <2>1, AppendedMessage DEF IInv, Typed
  <2>3. Typed'
    BY <1>1, <2>2 DEF IInv, Typed
  <2>4. Follows'
    <3>1. PICK h : Story(h) /\ Mirrors(h[1])
      BY <1>4 DEF IInv, Follows
    <3>2. PICK g : Story(g)' /\ g[1] = h[1]
      BY <1>1, <2>1, <3>1, StoryGrows DEF IInv, Typed, Announced, ServerLegal
    <3>3. Mirrors(g[1])'
      BY <1>1, <3>1, <3>2, MirrorsUnchanged
    <3> QED
      BY <1>1, <1>4, <3>2, <3>3 DEF Follows
  <2>5. MeAnnouncedFirst'
    <3> SUFFICES ASSUME NEW i \in 1 .. Len(inbox'), NamesMe(inbox'[i])
                 PROVE  /\ connectedUser' = None
                        /\ \A j \in 1 .. Len(inbox') :
                              inbox'[j].type = "ServerSync" => i < j
      BY DEF MeAnnouncedFirst, NamesMe
    <3>1. \A j \in 1 .. Len(inbox') : j = Len(inbox) + 1 \/ j \in 1 .. Len(inbox)
      BY <2>2
    <3>2. i \in 1 .. Len(inbox) /\ NamesMe(inbox[i])
      BY <1>1, <2>2, <3>1
    <3> QED
      BY <1>1, <2>2, <3>1, <3>2 DEF IInv, People, MeAnnouncedFirst
  <2> QED
    BY <1>2, <1>3, <2>3, <2>4, <2>5 DEF IInv, People
<1>5. CASE ~loggedIn
  <2>1. inbox' = inbox
    BY <1>1, <1>5 DEF Send
  <2>2. Typed'
    BY <1>1, <2>1 DEF IInv, Typed
  <2>3. Follows'
    BY <1>1, <1>5, <2>1 DEF IInv, Follows, Fresh
  <2>4. MeAnnouncedFirst'
    BY <1>1, <2>1 DEF IInv, People, MeAnnouncedFirst, NamesMe
  <2> QED
    BY <1>2, <1>3, <2>2, <2>3, <2>4 DEF IInv, People
<1> QED
  BY <1>4, <1>5

--------------------------------------------------------------------------------
(* The model is torn down. *)

LEMMA DeallocKeepsIInv ==
    ASSUME IInv, Dealloc
    PROVE  IInv'
<1>1. /\ phase' = "unchaining" /\ inbox' = <<>> /\ users' = {}
      /\ members' = [x \in Channels |-> IF x \in Downward(Root) THEN {} ELSE members[x]]
      /\ chanOf' = [u \in Users |->
             IF chanOf[u] \in Downward(Root) THEN None ELSE chanOf[u]]
      /\ pending' = chans /\ nparents' = FALSE
      /\ UNCHANGED <<sParent, sUsed, sLinks, sIn, sFlags, loggedIn, chans, parent,
                     children, linked, moved, flags, connectedUser, audio>>
  BY DEF Dealloc, server, tree, told
<1>2. Typed'
  <2>1. members' \in [Channels -> SUBSET Users] /\ chanOf' \in [Users -> Channels \cup {None}]
    BY <1>1 DEF IInv, Typed
  <2>2. <<>> \in Seq(Message)
    OBVIOUS
  <2> QED
    BY <1>1, <2>1, <2>2 DEF IInv, Typed
<1>3. NothingPending' /\ Follows' /\ OthersKnowModel'
  BY <1>1 DEF NothingPending, Follows, OthersKnowModel
<1>4. ServerLegal'
  BY <1>1 DEF IInv, ServerLegal, NowLegal, sChans
<1>5. TreeInv'
  BY <1>1 DEF IInv, TreeInv, RootHasNoParent, NoParents, TreeAgrees, RootReachesAll
<1>6. MeAnnouncedFirst'
  <2>1. Len(inbox') = 0
    BY <1>1
  <2> QED
    BY <2>1 DEF MeAnnouncedFirst
<1>7. SilentUntilSync'
  BY <1>1 DEF IInv, People, SilentUntilSync
<1> QED
  BY <1>2, <1>3, <1>4, <1>5, <1>6, <1>7 DEF IInv, People

(* What the steps of the teardown leave alone. *)
LEMMA TeardownKeeps ==
    ASSUME IInv, phase # "live", phase' # "live", inbox' = inbox,
           UNCHANGED <<server, connectedUser, told>>
    PROVE  /\ NothingPending' /\ Follows' /\ ServerLegal' /\ People'
           /\ RootHasNoParent' /\ NoParents' /\ RootReachesAll'
<1>1. NothingPending' /\ Follows' /\ OthersKnowModel'
  BY DEF NothingPending, Follows, OthersKnowModel
<1>2. ServerLegal'
  BY DEF IInv, ServerLegal, NowLegal, sChans, server
<1>3. MeAnnouncedFirst' /\ SilentUntilSync'
  BY DEF IInv, People, MeAnnouncedFirst, NamesMe, SilentUntilSync, told
<1>4. RootHasNoParent' /\ NoParents' /\ RootReachesAll'
  BY DEF RootHasNoParent, NoParents, RootReachesAll
<1> QED
  BY <1>1, <1>2, <1>3, <1>4 DEF People

LEMMA VisitKeepsIInv ==
    ASSUME IInv, NEW c \in Channels, VisitChannel(c)
    PROVE  IInv'
<1>1. /\ phase = "unchaining" /\ phase' = "unchaining" /\ inbox' = inbox
      /\ UNCHANGED <<server, connectedUser, told, chans, linked, moved, members,
                     users, chanOf, flags>>
      /\ pending' = pending \ {c}
  BY DEF VisitChannel, people
<1>2. \/ UNCHANGED <<parent, children>>
      \/ /\ parent[c] # None
         /\ children' = ChildrenWithout(c)
         /\ parent' = [parent EXCEPT ![c] = None]
  BY DEF VisitChannel
<1>3. nparents' \in BOOLEAN
  BY DEF VisitChannel, IInv, Typed
<1>4. /\ children' \in [Channels -> SUBSET Channels]
      /\ parent' \in [Channels -> Channels \cup {None}]
  BY <1>2, ChildrenWithoutType DEF IInv, Typed
<1>5. Typed'
  BY <1>1, <1>3, <1>4 DEF IInv, Typed, told
<1>6. TreeAgrees'
  <2>1. CASE UNCHANGED <<parent, children>>
    BY <1>1, <2>1 DEF IInv, TreeInv, TreeAgrees
  <2>2. CASE /\ parent[c] # None
             /\ children' = ChildrenWithout(c)
             /\ parent' = [parent EXCEPT ![c] = None]
    <3> SUFFICES ASSUME moved = {}, NEW x \in Channels, NEW p \in Channels
                 PROVE  (x \in children[p] <=> parent[x] = p)'
      BY <1>1 DEF TreeAgrees
    <3>1. x \in children[p] <=> parent[x] = p
      BY DEF IInv, TreeInv, TreeAgrees
    <3>2. children'[p] = IF p = parent[c] THEN children[p] \ {c} ELSE children[p]
      BY <2>2 DEF ChildrenWithout
    <3>3. parent'[x] = IF x = c THEN None ELSE parent[x]
      BY <2>2 DEF IInv, Typed
    <3> QED
      BY <3>1, <3>2, <3>3, ConstAssumption
  <2> QED
    BY <1>2, <2>1, <2>2
<1> QED
  BY <1>1, <1>5, <1>6, TeardownKeeps DEF IInv, TreeInv

LEMMA EndPassKeepsIInv ==
    ASSUME IInv, EndPass
    PROVE  IInv'
<1>1. /\ phase = "unchaining" /\ phase' \in {"unchaining", "dead"} /\ inbox' = inbox
      /\ UNCHANGED <<server, connectedUser, told, parent, children, linked, moved,
                     members, users, chanOf, flags>>
      /\ chans' \subseteq chans /\ pending' \subseteq chans' /\ nparents' = FALSE
  BY DEF EndPass, people
<1>2. Typed'
  BY <1>1 DEF IInv, Typed, told
<1>3. TreeAgrees'
  BY <1>1 DEF IInv, TreeInv, TreeAgrees
<1> QED
  BY <1>1, <1>2, <1>3, TeardownKeeps DEF IInv, TreeInv

LEMMA StutterKeepsIInv ==
    ASSUME IInv, UNCHANGED vars
    PROVE  IInv'
<1>1. /\ UNCHANGED <<server, inbox, phase, tree, people, connectedUser, told, unchain>>
      /\ UNCHANGED <<chans, parent, children, linked, moved, members, users, chanOf,
                     flags, audio, usersTold, pending, nparents>>
      /\ UNCHANGED <<sParent, sUsed, sLinks, sIn, sFlags, loggedIn>>
  BY DEF vars, server, tree, people, told, unchain
<1>2. Typed' /\ NothingPending' /\ ServerLegal'
  BY <1>1 DEF IInv, Typed, NothingPending, ServerLegal, NowLegal, sChans
<1>3. Follows'
  <2>1. Now' = Now
    BY <1>1 DEF Now
  <2>2. \A h : Story(h) => Story(h)'
    BY <1>1, <2>1 DEF Story
  <2>3. \A h : Mirrors(h[1]) => Mirrors(h[1])'
    BY <1>1, MirrorsUnchanged
  <2> QED
    BY <1>1, <2>2, <2>3 DEF IInv, Follows, Fresh
<1>4. TreeInv'
  <2>1. Downward(Root)' = Downward(Root)
    BY <1>1 DEF Downward
  <2> QED
    BY <1>1, <2>1 DEF IInv, TreeInv, RootHasNoParent, NoParents, TreeAgrees,
       RootReachesAll
<1>5. People'
  BY <1>1 DEF IInv, People, MeAnnouncedFirst, NamesMe, SilentUntilSync,
     OthersKnowModel, UsersAnnounced, NeverMutedWithoutReason, Synced
<1> QED
  BY <1>2, <1>3, <1>4, <1>5 DEF IInv

--------------------------------------------------------------------------------
(* Logging in.  The states of the story are those in which some channels,   *)
(* the links of some channels and some users have been announced.           *)
Partly(cs, ls, us, in) ==
    [par |-> [x \in Channels |-> IF x = Root \/ x \in cs THEN sParent[x] ELSE None],
     lnk |-> [x \in Channels |-> IF x \in ls THEN sLinks[x] ELSE {}],
     in |-> [u \in Users |-> IF u \in us THEN in[u] ELSE None],
     fl |-> sFlags]

LEMMA PartlyKnown ==
    ASSUME ServerLegal, NEW cs \in SUBSET sChans, NEW s,
           \A x \in Channels : s.par[x] = IF x = Root \/ x \in cs THEN sParent[x] ELSE None
    PROVE  Known(s) = cs \cup {Root}
<1>1. cs \subseteq Channels /\ \A x \in cs : sParent[x] # None
  BY DEF sChans
<1>2. sParent[Root] # None
  BY ConstAssumption DEF ServerLegal, NowLegal
<1> QED
  BY <1>1, <1>2, ConstAssumption DEF Known

(* Such a state is legal when parents were announced first, and all the     *)
(* channels before the links and the users.                                 *)
LEMMA PartlyIsLegal ==
    ASSUME ServerLegal, NEW cs \in SUBSET sChans, NEW ls \in SUBSET sChans,
           NEW in \in [Users -> Channels \cup {None}], NEW us \in SUBSET Users,
           \A x \in cs : sParent[x] \in cs \cup {Root},
           ls # {} \/ us # {} => cs = sChans,
           \A u \in us : in[u] \in sChans
    PROVE  Legal(Partly(cs, ls, us, in))
<1> PICK s : s = Partly(cs, ls, us, in)
  OBVIOUS
<1>1. /\ \A x \in Channels :
           /\ s.par[x] = IF x = Root \/ x \in cs THEN sParent[x] ELSE None
           /\ s.lnk[x] = IF x \in ls THEN sLinks[x] ELSE {}
      /\ \A u \in Users : s.in[u] = IF u \in us THEN in[u] ELSE None
      /\ s.fl = sFlags
      /\ Known(s) = cs \cup {Root}
  <2>1. /\ \A x \in Channels :
             /\ s.par[x] = IF x = Root \/ x \in cs THEN sParent[x] ELSE None
             /\ s.lnk[x] = IF x \in ls THEN sLinks[x] ELSE {}
        /\ \A u \in Users : s.in[u] = IF u \in us THEN in[u] ELSE None
        /\ s.fl = sFlags
    BY DEF Partly
  <2> QED
    BY <2>1, PartlyKnown
<1>2. s \in ServerState
  <2>1. [x \in Channels |-> IF x = Root \/ x \in cs THEN sParent[x] ELSE None]
            \in [Channels -> Channels \cup {None}]
    BY DEF ServerLegal, NowLegal
  <2>2. [x \in Channels |-> IF x \in ls THEN sLinks[x] ELSE {}]
            \in [Channels -> SUBSET Channels]
    BY DEF ServerLegal, NowLegal
  <2>3. [u \in Users |-> IF u \in us THEN in[u] ELSE None]
            \in [Users -> Channels \cup {None}]
    OBVIOUS
  <2>4. sFlags \in [Users -> SUBSET Flags]
    BY DEF ServerLegal, NowLegal
  <2> QED
    BY <2>1, <2>2, <2>3, <2>4 DEF Partly, ServerState
<1>3. TreeLegal(s)
  BY <1>1, ConstAssumption DEF TreeLegal, ServerLegal, NowLegal, sChans
<1>4. Root \in sChans
  BY ConstAssumption DEF sChans, ServerLegal, NowLegal
<1>5. LinksLegal(s)
  <2>1. ASSUME NEW x \in Channels
        PROVE  s.lnk[x] \subseteq Known(s) \ {x} /\ (x \notin Known(s) => s.lnk[x] = {})
    <3>1. CASE x \in ls
      BY <1>1, <1>4, <3>1 DEF ServerLegal, NowLegal
    <3>2. CASE x \notin ls
      BY <1>1, <3>2
    <3> QED
      BY <3>1, <3>2
  <2> QED
    BY <2>1 DEF LinksLegal
<1>6. PeopleLegal(s)
  <2>1. ASSUME NEW u \in Users
        PROVE  (s.in[u] # None => s.in[u] \in Known(s)) /\ FlagsLegal(s.fl[u])
    <3>1. FlagsLegal(s.fl[u])
      BY <1>1 DEF ServerLegal, NowLegal
    <3>2. CASE u \in us
      BY <1>1, <1>4, <3>1, <3>2
    <3>3. CASE u \notin us
      BY <1>1, <3>1, <3>3
    <3> QED
      BY <3>2, <3>3
  <2> QED
    BY <2>1 DEF PeopleLegal
<1> QED
  BY <1>2, <1>3, <1>5, <1>6 DEF Legal

(* Every message of the login tells of one more. *)
LEMMA PlaceTells ==
    ASSUME ServerLegal, NEW cs \in SUBSET sChans, NEW x \in sChans \ cs, NEW in,
           sParent[x] \in cs \cup {Root}
    PROVE  /\ Place(x) \in Message /\ Place(x).type = "ChannelState"
           /\ Tells(Place(x), Partly(cs, {}, {}, in), Partly(cs \cup {x}, {}, {}, in))
<1> PICK s : s = Partly(cs, {}, {}, in)
  OBVIOUS
<1> PICK t : t = Partly(cs \cup {x}, {}, {}, in)
  OBVIOUS
<1> PICK p : p = IF x = Root THEN None ELSE sParent[x]
  OBVIOUS
<1>1. x \in Channels /\ p \in Channels \cup {None}
  BY DEF sChans, ServerLegal, NowLegal
<1>2. Place(x) = [AboutChannel(x) EXCEPT !.named = TRUE, !.parent = p]
  BY DEF Place
<1>3. Place(x) \in ChannelMessage /\ AChannelState(Place(x), x, p, TRUE, {}, {}, {})
  <2>1. Place(x) \in ChannelMessage
    <3>1. [AboutChannel(x) EXCEPT !.named = TRUE, !.parent = p] \in ChannelMessage
      BY <1>1, ConstAssumption, ChangedFields
    <3> QED
      BY <1>2, <3>1
  <2>2. AChannelState(Place(x), x, p, TRUE, {}, {}, {})
    BY <1>2 DEF AboutChannel, AChannelState
  <2> QED
    BY <2>1, <2>2
<1>4. Place(x) \in Message /\ Place(x).type = "ChannelState"
  BY <1>3 DEF Message, AChannelState
<1>5. SamePeople(s, t) /\ t.lnk = s.lnk
  BY DEF Partly, SamePeople
<1>6. Known(s) = cs \cup {Root}
  <2>1. \A y \in Channels : s.par[y] = IF y = Root \/ y \in cs THEN sParent[y] ELSE None
    BY DEF Partly
  <2> QED
    BY <2>1, PartlyKnown
<1>7. CASE x = Root
  <2>1. t.par = s.par
    BY <1>7 DEF Partly
  <2>2. TellsOfRoot(Place(x), s, t)
    BY <1>3, <1>5, <1>7, <2>1 DEF TellsOfRoot, SameTree
  <2> QED
    BY <1>4, <2>2 DEF Tells, TellsOfChannel
<1>8. CASE x # Root
  <2>1. t.par = [s.par EXCEPT ![x] = p]
    BY <1>1, <1>8 DEF Partly
  <2>2. p \in Known(s) /\ p \in Channels
    BY <1>6, <1>8, ConstAssumption DEF sChans
  <2>3. TellsAdded(Place(x), s, t, x, p)
    BY <1>3, <1>5, <1>6, <1>8, <2>1, <2>2 DEF TellsAdded
  <2> QED
    BY <1>1, <1>4, <2>2, <2>3 DEF Tells, TellsOfChannel
<1> QED
  BY <1>7, <1>8

LEMMA LinksTell ==
    ASSUME ServerLegal, NEW ls \in SUBSET sChans, NEW x \in sChans, NEW in
    PROVE  /\ Links(x) \in Message /\ Links(x).type = "ChannelState"
           /\ Tells(Links(x), Partly(sChans, ls, {}, in),
                              Partly(sChans, ls \cup {x}, {}, in))
<1> PICK s : s = Partly(sChans, ls, {}, in)
  OBVIOUS
<1> PICK t : t = Partly(sChans, ls \cup {x}, {}, in)
  OBVIOUS
<1>1. x \in Channels /\ sLinks[x] \in SUBSET Channels
  BY DEF sChans, ServerLegal, NowLegal
<1>2. /\ Links(x) \in ChannelMessage
      /\ AChannelState(Links(x), x, None, FALSE, sLinks[x], {}, {})
  <2>1. AboutChannel(x) \in ChannelMessage
    BY <1>1, ChangedFields
  <2>2. Links(x) \in ChannelMessage
    BY <1>1, <2>1 DEF Links, ChannelMessage
  <2> QED
    BY <2>2 DEF Links, AboutChannel, AChannelState
<1>3. Links(x) \in Message /\ Links(x).type = "ChannelState"
  BY <1>2 DEF Message, AChannelState
<1>4. SamePeople(s, t) /\ t.par = s.par
  BY DEF Partly, SamePeople
<1>5. /\ Known(s) = sChans \cup {Root}
      /\ \A d \in Channels : s.lnk[d] = IF d \in ls THEN sLinks[d] ELSE {}
  <2>1. /\ \A y \in Channels : s.par[y] = IF y = Root \/ y \in sChans THEN sParent[y]
                                         ELSE None
        /\ \A d \in Channels : s.lnk[d] = IF d \in ls THEN sLinks[d] ELSE {}
    BY DEF Partly
  <2> QED
    BY <2>1, PartlyKnown
<1>6. \A d \in Channels : t.lnk[d] = IF d \in ls \cup {x} THEN sLinks[d] ELSE {}
  BY DEF Partly
<1>7. ASSUME NEW d \in Channels \ {x}
      PROVE  t.lnk[d] = s.lnk[d] /\ (x \in s.lnk[d] => d \in t.lnk[x])
  <2>1. t.lnk[d] = s.lnk[d] /\ t.lnk[x] = sLinks[x]
    BY <1>1, <1>5, <1>6
  <2>2. x \in s.lnk[d] => x \in sLinks[d]
    BY <1>5
  <2> QED
    BY <1>1, <2>1, <2>2 DEF ServerLegal, Symmetric
<1>8. TellsLinks(Links(x), s, t, x)
  BY <1>1, <1>2, <1>4, <1>5, <1>6, <1>7 DEF TellsLinks
<1> QED
  BY <1>1, <1>3, <1>8 DEF Tells, TellsOfChannel

LEMMA ProfileTells ==
    ASSUME ServerLegal, NEW in \in [Users -> Channels \cup {None}],
           NEW us \in SUBSET Users, NEW u \in Users \ us, in[u] \in sChans
    PROVE  /\ Profile(u, in) \in Message
           /\ Profile(u, in).type = "UserState" /\ Profile(u, in).user = u
           /\ Tells(Profile(u, in), Partly(sChans, sChans, us, in),
                                    Partly(sChans, sChans, us \cup {u}, in))
<1> PICK s : s = Partly(sChans, sChans, us, in)
  OBVIOUS
<1> PICK t : t = Partly(sChans, sChans, us \cup {u}, in)
  OBVIOUS
<1> PICK c : c = in[u]
  OBVIOUS
<1>1. c \in Channels /\ c # None /\ sFlags[u] \in SUBSET Flags
  BY ConstAssumption DEF sChans, ServerLegal, NowLegal
<1>2. ChannelField(c) \in Channels \cup {None}
  BY <1>1 DEF ChannelField
<1>3. /\ Profile(u, in) \in Message
      /\ AUserState(Profile(u, in), u, ChannelField(c), sFlags[u], {}, TRUE)
  BY <1>1, <1>2, UserStateIsMessage DEF Profile
<1>4. Profile(u, in).type = "UserState" /\ Profile(u, in).user = u
  BY <1>3 DEF AUserState
<1>5. /\ Known(s) = sChans \cup {Root} /\ s.fl = sFlags
      /\ \A v \in Users : s.in[v] = IF v \in us THEN in[v] ELSE None
  <2>1. /\ \A y \in Channels : s.par[y] = IF y = Root \/ y \in sChans THEN sParent[y]
                                         ELSE None
        /\ s.fl = sFlags
        /\ \A v \in Users : s.in[v] = IF v \in us THEN in[v] ELSE None
    BY DEF Partly
  <2> QED
    BY <2>1, PartlyKnown
<1>6. t.fl = sFlags
  BY DEF Partly
<1>7. t.in = [s.in EXCEPT ![u] = c]
  BY DEF Partly
<1>8. SameTree(s, t)
  BY DEF Partly, SameTree
<1>9. TellsJoined(Profile(u, in), s, t, u, c)
  BY <1>1, <1>3, <1>5, <1>6, <1>7, <1>8 DEF TellsJoined
<1> QED
  BY <1>1, <1>3, <1>4, <1>9 DEF Tells, TellsOfUser

(* What is listed before place i. *)
Earlier(s, i) == {s[j] : j \in {k \in DOMAIN s : k < i}}

(* s lists the n elements of S, each once.                                  *)
Lists(s, S, n) ==
    /\ n \in Nat /\ DOMAIN s = 1 .. n /\ s \in [1 .. n -> S]
    /\ \A i \in 1 .. n : \A j \in 1 .. n : i # j => s[i] # s[j]
    /\ \A x \in S : \E i \in 1 .. n : s[i] = x

(* What is listed grows by one element from place to place. *)
Grows(s, S, n) ==
    /\ Earlier(s, 1) = {} /\ Earlier(s, n + 1) = S
    /\ \A i \in Int : Earlier(s, i) \subseteq S
    /\ \A i \in 1 .. n : /\ s[i] \in S \ Earlier(s, i)
                         /\ Earlier(s, i + 1) = Earlier(s, i) \cup {s[i]}

LEMMA ListingsAreComplete ==
    ASSUME NEW S, IsFiniteSet(S), NEW s \in Listings(S), NEW n, n = Cardinality(S)
    PROVE  Lists(s, S, n)
<1>1. n \in Nat
  BY FS_CardinalityType
<1>2. /\ s \in [1 .. n -> S] /\ DOMAIN s = 1 .. n
      /\ \A i \in 1 .. n : \A j \in 1 .. n : i # j => s[i] # s[j]
  BY DEF Listings
<1>3. s \in Injection(1 .. n, S)
  BY <1>2 DEF Injection, IsInjective
<1>4. IsFiniteSet(1 .. n) /\ Cardinality(1 .. n) = n
  <2>1. 1 \in Int /\ n \in Int
    BY <1>1
  <2>2. IsFiniteSet(1 .. n) /\ Cardinality(1 .. n) = IF 1 > n THEN 0 ELSE n - 1 + 1
    BY <2>1, FS_Interval
  <2> QED
    BY <1>1, <2>2
<1>5. s \in Surjection(1 .. n, S)
  BY <1>3, <1>4, FS_Injection
<1> QED
  BY <1>1, <1>2, <1>5 DEF Surjection, Lists

LEMMA EarlierGrows ==
    ASSUME NEW S, NEW n, NEW s, Lists(s, S, n)
    PROVE  Grows(s, S, n)
<1> USE DEF Lists
<1>1. \A i \in Int : \A x : x \in Earlier(s, i) <=> \E j \in 1 .. n : j < i /\ x = s[j]
  BY DEF Earlier
<1>2. Earlier(s, 1) = {}
  BY <1>1
<1>3. \A i \in Int : Earlier(s, i) \subseteq S
  BY <1>1
<1>4. Earlier(s, n + 1) = S
  <2>1. n + 1 \in Int /\ \A j \in 1 .. n : j < n + 1
    OBVIOUS
  <2>2. S \subseteq Earlier(s, n + 1)
    BY <1>1, <2>1
  <2> QED
    BY <1>3, <2>1, <2>2
<1>5. ASSUME NEW i \in 1 .. n
      PROVE  /\ s[i] \in S \ Earlier(s, i)
             /\ Earlier(s, i + 1) = Earlier(s, i) \cup {s[i]}
  <2>1. i \in Int /\ i + 1 \in Int
    OBVIOUS
  <2>2. s[i] \in S \ Earlier(s, i)
    BY <1>1, <2>1
  <2>3. \A x : x \in Earlier(s, i + 1) <=> x \in Earlier(s, i) \/ x = s[i]
    <3> TAKE x
    <3>1. x \in Earlier(s, i + 1) <=> \E j \in 1 .. n : j < i + 1 /\ x = s[j]
      BY <1>1, <2>1
    <3>2. x \in Earlier(s, i) <=> \E j \in 1 .. n : j < i /\ x = s[j]
      BY <1>1, <2>1
    <3> QED
      BY <3>1, <3>2
  <2> QED
    BY <2>2, <2>3
<1> QED
  BY <1>2, <1>3, <1>4, <1>5 DEF Grows

(* A parent is listed before its channels. *)
LEMMA ParentsAreEarlier ==
    ASSUME ServerLegal, NEW n, NEW cs, Lists(cs, sChans, n), ParentsFirst(cs)
    PROVE  \A i \in 1 .. n : sParent[cs[i]] \in Earlier(cs, i) \cup {Root}
<1> USE DEF Lists
<1> SUFFICES ASSUME NEW i \in 1 .. n, sParent[cs[i]] # Root
             PROVE  sParent[cs[i]] \in Earlier(cs, i)
  OBVIOUS
<1>1. cs[i] \in sChans /\ cs[i] \in Channels /\ cs[i] # Root
  BY DEF ServerLegal, NowLegal, sChans
<1>2. sParent[cs[i]] \in sChans /\ sParent[cs[i]] \in Channels /\ sParent[cs[i]] # cs[i]
  BY <1>1 DEF ServerLegal, NowLegal, sChans
<1>3. sParent[cs[i]] \in Upward(sParent, cs[i])
  BY <1>1, <1>2, UpwardBegins
<1>4. PICK j \in 1 .. n : cs[j] = sParent[cs[i]]
  BY <1>2
<1>5. j # i /\ ~(i < j)
  BY <1>2, <1>3, <1>4 DEF ParentsFirst
<1>6. j < i
  BY <1>5
<1> QED
  BY <1>4, <1>6 DEF Earlier

LEMMA EarlierIsClosed ==
    ASSUME NEW n, NEW S, NEW cs, Lists(cs, S, n),
           \A i \in 1 .. n : sParent[cs[i]] \in Earlier(cs, i) \cup {Root}
    PROVE  \A i \in Int : \A x \in Earlier(cs, i) :
               sParent[x] \in Earlier(cs, i) \cup {Root}
<1> SUFFICES ASSUME NEW i \in Int, NEW x \in Earlier(cs, i), sParent[x] # Root
             PROVE  sParent[x] \in Earlier(cs, i)
  OBVIOUS
<1> USE DEF Lists
<1>1. PICK j \in 1 .. n : j < i /\ x = cs[j]
  BY DEF Earlier
<1>2. sParent[x] \in Earlier(cs, j)
  BY <1>1
<1>3. PICK l \in 1 .. n : l < j /\ sParent[x] = cs[l]
  BY <1>2 DEF Earlier
<1>4. l < i
  BY <1>1, <1>3
<1> QED
  BY <1>3, <1>4 DEF Earlier

(* The messages of the login, by their places. *)
InFour(q, a, b, d, m, n, k) ==
    /\ q \in Seq(Message) /\ Len(q) = n + n + k + 1
    /\ \A i \in 1 .. n : q[i] = a[i] /\ q[n + i] = b[i]
    /\ \A i \in 1 .. k : q[n + n + i] = d[i]
    /\ q[n + n + k + 1] = m

LEMMA LoginInbox ==
    ASSUME NEW n \in Nat, NEW k \in Nat, NEW a \in Seq(Message), NEW b \in Seq(Message),
           NEW d \in Seq(Message), NEW m \in Message,
           Len(a) = n, Len(b) = n, Len(d) = k, NEW q, q = a \o b \o d \o <<m>>
    PROVE  InFour(q, a, b, d, m, n, k)
<1> PICK ab : ab = a \o b
  OBVIOUS
<1> PICK abd : abd = ab \o d
  OBVIOUS
<1>1. /\ ab \in Seq(Message) /\ Len(ab) = n + n
      /\ \A i \in 1 .. n + n : ab[i] = IF i <= n THEN a[i] ELSE b[i - n]
  BY ConcatProperties
<1>2. /\ abd \in Seq(Message) /\ Len(abd) = n + n + k
      /\ \A i \in 1 .. n + n + k :
            abd[i] = IF i <= n + n THEN ab[i] ELSE d[i - (n + n)]
  <2>1. /\ abd \in Seq(Message) /\ Len(abd) = Len(ab) + Len(d)
        /\ \A i \in 1 .. Len(ab) + Len(d) :
              abd[i] = IF i <= Len(ab) THEN ab[i] ELSE d[i - Len(ab)]
    BY <1>1, ConcatProperties
  <2>2. Len(ab) = n + n /\ Len(ab) + Len(d) = n + n + k
    BY <1>1
  <2> QED
    BY <2>1, <2>2
<1>3. <<m>> \in Seq(Message) /\ Len(<<m>>) = 1 /\ <<m>>[1] = m
  OBVIOUS
<1>4. q = abd \o <<m>>
  OBVIOUS
<1>5. /\ q \in Seq(Message) /\ Len(q) = n + n + k + 1
      /\ \A i \in 1 .. n + n + k + 1 :
            q[i] = IF i <= n + n + k THEN abd[i] ELSE <<m>>[i - (n + n + k)]
  <2> PICK one : one = <<m>>
    OBVIOUS
  <2>1. one \in Seq(Message) /\ Len(one) = 1 /\ q = abd \o one
    BY <1>3, <1>4
  <2>2. /\ q \in Seq(Message) /\ Len(q) = Len(abd) + Len(one)
        /\ \A i \in 1 .. Len(abd) + Len(one) :
              q[i] = IF i <= Len(abd) THEN abd[i] ELSE one[i - Len(abd)]
    <3>1. abd \in Seq(Message) /\ one \in Seq(Message)
      BY <1>2, <2>1
    <3>2. /\ abd \o one \in Seq(Message) /\ Len(abd \o one) = Len(abd) + Len(one)
          /\ \A i \in 1 .. Len(abd) + Len(one) :
                (abd \o one)[i] = IF i <= Len(abd) THEN abd[i] ELSE one[i - Len(abd)]
      BY ONLY <3>1, ConcatProperties
    <3> QED
      BY ONLY <2>1, <3>2
  <2>3. Len(abd) = n + n + k /\ Len(abd) + Len(one) = n + n + k + 1
    BY <1>2, <2>1
  <2> QED
    BY <2>2, <2>3
<1>6. ASSUME NEW i \in 1 .. n PROVE q[i] = a[i] /\ q[n + i] = b[i]
  <2>1. /\ i \in 1 .. n + n + k + 1 /\ i \in 1 .. n + n + k /\ i \in 1 .. n + n
        /\ i <= n + n + k /\ i <= n + n /\ i <= n
    OBVIOUS
  <2>2. q[i] = a[i]
    BY <1>1, <1>2, <1>5, <2>1
  <2>3. /\ n + i \in 1 .. n + n + k + 1 /\ n + i \in 1 .. n + n + k /\ n + i \in 1 .. n + n
        /\ n + i <= n + n + k /\ n + i <= n + n /\ ~(n + i <= n) /\ n + i - n = i
    OBVIOUS
  <2>4. q[n + i] = b[i]
    BY <1>1, <1>2, <1>5, <2>3
  <2> QED
    BY <2>2, <2>4
<1>7. ASSUME NEW i \in 1 .. k PROVE q[n + n + i] = d[i]
  <2>1. /\ n + n + i \in 1 .. n + n + k + 1 /\ n + n + i \in 1 .. n + n + k
        /\ n + n + i <= n + n + k /\ ~(n + n + i <= n + n) /\ n + n + i - (n + n) = i
    OBVIOUS
  <2>2. q[n + n + i] = abd[n + n + i]
    BY <1>5, <2>1
  <2>3. abd[n + n + i] = d[n + n + i - (n + n)]
    <3>1. PICK j : j = n + n + i
      OBVIOUS
    <3>2. j \in 1 .. n + n + k /\ ~(j <= n + n)
      BY ONLY <2>1, <3>1
    <3>3. abd[j] = IF j <= n + n THEN ab[j] ELSE d[j - (n + n)]
      BY ONLY <1>2, <3>2
    <3>4. abd[j] = d[j - (n + n)]
      BY ONLY <3>2, <3>3
    <3> QED
      BY ONLY <3>1, <3>4
  <2> QED
    BY <2>1, <2>2, <2>3
<1>8. q[n + n + k + 1] = m
  <2>1. /\ n + n + k + 1 \in 1 .. n + n + k + 1 /\ ~(n + n + k + 1 <= n + n + k)
        /\ n + n + k + 1 - (n + n + k) = 1
    OBVIOUS
  <2> QED
    BY <1>3, <1>5, <2>1
<1> QED
  BY <1>5, <1>6, <1>7, <1>8 DEF InFour

(* The states of the login, message by message. *)
LoginStory(h, cs, us, n, k, U, in) ==
    /\ h \in [1 .. n + n + k + 2 -> ServerState]
    /\ \A i \in 1 .. n + n + k + 2 : Legal(h[i])
    /\ \A i \in 1 .. n : Tells(Place(cs[i]), h[i], h[i + 1])
    /\ \A i \in 1 .. n : Tells(Links(cs[i]), h[n + i], h[n + i + 1])
    /\ \A i \in 1 .. k : Tells(Profile(us[i], in), h[n + n + i], h[n + n + i + 1])
    /\ \A m : m.type = "ServerSync" /\ m.user = Me =>
                 Tells(m, h[n + n + k + 1], h[n + n + k + 2])
    /\ h[1] = Partly({}, {}, {}, in)
    /\ h[n + n + k + 2] = Partly(sChans, sChans, U, in)

LEMMA LoginStates ==
    ASSUME ServerLegal, NEW n \in Nat, NEW k \in Nat, NEW U \in SUBSET Users,
           NEW in \in [Users -> Channels \cup {None}],
           NEW cs, NEW us, \A u \in U : in[u] \in sChans, Me \in U,
           Grows(cs, sChans, n), Grows(us, U, k),
           \A i \in 1 .. n : sParent[cs[i]] \in Earlier(cs, i) \cup {Root},
           \A i \in Int : \A x \in Earlier(cs, i) :
                sParent[x] \in Earlier(cs, i) \cup {Root}
    PROVE  \E h : LoginStory(h, cs, us, n, k, U, in)
<1> USE DEF Grows
<1> PICK A : A = [i \in 1 .. n + 1 |-> Partly(Earlier(cs, i), {}, {}, in)]
  OBVIOUS
<1> PICK B : B = [i \in 1 .. n + 1 |-> Partly(sChans, Earlier(cs, i), {}, in)]
  OBVIOUS
<1> PICK D : D = [i \in 1 .. k + 1 |-> Partly(sChans, sChans, Earlier(us, i), in)]
  OBVIOUS
<1> PICK last : last = Partly(sChans, sChans, U, in)
  OBVIOUS
<1> PICK h : h = [i \in 1 .. n + n + k + 2 |->
                    IF i <= n + 1 THEN A[i] ELSE IF i <= n + n + 1 THEN B[i - n]
                    ELSE IF i <= n + n + k + 1 THEN D[i - (n + n)] ELSE last]
  OBVIOUS
<1>1. /\ \A i \in 1 .. n + 1 : A[i] = Partly(Earlier(cs, i), {}, {}, in)
      /\ \A i \in 1 .. n + 1 : B[i] = Partly(sChans, Earlier(cs, i), {}, in)
      /\ \A i \in 1 .. k + 1 : D[i] = Partly(sChans, sChans, Earlier(us, i), in)
  OBVIOUS
<1>2. \A x \in sChans : sParent[x] \in sChans \cup {Root}
  BY DEF ServerLegal, NowLegal
<1>3. /\ \A i \in 1 .. n + 1 : Legal(A[i]) /\ Legal(B[i])
      /\ \A i \in 1 .. k + 1 : Legal(D[i])
      /\ Legal(last)
  <2>1. ASSUME NEW i \in 1 .. n + 1 PROVE Legal(A[i]) /\ Legal(B[i])
    <3>1. i \in Int
      OBVIOUS
    <3>2. Earlier(cs, i) \in SUBSET sChans /\ {} \in SUBSET Users
      BY <3>1
    <3>3. Legal(Partly(Earlier(cs, i), {}, {}, in))
      BY <3>1, <3>2, PartlyIsLegal
    <3>4. Legal(Partly(sChans, Earlier(cs, i), {}, in))
      BY <1>2, <3>2, PartlyIsLegal
    <3> QED
      BY <1>1, <3>3, <3>4
  <2>2. ASSUME NEW i \in 1 .. k + 1 PROVE Legal(D[i])
    <3>1. i \in Int
      OBVIOUS
    <3>2. Earlier(us, i) \in SUBSET Users /\ \A u \in Earlier(us, i) : in[u] \in sChans
      BY <3>1
    <3>3. Legal(Partly(sChans, sChans, Earlier(us, i), in))
      BY <1>2, <3>2, PartlyIsLegal
    <3> QED
      BY <1>1, <3>3
  <2>3. Legal(last)
    BY <1>2, PartlyIsLegal
  <2> QED
    BY <2>1, <2>2, <2>3
<1>4. A[n + 1] = B[1] /\ B[n + 1] = D[1] /\ D[k + 1] = last
  <2>1. n + 1 \in 1 .. n + 1 /\ 1 \in 1 .. n + 1 /\ 1 \in 1 .. k + 1 /\ k + 1 \in 1 .. k + 1
    OBVIOUS
  <2> QED
    BY <1>1, <2>1
<1>5. /\ \A i \in 1 .. n + 1 : h[i] = A[i]
      /\ \A i \in 1 .. n + 1 : h[n + i] = B[i]
      /\ \A i \in 1 .. k + 1 : h[n + n + i] = D[i]
      /\ h[n + n + k + 2] = last
  <2>1. ASSUME NEW i \in 1 .. n + 1 PROVE h[i] = A[i]
    BY <2>1
  <2>2. ASSUME NEW i \in 1 .. n + 1 PROVE h[n + i] = B[i]
    <3> PICK j : j = n + i
      OBVIOUS
    <3>1. j \in 1 .. n + n + k + 2 /\ j <= n + n + 1 /\ j - n = i
      OBVIOUS
    <3>2. CASE i = 1
      <4>1. j \in 1 .. n + 1 /\ j = n + 1
        BY <3>2
      <4> QED
        BY <1>4, <2>1, <3>2, <4>1
    <3>3. CASE i # 1
      <4>1. ~(j <= n + 1)
        BY <3>3
      <4>2. h[j] = B[j - n]
        BY <3>1, <4>1
      <4> QED
        BY <3>1, <4>2
    <3> QED
      BY <3>2, <3>3
  <2>3. ASSUME NEW i \in 1 .. k + 1 PROVE h[n + n + i] = D[i]
    <3> PICK j : j = n + n + i
      OBVIOUS
    <3>1. j \in 1 .. n + n + k + 2 /\ j <= n + n + k + 1 /\ j - (n + n) = i
      OBVIOUS
    <3>2. CASE i = 1
      <4>1. n + 1 \in 1 .. n + 1 /\ j = n + (n + 1)
        BY <3>2
      <4>2. h[n + (n + 1)] = B[n + 1]
        BY <2>2, <4>1
      <4> QED
        BY <1>4, <3>2, <4>1, <4>2
    <3>3. CASE i # 1
      <4>1. ~(j <= n + 1) /\ ~(j <= n + n + 1)
        BY <3>3
      <4>2. h[j] = D[j - (n + n)]
        BY <3>1, <4>1
      <4> QED
        BY <3>1, <4>2
    <3> QED
      BY <3>2, <3>3
  <2>4. h[n + n + k + 2] = last
    <3> PICK j : j = n + n + k + 2
      OBVIOUS
    <3>1. /\ j \in 1 .. n + n + k + 2
          /\ ~(j <= n + 1) /\ ~(j <= n + n + 1) /\ ~(j <= n + n + k + 1)
      OBVIOUS
    <3>2. h[j] = last
      BY <3>1
    <3> QED
      BY <3>2
  <2> QED
    BY <2>1, <2>2, <2>3, <2>4
<1>6. \A i \in 1 .. n + n + k + 2 : Legal(h[i])
  <2> TAKE i \in 1 .. n + n + k + 2
  <2>1. CASE i <= n + 1
    <3>1. i \in 1 .. n + 1
      BY <2>1
    <3> QED
      BY <1>3, <1>5, <3>1
  <2>2. CASE ~(i <= n + 1) /\ i <= n + n + 1
    <3>1. i - n \in 1 .. n + 1 /\ n + (i - n) = i
      BY <2>2
    <3>2. h[n + (i - n)] = B[i - n]
      BY <1>5, <3>1
    <3> QED
      BY <1>3, <3>1, <3>2
  <2>3. CASE ~(i <= n + n + 1) /\ i <= n + n + k + 1
    <3>1. i - (n + n) \in 1 .. k + 1 /\ n + n + (i - (n + n)) = i
      BY <2>3
    <3>2. h[n + n + (i - (n + n))] = D[i - (n + n)]
      BY <1>5, <3>1
    <3> QED
      BY <1>3, <3>1, <3>2
  <2>4. CASE ~(i <= n + n + k + 1)
    <3>1. i = n + n + k + 2
      BY <2>4
    <3> QED
      BY <1>3, <1>5, <3>1
  <2> QED
    BY <2>1, <2>2, <2>3, <2>4
<1>7. h \in [1 .. n + n + k + 2 -> ServerState]
  <2>1. \A i \in 1 .. n + n + k + 2 : h[i] \in ServerState
    BY <1>6 DEF Legal
  <2>2. DOMAIN h = 1 .. n + n + k + 2 /\ h = [i \in DOMAIN h |-> h[i]]
    OBVIOUS
  <2> HIDE <1>5
  <2> QED
    BY <2>1, <2>2
<1>8. ASSUME NEW i \in 1 .. n PROVE Tells(Place(cs[i]), h[i], h[i + 1])
  <2>1. i \in 1 .. n + 1 /\ i + 1 \in 1 .. n + 1 /\ i \in Int
    OBVIOUS
  <2>2. /\ h[i] = Partly(Earlier(cs, i), {}, {}, in)
        /\ h[i + 1] = Partly(Earlier(cs, i) \cup {cs[i]}, {}, {}, in)
    BY <1>1, <1>5, <2>1
  <2> PICK E : E = Earlier(cs, i)
    OBVIOUS
  <2> PICK x : x = cs[i]
    OBVIOUS
  <2>3. E \in SUBSET sChans /\ x \in sChans \ E /\ sParent[x] \in E \cup {Root}
    BY <2>1
  <2>4. Tells(Place(x), Partly(E, {}, {}, in), Partly(E \cup {x}, {}, {}, in))
    BY <2>3, PlaceTells
  <2> QED
    BY <2>2, <2>4
<1>9. ASSUME NEW i \in 1 .. n PROVE Tells(Links(cs[i]), h[n + i], h[n + i + 1])
  <2>1. /\ i \in 1 .. n + 1 /\ i + 1 \in 1 .. n + 1 /\ i \in Int
        /\ n + i + 1 = n + (i + 1)
    OBVIOUS
  <2>2. h[n + i] = B[i] /\ h[n + i + 1] = B[i + 1]
    BY <1>5, <2>1
  <2>3. /\ h[n + i] = Partly(sChans, Earlier(cs, i), {}, in)
        /\ h[n + i + 1] = Partly(sChans, Earlier(cs, i) \cup {cs[i]}, {}, in)
    BY <1>1, <2>1, <2>2
  <2> PICK E : E = Earlier(cs, i)
    OBVIOUS
  <2> PICK x : x = cs[i]
    OBVIOUS
  <2>4. E \in SUBSET sChans /\ x \in sChans
    BY <2>1
  <2>5. Tells(Links(x), Partly(sChans, E, {}, in), Partly(sChans, E \cup {x}, {}, in))
    BY <2>4, LinksTell
  <2> QED
    BY <2>3, <2>5
<1>10. ASSUME NEW i \in 1 .. k
       PROVE  Tells(Profile(us[i], in), h[n + n + i], h[n + n + i + 1])
  <2>1. /\ i \in 1 .. k + 1 /\ i + 1 \in 1 .. k + 1 /\ i \in Int
        /\ n + n + i + 1 = n + n + (i + 1)
    OBVIOUS
  <2>2. h[n + n + i] = D[i] /\ h[n + n + i + 1] = D[i + 1]
    BY <1>5, <2>1
  <2>3. /\ h[n + n + i] = Partly(sChans, sChans, Earlier(us, i), in)
        /\ h[n + n + i + 1] = Partly(sChans, sChans, Earlier(us, i) \cup {us[i]}, in)
    BY <1>1, <2>1, <2>2
  <2> PICK E : E = Earlier(us, i)
    OBVIOUS
  <2> PICK u : u = us[i]
    OBVIOUS
  <2>4. E \in SUBSET Users /\ u \in Users \ E /\ in[u] \in sChans
    BY <2>1
  <2>5. Tells(Profile(u, in), Partly(sChans, sChans, E, in),
                              Partly(sChans, sChans, E \cup {u}, in))
    BY <2>4, ProfileTells
  <2> QED
    BY <2>3, <2>5
<1>11. ASSUME NEW m, m.type = "ServerSync", m.user = Me
       PROVE  Tells(m, h[n + n + k + 1], h[n + n + k + 2])
  <2>1. k + 1 \in 1 .. k + 1 /\ n + n + k + 1 = n + n + (k + 1)
    OBVIOUS
  <2>2. h[n + n + k + 1] = last /\ h[n + n + k + 2] = last
    BY <1>4, <1>5, <2>1
  <2>3. last.in[Me] # None
    BY ConstAssumption DEF Partly, sChans
  <2>4. TellsSync(m, last, last)
    BY <1>11, <2>3 DEF TellsSync, SameTree, SamePeople
  <2> QED
    BY <2>2, <2>4 DEF Tells, TellsOfUser
<1>12. h[1] = Partly({}, {}, {}, in)
  <2>1. 1 \in 1 .. n + 1
    OBVIOUS
  <2>2. h[1] = A[1]
    BY ONLY <1>5, <2>1
  <2>3. A[1] = Partly({}, {}, {}, in)
    BY <1>1, <2>1
  <2> QED
    BY ONLY <2>2, <2>3
<1>13. LoginStory(h, cs, us, n, k, U, in)
  BY <1>5, <1>6, <1>7, <1>8, <1>9, <1>10, <1>11, <1>12 DEF LoginStory
<1> QED
  BY <1>13

(* What the login puts into the inbox, and the story it starts. *)
LEMMA LoginBegins ==
    ASSUME ServerLegal, NEW c \in Channels, ServerLogin(c)
    PROVE  /\ inbox' \in Seq(Message)
           /\ \E h : Story(h)' /\ h[1] = Partly({}, {}, {}, sIn')
           /\ \A j \in 1 .. Len(inbox') :
                 inbox'[j].type = "ServerSync" => j = Len(inbox')
           /\ inbox'[Len(inbox')].type = "ServerSync"
           /\ Len(inbox') \in Nat
           /\ ServerLegal'
<1> PICK in : in = sIn'
  OBVIOUS
<1> PICK U : U = {u \in Users : in[u] # None}
  OBVIOUS
<1>1. /\ c \in sChans /\ sIn' = [sIn EXCEPT ![Me] = c]
      /\ UNCHANGED <<sParent, sUsed, sLinks, sFlags>>
  BY DEF ServerLogin
<1>2. PICK cs \in Listings(sChans), us \in Listings(U) :
          /\ ParentsFirst(cs)
          /\ inbox' = [i \in DOMAIN cs |-> Place(cs[i])]
                      \o [i \in DOMAIN cs |-> Links(cs[i])]
                      \o [i \in DOMAIN us |-> Profile(us[i], in)]
                      \o <<[type |-> "ServerSync", user |-> Me]>>
  BY DEF ServerLogin
<1>3. /\ in \in [Users -> Channels \cup {None}] /\ in[Me] = c
      /\ \A u \in U : in[u] \in sChans
      /\ \A u \in Users \ U : in[u] = None
      /\ Me \in U /\ U \in SUBSET Users
  <2>1. /\ in \in [Users -> Channels \cup {None}]
        /\ \A u \in Users : in[u] = IF u = Me THEN c ELSE sIn[u]
    BY <1>1 DEF ServerLegal, NowLegal
  <2>2. c # None
    BY ConstAssumption
  <2> QED
    BY <1>1, <2>1, <2>2, ConstAssumption DEF ServerLegal, NowLegal
<1>4. ServerLegal'
  <2>1. sChans' = sChans
    BY <1>1 DEF sChans
  <2>2. \A u \in Users : in[u] # None => in[u] \in sChans
    BY <1>3
  <2> QED
    BY <1>1, <1>3, <2>1, <2>2 DEF ServerLegal, NowLegal
<1> PICK n : n = Cardinality(sChans)
  OBVIOUS
<1> PICK k : k = Cardinality(U)
  OBVIOUS
<1>5. Lists(cs, sChans, n) /\ n \in Nat /\ DOMAIN cs = 1 .. n
  <2>1. IsFiniteSet(sChans)
    BY ConstAssumption, FS_Subset DEF sChans
  <2>2. Lists(cs, sChans, n)
    BY <2>1, ListingsAreComplete
  <2> QED
    BY <2>2 DEF Lists
<1>6. /\ Lists(us, U, k) /\ k \in Nat /\ DOMAIN us = 1 .. k
      /\ \A i \in 1 .. k : us[i] \in U
  <2>1. IsFiniteSet(U)
    BY <1>3, ConstAssumption, FS_Subset
  <2>2. us \in Listings(U) /\ k = Cardinality(U)
    OBVIOUS
  <2>3. Lists(us, U, k)
    BY ONLY <2>1, <2>2, ListingsAreComplete
  <2> QED
    BY <2>3 DEF Lists
<1>7. n \in Nat /\ k \in Nat
  BY <1>5, <1>6
<1>8. Grows(cs, sChans, n) /\ Grows(us, U, k)
  BY <1>5, <1>6, EarlierGrows
<1>9. \A i \in 1 .. n : sParent[cs[i]] \in Earlier(cs, i) \cup {Root}
  BY <1>2, <1>5, ParentsAreEarlier
<1>10. \A i \in Int : \A x \in Earlier(cs, i) :
          sParent[x] \in Earlier(cs, i) \cup {Root}
  BY <1>5, <1>9, EarlierIsClosed
<1> PICK sync : sync = [type |-> "ServerSync", user |-> Me]
  OBVIOUS
<1>11. sync \in Message /\ sync.type = "ServerSync" /\ sync.user = Me
  BY ConstAssumption DEF Message, SyncMessage
<1> PICK a : a = [i \in 1 .. n |-> Place(cs[i])]
  OBVIOUS
<1> PICK b : b = [i \in 1 .. n |-> Links(cs[i])]
  OBVIOUS
<1> PICK d : d = [i \in 1 .. k |-> Profile(us[i], in)]
  OBVIOUS
<1>12. inbox' = a \o b \o d \o <<sync>>
  BY <1>2, <1>5, <1>6
<1>13. \A i \in 1 .. n : /\ Place(cs[i]) \in Message /\ Place(cs[i]).type = "ChannelState"
                         /\ Links(cs[i]) \in Message /\ Links(cs[i]).type = "ChannelState"
  <2> TAKE i \in 1 .. n
  <2> PICK x : x = cs[i]
    OBVIOUS
  <2> PICK E : E = Earlier(cs, i)
    OBVIOUS
  <2>1. E \in SUBSET sChans /\ x \in sChans \ E /\ sParent[x] \in E \cup {Root}
    BY <1>8, <1>9 DEF Grows
  <2>2. Place(x) \in Message /\ Place(x).type = "ChannelState"
    BY <2>1, PlaceTells
  <2>3. Links(x) \in Message /\ Links(x).type = "ChannelState"
    BY <2>1, LinksTell
  <2> QED
    BY <2>2, <2>3
<1>14. \A i \in 1 .. k : /\ Profile(us[i], in) \in Message
                         /\ Profile(us[i], in).type = "UserState"
  <2> TAKE i \in 1 .. k
  <2> PICK u : u = us[i]
    OBVIOUS
  <2>1. u \in Users \ {} /\ {} \in SUBSET Users /\ in[u] \in sChans
    BY <1>3, <1>6
  <2>2. Profile(u, in) \in Message /\ Profile(u, in).type = "UserState"
    BY <1>3, <2>1, ProfileTells
  <2> QED
    BY <2>2
<1>15. /\ a \in Seq(Message) /\ Len(a) = n
       /\ b \in Seq(Message) /\ Len(b) = n
       /\ d \in Seq(Message) /\ Len(d) = k
  <2>1. a \in [1 .. n -> Message] /\ b \in [1 .. n -> Message] /\ d \in [1 .. k -> Message]
    BY <1>13, <1>14
  <2>2. n \in Nat /\ k \in Nat
    BY <1>5, <1>6
  <2> QED
    BY ONLY <2>1, <2>2
<1>16. InFour(inbox', a, b, d, sync, n, k)
  <2>1. n \in Nat /\ k \in Nat /\ sync \in Message
    BY <1>5, <1>6, <1>11
  <2> PICK q : q = inbox'
    OBVIOUS
  <2>2. q = a \o b \o d \o <<sync>>
    BY <1>12
  <2>3. InFour(q, a, b, d, sync, n, k)
    BY ONLY <1>15, <2>1, <2>2, LoginInbox
  <2> QED
    BY <2>3
<1>17. /\ inbox' \in Seq(Message) /\ Len(inbox') = n + n + k + 1
       /\ \A i \in 1 .. n : inbox'[i] = a[i] /\ inbox'[n + i] = b[i]
       /\ \A i \in 1 .. k : inbox'[n + n + i] = d[i]
       /\ inbox'[n + n + k + 1] = sync
  BY <1>16 DEF InFour
<1>18. /\ \A i \in 1 .. n : inbox'[i] = Place(cs[i]) /\ inbox'[n + i] = Links(cs[i])
       /\ \A i \in 1 .. k : inbox'[n + n + i] = Profile(us[i], in)
  BY <1>17
<1>19. PICK h : LoginStory(h, cs, us, n, k, U, in)
  BY ONLY ServerLegal, <1>3, <1>5, <1>6, <1>8, <1>9, <1>10, LoginStates
<1>20. /\ h \in [1 .. n + n + k + 2 -> ServerState]
       /\ \A i \in 1 .. n + n + k + 2 : Legal(h[i])
       /\ \A i \in 1 .. n : Tells(Place(cs[i]), h[i], h[i + 1])
       /\ \A i \in 1 .. n : Tells(Links(cs[i]), h[n + i], h[n + i + 1])
       /\ \A i \in 1 .. k : Tells(Profile(us[i], in), h[n + n + i], h[n + n + i + 1])
       /\ Tells(sync, h[n + n + k + 1], h[n + n + k + 2])
       /\ h[1] = Partly({}, {}, {}, in)
       /\ h[n + n + k + 2] = Partly(sChans, sChans, U, in)
  BY <1>11, <1>19 DEF LoginStory
<1>21. \A i \in 1 .. n + n + k + 1 : \/ i \in 1 .. n \/ i - n \in 1 .. n
                                     \/ i - (n + n) \in 1 .. k \/ i = n + n + k + 1
  BY ONLY <1>7
<1>22. ASSUME NEW i \in 1 .. n + n + k + 1
       PROVE  /\ Tells(inbox'[i], h[i], h[i + 1])
              /\ inbox'[i].type = "ServerSync" => i = n + n + k + 1
  <2>1. CASE i \in 1 .. n
    BY <1>13, <1>18, <1>20, <2>1
  <2>2. CASE i - n \in 1 .. n
    <3> PICK j : j = i - n
      OBVIOUS
    <3>1. j \in 1 .. n /\ i = n + j /\ i + 1 = n + j + 1
      BY <1>5, <1>6, <2>2
    <3> QED
      BY <1>13, <1>18, <1>20, <3>1
  <2>3. CASE i - (n + n) \in 1 .. k
    <3> PICK j : j = i - (n + n)
      OBVIOUS
    <3>1. j \in 1 .. k /\ j = i - (n + n) /\ i \in Int
      BY <2>3
    <3>2. i = n + n + j /\ i + 1 = n + n + j + 1
      BY ONLY <1>7, <3>1
    <3> QED
      BY <1>14, <1>18, <1>20, <3>1, <3>2
  <2>4. CASE i = n + n + k + 1
    <3>1. i + 1 = n + n + k + 2
      BY <1>5, <1>6, <2>4
    <3> QED
      BY <1>11, <1>17, <1>20, <2>4, <3>1
  <2> QED
    BY <1>21, <2>1, <2>2, <2>3, <2>4
<1>23. Partly(sChans, sChans, U, in) = Now'
  <2>1. /\ [x \in Channels |-> IF x = Root \/ x \in sChans THEN sParent[x] ELSE None]
              = sParent
        /\ [x \in Channels |-> IF x \in sChans THEN sLinks[x] ELSE {}] = sLinks
    BY DEF ServerLegal, NowLegal, sChans
  <2>2. [u \in Users |-> IF u \in U THEN in[u] ELSE None] = in
    BY <1>3
  <2> QED
    BY <1>1, <2>1, <2>2 DEF Partly, Now
<1>24. Story(h)'
  <2>1. Len(inbox') + 1 = n + n + k + 2
    BY <1>5, <1>6, <1>17
  <2>2. (\A i \in 1 .. Len(inbox) : Tells(inbox[i], h[i], h[i + 1]))'
    BY <1>17, <1>22
  <2>3. (h \in [1 .. Len(inbox) + 1 -> ServerState])'
    BY <1>20, <2>1
  <2>4. (\A i \in 1 .. Len(inbox) + 1 : Legal(h[i]))'
    BY <1>20, <2>1
  <2>5. (h[Len(inbox) + 1] = Now)'
    BY <1>20, <1>23, <2>1
  <2> QED
    BY <2>2, <2>3, <2>4, <2>5 DEF Story
<1> QED
  <2>1. Len(inbox') \in Nat
    BY <1>5, <1>6, <1>17
  <2>2. h[1] = Partly({}, {}, {}, sIn')
    BY <1>20
  <2>3. /\ \A j \in 1 .. Len(inbox') :
              inbox'[j].type = "ServerSync" => j = Len(inbox')
        /\ inbox'[Len(inbox')].type = "ServerSync"
    BY <1>11, <1>17, <1>22
  <2> QED
    BY <1>4, <1>17, <1>24, <2>1, <2>2, <2>3

LEMMA LoginKeepsIInv ==
    ASSUME IInv, phase = "live", NEW c \in Channels, ServerLogin(c),
           UNCHANGED <<phase, tree, people, connectedUser, told, unchain>>
    PROVE  IInv'
<1>1. /\ UNCHANGED <<chans, parent, children, linked, moved, members, users, chanOf,
                     flags, audio, usersTold, pending, nparents>>
      /\ ~loggedIn /\ loggedIn'
  BY DEF ServerLogin, tree, people, told, unchain
<1>2. /\ chans = {Root} /\ users = {} /\ connectedUser = None
  BY <1>1 DEF IInv, Follows, Fresh
<1>3. /\ inbox' \in Seq(Message) /\ Len(inbox') \in Nat /\ ServerLegal'
      /\ \A j \in 1 .. Len(inbox') :
            inbox'[j].type = "ServerSync" => j = Len(inbox')
      /\ inbox'[Len(inbox')].type = "ServerSync"
  BY LoginBegins DEF IInv
<1>4. PICK h : Story(h)' /\ h[1] = Partly({}, {}, {}, sIn')
  BY LoginBegins DEF IInv
<1>5. Typed' /\ NothingPending'
  BY <1>1, <1>3 DEF IInv, Typed, NothingPending
<1>6. TreeInv'
  BY <1>1, TreeUnchanged DEF IInv
<1>7. Follows'
  <2> PICK s : s = h[1]
    OBVIOUS
  <2>1. /\ \A x \in Channels : s.par[x] = IF x = Root \/ x \in {} THEN sParent[x] ELSE None
        /\ \A x \in Channels : s.lnk[x] = {}
        /\ \A u \in Users : s.in[u] = None
    BY <1>4 DEF Partly
  <2>2. Known(s) = {Root}
    BY <2>1, PartlyKnown DEF IInv
  <2>3. Mirrors(s)'
    BY <1>1, <1>2, <2>1, <2>2, ConstAssumption
    DEF Mirrors, MirrorsTree, MirrorsLinks, MirrorsPeople
  <2> QED
    BY <1>1, <1>4, <2>3 DEF Follows
<1>8. MeAnnouncedFirst'
  <2> SUFFICES ASSUME NEW i \in 1 .. Len(inbox'), NamesMe(inbox'[i])
               PROVE  /\ connectedUser' = None
                      /\ \A j \in 1 .. Len(inbox') :
                            inbox'[j].type = "ServerSync" => i < j
    BY DEF MeAnnouncedFirst, NamesMe
  <2>1. i # Len(inbox')
    BY <1>3 DEF NamesMe
  <2>2. i < Len(inbox')
    BY <1>3, <2>1
  <2> QED
    BY <1>2, <1>3, <2>2
<1>9. SilentUntilSync' /\ OthersKnowModel'
  BY <1>1, <1>2 DEF IInv, People, SilentUntilSync, OthersKnowModel, UsersAnnounced,
     NeverMutedWithoutReason, Synced
<1> QED
  BY <1>3, <1>5, <1>6, <1>7, <1>8, <1>9 DEF IInv, People

LEMMA ServerKeepsIInv ==
    ASSUME IInv, ServerStep
    PROVE  IInv'
<1>1. /\ phase = "live"
      /\ UNCHANGED <<phase, tree, people, connectedUser, told, unchain>>
      /\ ServerLegal
  BY DEF ServerStep, IInv
<1>2. \/ ServerLegal' /\ \E m : Announced(m)
      \/ \E c \in Channels : ServerLogin(c)
  BY <1>1, AddIsAnnounced, MoveIsAnnounced, RemovalIsAnnounced, LinkIsAnnounced,
     UnlinkIsAnnounced, JoinIsAnnounced, UserMoveIsAnnounced, LeavingIsAnnounced,
     FlagsAreAnnounced
  DEF ServerStep, ServerMoveUser
<1> QED
  BY <1>1, <1>2, AnnouncedKeepsIInv, LoginKeepsIInv

--------------------------------------------------------------------------------
(* The invariant. *)

LEMMA InitIInv == Init => IInv
<1> SUFFICES ASSUME Init PROVE IInv
  OBVIOUS
<1> USE ConstAssumption
<1>1. /\ inbox = <<>> /\ <<>> \in Seq(Message)
      /\ chans = {Root} /\ users = {} /\ phase = "live" /\ connectedUser = None
      /\ audio = {} /\ usersTold = {} /\ pending = {} /\ nparents = FALSE
      /\ parent = [c \in Channels |-> None] /\ children = [c \in Channels |-> {}]
      /\ linked = [c \in Channels |-> {}] /\ members = [c \in Channels |-> {}]
      /\ chanOf = [u \in Users |-> None] /\ flags = [u \in Users |-> {}]
      /\ moved = {} /\ ~loggedIn
  BY DEF Init
<1>2. /\ sParent = [c \in Channels |-> IF c = Root THEN Root ELSE None]
      /\ sUsed = {Root} /\ sLinks = [c \in Channels |-> {}]
      /\ sIn = [u \in Users |-> None] /\ sFlags \in [Users -> {{}, {"suppress"}}]
  BY DEF Init
<1>3. Typed /\ NothingPending
  BY <1>1 DEF Typed, NothingPending
<1>4. ServerLegal
  <2>1. sChans = {Root}
    BY <1>2 DEF sChans
  <2>2. /\ sFlags \in [Users -> SUBSET Flags]
        /\ \A u \in Users : FlagsLegal(sFlags[u])
    BY <1>2 DEF Flags, FlagsLegal
  <2>3. NowLegal
    BY <1>2, <2>1, <2>2 DEF NowLegal
  <2> QED
    BY <1>2, <2>1, <2>3 DEF ServerLegal, Symmetric
<1>5. Follows
  BY <1>1 DEF Follows, Fresh
<1>6. TreeInv
  <2>1. Root \in Downward(Root)
    BY DEF Downward
  <2> QED
    BY <1>1, <2>1 DEF TreeInv, RootHasNoParent, NoParents, TreeAgrees, RootReachesAll
<1>7. People
  <2>1. Len(inbox) = 0
    BY <1>1
  <2> QED
    BY <1>1, <2>1 DEF People, MeAnnouncedFirst, SilentUntilSync, OthersKnowModel,
       UsersAnnounced, NeverMutedWithoutReason, Synced
<1> QED
  BY <1>3, <1>4, <1>5, <1>6, <1>7 DEF IInv

LEMMA NextKeepsIInv ==
    ASSUME IInv, [Next]_vars
    PROVE  IInv'
<1>1. CASE ServerStep
  BY <1>1, ServerKeepsIInv
<1>2. CASE HandleMessage
  BY <1>2, HandlerKeepsIInv
<1>3. CASE Dealloc
  BY <1>3, DeallocKeepsIInv
<1>4. CASE RemoveAllChannels
  BY <1>4, EndPassKeepsIInv, VisitKeepsIInv DEF RemoveAllChannels
<1>5. CASE UNCHANGED vars
  BY <1>5, StutterKeepsIInv
<1> QED
  BY <1>1, <1>2, <1>3, <1>4, <1>5 DEF Next

(* What the invariant says of the properties. *)

LEMMA IInvGivesType == IInv => TypeOK
<1> SUFFICES ASSUME IInv PROVE TypeOK
  OBVIOUS
<1>1. LinksNameKnownChannels
  <2> SUFFICES ASSUME phase = "live", inbox # <<>>, Head(inbox).type = "ChannelState"
               PROVE  Head(inbox).links \cup Head(inbox).add \cup Head(inbox).remove
                          \subseteq chans
    BY DEF LinksNameKnownChannels
  <2>1. loggedIn
    BY DEF IInv, Follows, Fresh
  <2>2. PICK h : Story(h) /\ Mirrors(h[1])
    BY <2>1 DEF IInv, Follows
  <2>3. /\ Len(inbox) \in Nat \ {0} /\ Head(inbox) = inbox[1]
    BY HeadAndTail DEF IInv, Typed
  <2> PICK s : s = h[1]
    OBVIOUS
  <2> PICK t : t = h[2]
    OBVIOUS
  <2>4. Legal(s) /\ Legal(t) /\ Tells(Head(inbox), s, t)
    <3>1. 1 \in 1 .. Len(inbox) /\ 1 \in 1 .. Len(inbox) + 1 /\ 2 \in 1 .. Len(inbox) + 1
          /\ 1 + 1 = 2
      BY <2>3
    <3> QED
      BY <2>2, <2>3, <3>1 DEF Story
  <2>5. chans = Known(s)
    BY <2>2 DEF Mirrors, MirrorsTree
  <2>6. TellsOfChannel(Head(inbox), s, t)
    BY <2>4 DEF Tells, TellsOfUser, TellsSync, TellsLeft, TellsFlags, TellsJoined,
       TellsUserMoved, AUserState
  <2>7. ASSUME NEW c \in Channels, TellsLinks(Head(inbox), s, t, c)
        PROVE  t.lnk[c] \subseteq Known(s)
    BY <2>4, <2>7 DEF TellsLinks, Legal, LinksLegal, Known
  <2> QED
    BY <2>5, <2>6, <2>7 DEF TellsOfChannel, TellsOfRoot, TellsAdded, TellsMoved,
       TellsRemoved, TellsLinks, TellsLinked, TellsUnlinked, AChannelState
<1> QED
  BY <1>1, ConstAssumption DEF IInv, Typed, TypeOK

LEMMA IInvGivesResidence == IInv => UsersReside
<1> SUFFICES ASSUME IInv, phase = "live", NEW u \in users
             PROVE  chanOf[u] \in chans
  BY DEF UsersReside
<1>1. loggedIn
  BY DEF IInv, Follows, Fresh
<1>2. PICK h : Story(h) /\ Mirrors(h[1])
  BY <1>1 DEF IInv, Follows
<1>3. Legal(h[1])
  <2>1. Len(inbox) \in Nat
    BY LenProperties DEF IInv, Typed
  <2>2. 1 \in 1 .. Len(inbox) + 1
    BY <2>1
  <2> QED
    BY <1>2, <2>2 DEF Story
<1> QED
  BY <1>2, <1>3 DEF Mirrors, MirrorsTree, MirrorsPeople, Legal, PeopleLegal

LEMMA IInvGivesTree == IInv => TreeAgrees
  BY DEF IInv, TreeInv

LEMMA IInvGivesMirror == IInv => ServerMirrored
<1> SUFFICES ASSUME IInv, UpToDate
             PROVE  ChannelsMirrored /\ UsersMirrored /\ NoLinkIsMissing
  BY DEF ServerMirrored
<1>1. phase = "live" /\ loggedIn /\ Len(inbox) = 0
  BY DEF UpToDate
<1>2. PICK h : Story(h) /\ Mirrors(h[1])
  BY <1>1 DEF IInv, Follows
<1>3. Len(inbox) + 1 = 1
  BY <1>1
<1>4. Mirrors(Now)
  BY <1>2, <1>3 DEF Story
<1>5. UsersMirrored /\ NoLinkIsMissing
  BY <1>4, NowFields DEF Mirrors, MirrorsPeople, MirrorsLinks, UsersMirrored,
     NoLinkIsMissing
<1>6. chans = sChans /\ \A c \in chans \ {Root} : parent[c] = sParent[c]
  BY <1>4, NowFields DEF Mirrors, MirrorsTree
<1>7. moved = {} => chans = Downward(Root)
  <2> SUFFICES ASSUME moved = {} PROVE Downward(Root) \subseteq chans
    BY <1>1 DEF IInv, TreeInv, RootReachesAll
  <2>1. Root \in chans /\ chans \subseteq Channels
    BY <1>6, ConstAssumption DEF IInv, ServerLegal, NowLegal, sChans
  <2>2. \A y \in chans : children[y] \subseteq chans
    <3> SUFFICES ASSUME NEW y \in chans, NEW x \in children[y]
                 PROVE  x \in chans
      OBVIOUS
    <3>1. x \in Channels /\ y \in Channels
      BY <2>1 DEF IInv, Typed
    <3>2. parent[x] = y
      BY <3>1 DEF IInv, TreeInv, TreeAgrees
    <3>3. parent[x] # None
      BY <3>1, <3>2, ConstAssumption
    <3> QED
      BY <1>1, <3>1, <3>3 DEF IInv, TreeInv, NoParents
  <2> QED
    BY <2>1, <2>2, DownwardStaysIn
<1> QED
  BY <1>5, <1>6, <1>7 DEF ChannelsMirrored

LEMMA IInvGivesOthers == IInv => OthersKnowModel
  BY DEF IInv, People

(* The story goes on for ever: between the model and the server lie exactly *)
(* the messages that have not been handled.                                 *)
THEOREM Invariance == Spec => []IInv
<1>1. IInv /\ [Next]_vars => IInv'
  BY NextKeepsIInv
<1> QED
  BY InitIInv, <1>1, PTL DEF Spec

(* The model's state keeps its shape, and no message makes a link handler   *)
(* (internalSetLinks, internalAddLinks, internalRemoveLinks) look up a      *)
(* channel that the earlier messages did not make the model keep: nil is    *)
(* never put into an array.                                                 *)
THEOREM TypeCorrect == Spec => []TypeOK
  BY Invariance, IInvGivesType, PTL

(* A user of the model resides in a channel of the model, in whatever order *)
(* users join and move and channels come and go.                            *)
THEOREM UsersAlwaysReside == Spec => []UsersReside
  BY Invariance, IInvGivesResidence, PTL

(* Until a channel is moved the lists of subchannels and the pointers to    *)
(* the parents agree, also in the passes of removeAllChannels.              *)
THEOREM TreeAlwaysAgrees == Spec => []TreeAgrees
  BY Invariance, IInvGivesTree, PTL

(* With no message left the model is the server's state: the channels, the  *)
(* parents, the users with their channels and flags, and no link missing;   *)
(* and until a channel is moved the root reaches every channel.             *)
THEOREM ServerAlwaysMirrored == Spec => []ServerMirrored
  BY Invariance, IInvGivesMirror, PTL

(* Whoever follows userJoined and userLeft knows the users once the server  *)
(* is joined, and the audio engine is muted only for a reason the connected *)
(* user's flags give.                                                       *)
THEOREM OthersAlwaysKnow == Spec => []OthersKnowModel
  BY Invariance, IInvGivesOthers, PTL

================================================================================
