----------------------------- MODULE MKServerModel -----------------------------
(***************************************************************************)
(* The client's copy of the server: the tree of channels, the users in it, *)
(* their mute flags and the links between channels, kept up to date by the *)
(* messages of the control channel.                                        *)
(*                                                                         *)
(* The server is the environment: it changes its own state and sends a     *)
(* message for every change, in order (TCP, then the main dispatch queue). *)
(* It is a legal one: a channel is announced after its parent and removed  *)
(* when it is empty, a session is announced before it is used.             *)
(*                                                                         *)
(* Channels and users stand for MKChannel and MKUser objects, one for each *)
(* id; None is nil.  Names, comments, textures and positions are left out. *)
(***************************************************************************)
EXTENDS Integers, FiniteSets, Sequences

CONSTANTS
    Channels,   \* channel ids
    Root,       \* the root channel
    Users,      \* session ids
    Me,         \* the session of this client
    None,       \* nil
    ServerOps,  \* what the server may do: a subset of AllOps
    MaxOps,     \* bound: the number of changes the server makes
    MaxInbox    \* bound: messages on their way once logged in

AllOps == {"addChannel", "moveChannel", "removeChannel", "link", "unlink",
           "join", "moveUser", "leave", "kickMe", "flags"}

ASSUME ConstAssumption ==
    /\ Root \in Channels /\ Me \in Users
    /\ None \notin Channels /\ None \notin Users
    /\ IsFiniteSet(Channels) /\ IsFiniteSet(Users)
    /\ ServerOps \subseteq AllOps
    /\ MaxOps \in Nat /\ MaxInbox \in Nat

VARIABLES
    (* the server *)
    sParent,    \* parent of a channel; Root's is Root, None: no such channel
    sUsed,      \* ids of the channels that exist or have existed
    sLinks,     \* channels linked to a channel
    sIn,        \* the channel a user is in, None: not on the server
    sFlags,     \* the mute flags that are set for a user
    loggedIn,   \* this client has been sent the state of the server
    ops,        \* number of changes made
    inbox,      \* messages not handled yet
    (* the model *)
    phase,      \* "live", "unchaining" (in removeAllChannels), "dead"
    chans,      \* keys of _channelMap
    parent,     \* _parent of each channel
    children,   \* _channels of each channel
    linked,     \* _linked of each channel
    moved,      \* (history) channels that were moved: their old parent still
                \* lists them
    members,    \* _users of each channel
    users,      \* keys of _userMap
    chanOf,     \* _channel of each user
    flags,      \* _muted, _deafened, ... of each user
    connectedUser,  \* _connectedUser
    (* what others know from the model *)
    audio,      \* the mute flags that are set in MKAudio
    usersTold,  \* users the delegate was told of and not told they left
    linksTold,  \* what linksRemoved reported for a channel in the last
                \* ChannelState message, {} for the others
    (* removeAllChannels *)
    pending,    \* channels the current pass has yet to visit
    nparents    \* the current pass met a channel that has subchannels

server == <<sParent, sUsed, sLinks, sIn, sFlags, loggedIn, ops>>
tree == <<chans, parent, children, linked, moved>>
people == <<members, users, chanOf, flags>>
told == <<audio, usersTold, linksTold>>
unchain == <<pending, nparents>>
vars == <<server, inbox, phase, tree, people, connectedUser, told, unchain>>

Flags == {"selfMute", "selfDeaf", "mute", "deaf", "suppress"}
AudioFlags == {"selfMute", "mute", "suppress"}

(* A ChannelState message for c that has no other field. *)
AboutChannel(c) ==
    [type |-> "ChannelState", chan |-> c, parent |-> None, named |-> FALSE,
     links |-> {}, add |-> {}, remove |-> {}]

(* A UserState message: the flags it sets and clears are the fields it has. *)
UserState(u, c, on, off, named) ==
    [type |-> "UserState", user |-> u, chan |-> c, on |-> on, off |-> off,
     named |-> named]

--------------------------------------------------------------------------------
(* The server. *)

sChans == {c \in Channels : sParent[c] # None}

(* The channels on the way from c to the root, c included: those that are   *)
(* in every set that has c and, with a channel, its parent.                 *)
Upward(par, c) ==
    {x \in Channels : \A S \in SUBSET Channels :
        c \in S /\ (\A y \in S : par[y] \in S \cup {None}) => x \in S}

Send(ms) == inbox' = IF loggedIn THEN inbox \o ms ELSE inbox

ServerMay(op) ==
    /\ op \in ServerOps
    /\ ops < MaxOps
    /\ ops' = ops + 1
    /\ loggedIn => Len(inbox) < MaxInbox /\ sIn[Me] # None

ServerAddChannel(c, p) ==
    /\ ServerMay("addChannel")
    /\ c \notin sUsed /\ p \in sChans
    /\ sParent' = [sParent EXCEPT ![c] = p]
    /\ sUsed' = sUsed \cup {c}
    /\ Send(<<[AboutChannel(c) EXCEPT !.parent = p, !.named = TRUE]>>)
    /\ UNCHANGED <<sLinks, sIn, sFlags, loggedIn>>

ServerMoveChannel(c, p) ==
    /\ ServerMay("moveChannel")
    /\ c \in sChans \ {Root} /\ p \in sChans /\ p # sParent[c]
    /\ c \notin Upward(sParent, p)
    /\ sParent' = [sParent EXCEPT ![c] = p]
    /\ Send(<<[AboutChannel(c) EXCEPT !.parent = p]>>)
    /\ UNCHANGED <<sUsed, sLinks, sIn, sFlags, loggedIn>>

ServerRemoveChannel(c) ==
    /\ ServerMay("removeChannel")
    /\ c \in sChans \ {Root}
    /\ \A d \in Channels : sParent[d] # c
    /\ \A u \in Users : sIn[u] # c
    /\ sParent' = [sParent EXCEPT ![c] = None]
    /\ sLinks' = [d \in Channels |-> IF d = c THEN {} ELSE sLinks[d] \ {c}]
    /\ Send(<<[type |-> "ChannelRemove", chan |-> c]>>)
    /\ UNCHANGED <<sUsed, sIn, sFlags, loggedIn>>

ServerLink(c, d) ==
    /\ ServerMay("link")
    /\ c \in sChans /\ d \in sChans \ (sLinks[c] \cup {c})
    /\ sLinks' = [sLinks EXCEPT ![c] = @ \cup {d}, ![d] = @ \cup {c}]
    /\ Send(<<[AboutChannel(c) EXCEPT !.add = {d}]>>)
    /\ UNCHANGED <<sParent, sUsed, sIn, sFlags, loggedIn>>

ServerUnlink(c, d) ==
    /\ ServerMay("unlink")
    /\ c \in sChans /\ d \in sLinks[c]
    /\ sLinks' = [sLinks EXCEPT ![c] = @ \ {d}, ![d] = @ \ {c}]
    /\ Send(<<[AboutChannel(c) EXCEPT !.remove = {d}]>>)
    /\ UNCHANGED <<sParent, sUsed, sIn, sFlags, loggedIn>>

(* A user's channel is not sent when it is the root channel. *)
ChannelField(c) == IF c = Root THEN None ELSE c

ServerJoin(u, c) ==
    /\ ServerMay("join")
    /\ u # Me /\ sIn[u] = None /\ c \in sChans
    /\ sIn' = [sIn EXCEPT ![u] = c]
    /\ sFlags' = [sFlags EXCEPT ![u] = {}]
    /\ Send(<<UserState(u, ChannelField(c), {}, {}, TRUE)>>)
    /\ UNCHANGED <<sParent, sUsed, sLinks, loggedIn>>

ServerMoveUser(u, c) ==
    /\ ServerMay("moveUser")
    /\ sIn[u] \notin {None, c} /\ c \in sChans
    /\ sIn' = [sIn EXCEPT ![u] = c]
    /\ Send(<<UserState(u, c, {}, {}, FALSE)>>)
    /\ UNCHANGED <<sParent, sUsed, sLinks, sFlags, loggedIn>>

(* A user leaves, is kicked or banned; the server closes the connection    *)
(* after it has told this client that it is removed itself.                *)
ServerLeave(u) ==
    /\ ServerMay(IF u = Me THEN "kickMe" ELSE "leave")
    /\ sIn[u] # None
    /\ u = Me => loggedIn
    /\ sIn' = [sIn EXCEPT ![u] = None]
    /\ Send(<<[type |-> "UserRemove", user |-> u]>>)
    /\ UNCHANGED <<sParent, sUsed, sLinks, sFlags, loggedIn>>

(* The changes of flags a server announces: it has already applied that a  *)
(* deaf user is mute and that a user who is not mute is not deaf.          *)
FlagChanges ==
    {[on |-> {"selfMute"}, off |-> {"selfDeaf"}],
     [on |-> {"selfMute", "selfDeaf"}, off |-> {}],
     [on |-> {}, off |-> {"selfMute", "selfDeaf"}],
     [on |-> {"mute"}, off |-> {}],
     [on |-> {"mute", "deaf"}, off |-> {}],
     [on |-> {}, off |-> {"deaf"}],
     [on |-> {}, off |-> {"mute", "deaf"}],
     [on |-> {"suppress"}, off |-> {}],
     [on |-> {}, off |-> {"suppress"}]}

ServerSetFlags(u, f) ==
    /\ ServerMay("flags")
    /\ sIn[u] # None
    /\ sFlags' = [sFlags EXCEPT ![u] = (@ \cup f.on) \ f.off]
    /\ Send(<<UserState(u, None, f.on, f.off, FALSE)>>)
    /\ UNCHANGED <<sParent, sUsed, sLinks, sIn, loggedIn>>

--------------------------------------------------------------------------------
(* Logging in: the server sends what it has, the channels in an order in    *)
(* which parents come first, then links and users, and ServerSync last.     *)

Listings(S) ==
    {s \in [1 .. Cardinality(S) -> S] :
        \A i, j \in DOMAIN s : i # j => s[i] # s[j]}

ParentsFirst(s) ==
    \A i, j \in DOMAIN s : i < j => s[j] \notin Upward(sParent, s[i])

Place(c) ==
    [AboutChannel(c) EXCEPT !.named = TRUE,
                            !.parent = IF c = Root THEN None ELSE sParent[c]]

Links(c) == [AboutChannel(c) EXCEPT !.links = sLinks[c]]

Profile(u, in) == UserState(u, ChannelField(in[u]), sFlags[u], {}, TRUE)

ServerLogin(c) ==
    /\ ~loggedIn /\ c \in sChans
    /\ loggedIn' = TRUE
    /\ sIn' = [sIn EXCEPT ![Me] = c]
    /\ \E cs \in Listings(sChans), us \in Listings({u \in Users : sIn'[u] # None}) :
          /\ ParentsFirst(cs)
          /\ inbox' = [i \in DOMAIN cs |-> Place(cs[i])]
                      \o [i \in DOMAIN cs |-> Links(cs[i])]
                      \o [i \in DOMAIN us |-> Profile(us[i], sIn')]
                      \o <<[type |-> "ServerSync", user |-> Me]>>
    /\ UNCHANGED <<sParent, sUsed, sLinks, sFlags, ops>>

ServerStep ==
    /\ phase = "live"
    /\ \/ \E c \in Channels :
            \/ ServerRemoveChannel(c)
            \/ ServerLogin(c)
            \/ \E d \in Channels :
                 \/ ServerAddChannel(c, d)
                 \/ ServerMoveChannel(c, d)
                 \/ ServerLink(c, d)
                 \/ ServerUnlink(c, d)
       \/ \E u \in Users :
            \/ ServerLeave(u)
            \/ \E c \in Channels : ServerJoin(u, c) \/ ServerMoveUser(u, c)
            \/ \E f \in FlagChanges : ServerSetFlags(u, f)
    /\ UNCHANGED <<phase, tree, people, connectedUser, told, unchain>>

--------------------------------------------------------------------------------
(* The model: one action for each handler, each taking the oldest message. *)

Synced == connectedUser # None

Lookup(c) == IF c \in chans THEN c ELSE None

Handle(type) ==
    /\ phase = "live"
    /\ inbox # <<>> /\ Head(inbox).type = type
    /\ inbox' = Tail(inbox)
    /\ UNCHANGED <<server, phase, unchain>>

(* Mutant: the other channel is not linked to this one. *)
LinkedOneWay(l, c, ds) == [l EXCEPT ![c] = @ \cup ds]

(* linkToChannel for every channel of ds: links are kept at both ends. *)
Linked(l, c, ds) ==
    [x \in Channels |-> IF x = c THEN l[x] \cup ds
                        ELSE IF x \in ds THEN l[x] \cup {c} ELSE l[x]]

(* unlinkFromChannel for every channel of ds. *)
Unlinked(l, c, ds) ==
    LET gone == l[c] \cap ds
    IN  [x \in Channels |-> IF x = c THEN l[x] \ gone
                            ELSE IF x \in gone THEN l[x] \ {c} ELSE l[x]]

(* internalSetLinks, internalAddLinks and internalRemoveLinks, in order.    *)
(* The last unlinks the channel from itself, not from the listed channels.  *)
LinksAfter(m) ==
    LET set == IF m.links = {} THEN linked
               ELSE Linked(Unlinked(linked, m.chan, linked[m.chan]),
                           m.chan, m.links)
        add == Linked(set, m.chan, m.add)
    IN  IF m.remove = {} THEN add ELSE Unlinked(add, m.chan, {m.chan})

(* internalMoveChannel: not when the new parent lies in the subtree of the  *)
(* channel.  Only the channel's own pointer to its parent is changed.       *)
ParentAfterMove(par, c, p) ==
    IF p = None \/ c \in Upward(par, p) THEN par ELSE [par EXCEPT ![c] = p]

(* Mutant: the id of the root channel, which is 0, is taken for no parent. *)
IgnoresUnderRoot(m) == m.chan \notin chans /\ (m.parent \in {None, Root} \/ ~m.named)

(* A channel that is not known is ignored unless it has a parent and a name. *)
Ignores(m) == m.chan \notin chans /\ (m.parent = None \/ ~m.named)

(* Mutant: the parent does not list the new channel. *)
ChildrenUnlisted(c, p) == children

(* internalAddChannel: addChannel of the new parent lists the channel. *)
ChildrenWith(c, p) == IF p = None THEN children ELSE [children EXCEPT ![p] = @ \cup {c}]

(* removeFromParent goes by the channel's own pointer. *)
ChildrenWithout(c) ==
    [x \in Channels |-> IF x = parent[c] THEN children[x] \ {c} ELSE children[x]]

(* A new channel (internalAddChannel) or a change to a known one.  Links    *)
(* are made with the channels they name; nil in their place raises.         *)
HandleChannelState ==
    /\ Handle("ChannelState")
    /\ LET m == Head(inbox)
           c == m.chan
           p == Lookup(m.parent)
           new == c \notin chans
       IN  IF Ignores(m)
           THEN UNCHANGED <<tree, told>>
           ELSE /\ m.links \cup m.add \cup m.remove \subseteq chans
                /\ chans' = chans \cup {c}
                /\ children' = IF new THEN ChildrenWith(c, p) ELSE children
                /\ parent' = ParentAfterMove(
                        IF new THEN [parent EXCEPT ![c] = p] ELSE parent, c, p)
                /\ moved' = IF parent'[c] = parent[c] \/ new THEN moved
                            ELSE moved \cup {c}
                /\ linked' = LinksAfter(m)
                /\ linksTold' = [x \in Channels |->
                        IF x = c /\ Synced THEN m.remove ELSE {}]
                /\ UNCHANGED <<audio, usersTold>>
    /\ UNCHANGED <<people, connectedUser>>

(* internalRemoveChannel.  The root channel stays; links are kept. *)
HandleChannelRemove ==
    /\ Handle("ChannelRemove")
    /\ LET c == Head(inbox).chan
       IN  IF c \notin chans \ {Root}
           THEN UNCHANGED <<tree, told>>
           ELSE /\ children' = ChildrenWithout(c)
                /\ parent' = [parent EXCEPT ![c] = None]
                /\ chans' = chans \ {c}
                /\ UNCHANGED <<linked, moved, told>>
    /\ UNCHANGED <<people, connectedUser>>

(* Mutant: the old channel goes on listing the user. *)
MoveUserInto(u, c) ==
    /\ members' = [members EXCEPT ![c] = @ \cup {u}]
    /\ chanOf' = [chanOf EXCEPT ![u] = c]

(* addUser: out of the old channel and into the new one. *)
MoveUser(u, c) ==
    /\ members' = [x \in Channels |->
           IF x = c THEN members[x] \cup {u} ELSE
           IF x = chanOf[u] THEN members[x] \ {u} ELSE members[x]]
    /\ chanOf' = [chanOf EXCEPT ![u] = c]

(* Mutant: undeafening unmutes. *)
FlagPairUnmuting(f, m, mute, deaf) ==
    LET f1 == IF mute \in m.on THEN f \cup {mute}
              ELSE IF mute \in m.off THEN f \ {mute, deaf} ELSE f
    IN  IF deaf \in m.on THEN f1 \cup {mute, deaf}
        ELSE IF deaf \in m.off THEN f1 \ {mute, deaf} ELSE f1

(* setMuted then setDeafened (or the self- variants) for the fields of a    *)
(* message: unmuting undeafens, deafening mutes.                            *)
FlagPair(f, m, mute, deaf) ==
    LET f1 == IF mute \in m.on THEN f \cup {mute}
              ELSE IF mute \in m.off THEN f \ {mute, deaf} ELSE f
    IN  IF deaf \in m.on THEN f1 \cup {mute, deaf}
        ELSE IF deaf \in m.off THEN f1 \ {deaf} ELSE f1

FlagsAfter(f, m) ==
    (FlagPair(FlagPair(f, m, "selfMute", "selfDeaf"), m, "mute", "deaf")
        \cup (m.on \cap {"suppress"})) \ (m.off \cap {"suppress"})

(* The audio engine is told of the flags of the group a message is about.   *)
AudioAfter(f, m) ==
    LET fields == m.on \cup m.off
        self == IF fields \cap {"selfMute", "selfDeaf"} # {}
                THEN {"selfMute"} ELSE {}
        other == IF fields \cap {"mute", "deaf", "suppress"} # {}
                 THEN {"mute", "suppress"} ELSE {}
    IN  (audio \ (self \cup other)) \cup (f \cap (self \cup other))

(* Mutant: a new user stays out when no channel is named. *)
DestinationNamed(m, new) == Lookup(m.chan)

(* A new user is put into the channel named, or into the root channel; a    *)
(* channel that is not known leaves the user where he is.                   *)
Destination(m, new) == IF m.chan = None /\ new THEN Root ELSE Lookup(m.chan)

(* Mutant: the delegate hears of new users before ServerSync, not after it. *)
UserJoinedEarly(u, new) ==
    IF new /\ ~Synced THEN usersTold \cup {u} ELSE usersTold

UserJoined(u, new) == IF new /\ Synced THEN usersTold \cup {u} ELSE usersTold

(* The audio engine follows the flags of the connected user, which is not   *)
(* known before ServerSync.                                                 *)
HandleUserState ==
    /\ Handle("UserState")
    /\ LET m == Head(inbox)
           u == m.user
           new == u \notin users
           to == Destination(m, new)
           before == IF new THEN {} ELSE flags[u]
           after == FlagsAfter(before, m)
       IN  IF new /\ ~m.named
           THEN UNCHANGED <<people, told>>
           ELSE /\ users' = users \cup {u}
                /\ flags' = [flags EXCEPT ![u] = after]
                /\ IF to \in {None, chanOf[u]} THEN UNCHANGED <<members, chanOf>>
                   ELSE MoveUser(u, to)
                /\ usersTold' = UserJoined(u, new)
                /\ audio' = IF u = connectedUser THEN AudioAfter(after, m)
                            ELSE audio
                /\ UNCHANGED linksTold
    /\ UNCHANGED <<tree, connectedUser>>

(* internalRemoveUser: _connectedUser is not reset. *)
HandleUserRemove ==
    /\ Handle("UserRemove")
    /\ LET u == Head(inbox).user
       IN  IF u \notin users
           THEN UNCHANGED <<people, told>>
           ELSE /\ members' = [x \in Channels |->
                        IF x = chanOf[u] THEN members[x] \ {u} ELSE members[x]]
                /\ chanOf' = [chanOf EXCEPT ![u] = None]
                /\ users' = users \ {u}
                /\ usersTold' = IF Synced THEN usersTold \ {u} ELSE usersTold
                /\ UNCHANGED <<flags, audio, linksTold>>
    /\ UNCHANGED <<tree, connectedUser>>

(* The delegate is told that the server was joined and reads the model.     *)
HandleServerSync ==
    /\ Handle("ServerSync")
    /\ connectedUser' = IF Head(inbox).user \in users THEN Head(inbox).user
                        ELSE None
    /\ usersTold' = users
    /\ UNCHANGED <<tree, people, audio, linksTold>>

--------------------------------------------------------------------------------
(* Deallocation. *)

(* The channels the view shows: reached from c through _channels. *)
Downward(c) ==
    {x \in Channels : \A S \in SUBSET Channels :
        c \in S /\ (\A y \in S : children[y] \subseteq S) => x \in S}

(* dealloc, at any moment: the handler is unset, so that messages still on  *)
(* their way are dropped; removeAllUsersFromChannel empties the channels    *)
(* under the root; removeAllChannels starts.                                *)
Dealloc ==
    /\ phase = "live"
    /\ phase' = "unchaining"
    /\ inbox' = <<>>
    /\ members' = [x \in Channels |->
           IF x \in Downward(Root) THEN {} ELSE members[x]]
    /\ chanOf' = [u \in Users |->
           IF chanOf[u] \in Downward(Root) THEN None ELSE chanOf[u]]
    /\ users' = {}
    /\ pending' = chans
    /\ nparents' = FALSE
    /\ UNCHANGED <<server, tree, flags, connectedUser, told>>

(* One turn of the for loop of removeAllChannels. *)
VisitChannel(c) ==
    /\ phase = "unchaining"
    /\ c \in pending
    /\ pending' = pending \ {c}
    /\ IF parent[c] = None THEN UNCHANGED <<parent, children, nparents>>
       ELSE IF children[c] # {}
       THEN nparents' = TRUE /\ UNCHANGED <<parent, children>>
       ELSE /\ children' = ChildrenWithout(c)
            /\ parent' = [parent EXCEPT ![c] = None]
            /\ UNCHANGED nparents
    /\ UNCHANGED <<server, inbox, phase, chans, linked, moved, people, connectedUser,
                   told>>

(* Mutant: that there were parents is not forgotten. *)
EndPassSticky ==
    /\ phase = "unchaining"
    /\ pending = {}
    /\ IF nparents
       THEN pending' = chans /\ UNCHANGED <<phase, chans>>
       ELSE phase' = "dead" /\ chans' = {} /\ UNCHANGED pending
    /\ UNCHANGED <<server, inbox, parent, children, linked, moved, people,
                   connectedUser, told, nparents>>

(* The end of a pass: another one when a channel still had subchannels. *)
EndPass ==
    /\ phase = "unchaining"
    /\ pending = {}
    /\ IF nparents
       THEN pending' = chans /\ UNCHANGED <<phase, chans>>
       ELSE phase' = "dead" /\ chans' = {} /\ UNCHANGED pending
    /\ nparents' = FALSE
    /\ UNCHANGED <<server, inbox, parent, children, linked, moved, people,
                   connectedUser, told>>

RemoveAllChannels == EndPass \/ \E c \in Channels : VisitChannel(c)

--------------------------------------------------------------------------------
Init ==
    /\ sParent = [c \in Channels |-> IF c = Root THEN Root ELSE None]
    /\ sUsed = {Root}
    /\ sLinks = [c \in Channels |-> {}]
    /\ sIn = [u \in Users |-> None]
    /\ sFlags \in [Users -> {{}, {"suppress"}}]
    /\ \A u \in Users : sFlags[u] # {} => u = Me /\ "flags" \in ServerOps
    /\ loggedIn = FALSE
    /\ ops = 0
    /\ inbox = <<>>
    /\ phase = "live"
    /\ chans = {Root}
    /\ parent = [c \in Channels |-> None]
    /\ children = [c \in Channels |-> {}]
    /\ linked = [c \in Channels |-> {}]
    /\ moved = {}
    /\ members = [c \in Channels |-> {}]
    /\ users = {}
    /\ chanOf = [u \in Users |-> None]
    /\ flags = [u \in Users |-> {}]
    /\ connectedUser = None
    /\ audio = {}
    /\ usersTold = {}
    /\ linksTold = [c \in Channels |-> {}]
    /\ pending = {} /\ nparents = FALSE

HandleMessage ==
    \/ HandleChannelState \/ HandleChannelRemove
    \/ HandleUserState \/ HandleUserRemove \/ HandleServerSync

Next == ServerStep \/ HandleMessage \/ Dealloc \/ RemoveAllChannels

(* The main thread handles the messages in its queue, and a loop it is in   *)
(* runs on; neither the server nor the owner of the model has to act.       *)
Fairness == WF_vars(HandleMessage) /\ WF_vars(RemoveAllChannels)

Spec == Init /\ [][Next]_vars /\ Fairness

--------------------------------------------------------------------------------
(* The link handlers get the channels they name: no message refers to a     *)
(* channel that the earlier messages did not make the model keep, which     *)
(* would put nil into an array.                                             *)
LinksNameKnownChannels ==
    phase = "live" /\ inbox # <<>> /\ Head(inbox).type = "ChannelState" =>
        Head(inbox).links \cup Head(inbox).add \cup Head(inbox).remove
            \subseteq chans

TypeOK ==
    /\ chans \subseteq Channels /\ users \subseteq Users
    /\ parent \in [Channels -> Channels \cup {None}]
    /\ children \in [Channels -> SUBSET Channels]
    /\ linked \in [Channels -> SUBSET Channels]
    /\ moved \subseteq Channels
    /\ members \in [Channels -> SUBSET Users]
    /\ chanOf \in [Users -> Channels \cup {None}]
    /\ flags \in [Users -> SUBSET Flags]
    /\ connectedUser \in Users \cup {None}
    /\ audio \subseteq AudioFlags
    /\ phase \in {"live", "unchaining", "dead"}
    /\ pending \subseteq chans /\ nparents \in BOOLEAN
    /\ LinksNameKnownChannels

(* A user's pointer to his channel and the channel's list of users agree,   *)
(* at every moment, also while the model is torn down.                      *)
MembershipAgrees ==
    \A u \in Users, c \in Channels : u \in members[c] <=> chanOf[u] = c

(* A user on the server always resides in a channel that exists: the        *)
(* ordering of joins, moves and removals never leaves one behind.           *)
UsersReside ==
    phase = "live" => \A u \in users : chanOf[u] \in chans

(* A channel's list of subchannels and the subchannels' pointers to their   *)
(* parent agree, until a channel is moved.                                  *)
TreeAgrees ==
    moved = {} =>
        \A c, p \in Channels : c \in children[p] <=> parent[c] = p

(* Links are kept at both ends. *)
LinksSymmetric == \A c, d \in Channels : c \in linked[d] <=> d \in linked[c]

(* When every message has been handled the model is the server's state:     *)
(* the channels and their parents, the users, where they are and all their  *)
(* mute flags; no link of the server is missing, whatever was linked,       *)
(* unlinked, moved or removed before (a link too many there may be, see     *)
(* below); and until a channel is moved all channels are reached from the   *)
(* root through the lists.                                                  *)
UpToDate == phase = "live" /\ loggedIn /\ inbox = <<>>

ChannelsMirrored ==
    /\ chans = sChans
    /\ \A c \in chans \ {Root} : parent[c] = sParent[c]
    /\ moved = {} => chans = Downward(Root)

UsersMirrored ==
    /\ users = {u \in Users : sIn[u] # None}
    /\ \A u \in users : chanOf[u] = sIn[u] /\ flags[u] = sFlags[u]

NoLinkIsMissing == \A c \in chans : sLinks[c] \subseteq linked[c]

ServerMirrored == UpToDate => ChannelsMirrored /\ UsersMirrored /\ NoLinkIsMissing

(* What the others were told agrees with the model: a delegate that follows *)
(* userJoined and userLeft knows exactly the users once the server is       *)
(* joined, and the audio engine is never muted for a reason the connected   *)
(* user's flags do not give.                                                *)
UsersAnnounced == Synced => usersTold = users

NeverMutedWithoutReason ==
    connectedUser \in users => audio \subseteq flags[connectedUser]

OthersKnowModel == phase = "live" => UsersAnnounced /\ NeverMutedWithoutReason

(* removeAllChannels comes to an end, unless a channel was moved. *)
TeardownEnds == phase = "unchaining" /\ moved = {} ~> phase = "dead"

--------------------------------------------------------------------------------
(* What header and comments promise, and the code does not keep. *)

(* removeAllChannels removes all channels, also those that were moved.      *)
AllChannelsRemoved == phase = "unchaining" ~> phase = "dead"

(* linksRemoved reports "channels that were unlinked from the channel".     *)
RemovedLinksAreGone ==
    phase = "live" =>
        \A c \in chans : linksTold[c] \cap linked[c] = {}
================================================================================
