------------------------- MODULE MUServerViewController -------------------------
(***************************************************************************)
(* The table of channels and users on the screen, composed with the model  *)
(* it shows.  The controller flattens the tree of the model into an array  *)
(* of rows and hears of changes as a delegate of the model; UITableView    *)
(* keeps a count of the rows it was told of and raises an exception when   *)
(* an update does not add up, or names a row that is not there.            *)
(*                                                                         *)
(* The server view is always in server mode: toggleMode has no caller.     *)
(* Every flattening that meets the channel of a certain name asks the      *)
(* server to move this user there.                                         *)
(***************************************************************************)
EXTENDS MKServerModel, SequencesExt

CONSTANT AutoChannel   \* the channel with the name addChannelTreeToModel looks for

ASSUME AutoAssumption == AutoChannel \in Channels

(* A row shows an MKChannel or an MKUser: no object is both.                *)
ASSUME RowAssumption == Channels \cap Users = {}

VARIABLES
    chanOrder,  \* the order of the channels in every _channels
    userOrder,  \* the order of the users in every _users
    modelItems, \* _modelItems, _userIndexMap and _channelIndexMap: the rows
    rowCount,   \* the number of rows UITableView knows of
    raised,     \* UITableView has raised an exception
    asked       \* a request to join AutoChannel is on its way to the server

orders == <<chanOrder, userOrder>>
table == <<modelItems, rowCount, raised>>
viewVars == <<orders, table, asked>>
allVars == <<vars, viewVars>>

--------------------------------------------------------------------------------
(* What f has for the elements of s, one after the other. *)
Along(s, f) == FlattenSeq([i \in DOMAIN s |-> f[s[i]]])

(* The elements of s that are in S, in their order: the array of a channel  *)
(* is an order of all channels, or users, with only its own left.           *)
Only(S) == [x \in Channels \cup Users |-> IF x \in S THEN <<x>> ELSE <<>>]
Chosen(s, S) == Along(s, Only(S))

(* addChannelTreeToModel: a channel, its users, and the trees below it.     *)
Trees(kids, in, cs, us, below) ==
    [c \in Channels |->
        <<c>> \o Chosen(us, in[c])
        \o Along(cs, [d \in Channels |-> IF d \in kids[c] THEN below[d] ELSE <<>>])]

Flattened(kids, in, cs, us) ==
    LET rows[n \in 0 .. Cardinality(Channels)] ==
            IF n = 0 THEN [c \in Channels |-> <<>>]
            ELSE Trees(kids, in, cs, us, rows[n - 1])
    IN  rows[Cardinality(Channels)][Root]

(* removeUser closes the gap; addChannel and addUser put the newcomer at    *)
(* the end of the array.                                                    *)
Without(s, x) == Chosen(s, (Channels \cup Users) \ {x})
PutLast(s, x) == Append(Without(s, x), x)

(* indexForUser: and indexForChannel:, 0 for NSNotFound; the maps hold the  *)
(* last row that was set.                                                   *)
IndexOf(rows, x) ==
    LET at == {i \in DOMAIN rows : rows[i] = x}
    IN  IF at = {} THEN 0 ELSE Max(at)

(* Mutant: only a table that is new asks. *)
AskedOnce(rows) == asked \/ (modelItems = <<>> /\ Contains(rows, AutoChannel))

(* joinChannel: is sent while the rows are collected. *)
AskedAfter(rows) == asked \/ Contains(rows, AutoChannel)

(* rebuildModelArrayFromChannel: *)
Rebuild ==
    /\ modelItems' = Flattened(children', members', chanOrder', userOrder')
    /\ asked' = AskedAfter(modelItems')

(* reloadData: whatever there is now is what the table shows. *)
ReloadData == rowCount' = Len(modelItems') /\ UNCHANGED raised

(* Rows are deleted and inserted: their number must come out right, and     *)
(* each of them be a row, of the old rows or of the new.                    *)
Update(deleted, inserted) ==
    /\ rowCount' = Len(modelItems')
    /\ raised' = (\/ raised
                  \/ rowCount - Len(deleted) + Len(inserted) # Len(modelItems')
                  \/ \E i \in DOMAIN deleted : deleted[i] \notin 1 .. rowCount
                  \/ \E i \in DOMAIN inserted :
                        inserted[i] \notin 1 .. Len(modelItems'))

TableUnchanged == UNCHANGED <<table, asked>>

--------------------------------------------------------------------------------
(* The delegate methods, with the handlers that call them. *)

(* Mutant: a channel that is where it should be is not said to be moved, so *)
(* that new ones are not announced at all.                                  *)
ChannelMovedToldOnce(m) ==
    /\ Synced /\ m.parent # None
    /\ parent'[m.chan] = Lookup(m.parent) /\ parent[m.chan] # Lookup(m.parent)
    /\ m.chan \in chans

(* internalMoveChannel tells the delegate for every channel with a parent,  *)
(* new ones included, unless it would be moved into itself.                 *)
ChannelMovedTold(m) ==
    /\ Synced /\ ~Ignores(m)
    /\ Lookup(m.parent) # None
    /\ m.chan \notin Upward(parent, Lookup(m.parent))

(* serverModel:channelMoved: *)
ViewChannelState ==
    /\ HandleChannelState
    /\ LET m == Head(inbox)
       IN  /\ chanOrder' = IF m.chan \in chans' \ chans
                           THEN PutLast(chanOrder, m.chan) ELSE chanOrder
           /\ UNCHANGED userOrder
           /\ IF ChannelMovedTold(m) THEN Rebuild /\ ReloadData
              ELSE TableUnchanged

(* serverModel:channelRemoved: *)
ViewChannelRemove ==
    /\ HandleChannelRemove
    /\ UNCHANGED orders
    /\ IF Synced /\ Head(inbox).chan \in chans \ {Root}
       THEN Rebuild /\ ReloadData
       ELSE TableUnchanged

(* Mutant: the row of a user who is new is deleted like any other. *)
DeletedAlways(u) == <<IndexOf(modelItems, u)>>

(* A user who was in a channel has a row. *)
DeletedRows(u) == IF chanOf[u] = None THEN <<>> ELSE <<IndexOf(modelItems, u)>>

(* serverModel:userMoved:toChannel:fromChannel:byUser: *)
ViewUserState ==
    /\ HandleUserState
    /\ LET u == Head(inbox).user
       IN  IF chanOf'[u] = chanOf[u] THEN UNCHANGED viewVars
           ELSE /\ userOrder' = PutLast(userOrder, u)
                /\ UNCHANGED chanOrder
                /\ IF Synced
                   THEN /\ Rebuild
                        /\ Update(DeletedRows(u), <<IndexOf(modelItems', u)>>)
                   ELSE TableUnchanged

(* serverModel:userLeft: *)
ViewUserRemove ==
    /\ HandleUserRemove
    /\ LET u == Head(inbox).user
           idx == IndexOf(modelItems, u)
       IN  /\ userOrder' = Without(userOrder, u)
           /\ UNCHANGED chanOrder
           /\ IF Synced /\ idx # 0
              THEN Rebuild /\ Update(<<idx>>, <<>>)
              ELSE TableUnchanged

(* serverModel:joinedServerAsUser: *)
ViewServerSync ==
    /\ HandleServerSync
    /\ UNCHANGED orders
    /\ Rebuild /\ ReloadData

(* viewWillAppear: the user returns from another view. *)
ViewWillAppear ==
    /\ phase = "live" /\ Synced
    /\ UNCHANGED <<vars, orders>>
    /\ Rebuild /\ ReloadData

(* The server moves this user to the channel asked for, if it can. *)
ServerGrants ==
    /\ phase = "live" /\ asked
    /\ asked' = FALSE
    /\ IF AutoChannel \in sChans /\ sIn[Me] \notin {None, AutoChannel}
       THEN /\ sIn' = [sIn EXCEPT ![Me] = AutoChannel]
            /\ Send(<<UserState(Me, AutoChannel, {}, {}, FALSE)>>)
       ELSE UNCHANGED <<sIn, inbox>>
    /\ UNCHANGED <<sParent, sUsed, sLinks, sFlags, loggedIn, ops, phase, tree,
                   people, connectedUser, told, unchain, orders, table>>

ViewHandleMessage ==
    \/ ViewChannelState \/ ViewChannelRemove
    \/ ViewUserState \/ ViewUserRemove \/ ViewServerSync

ViewInit ==
    /\ Init
    /\ chanOrder = <<Root>> /\ userOrder = <<>>
    /\ modelItems = <<>> /\ rowCount = 0 /\ raised = FALSE
    /\ asked = FALSE

(* The model is deallocated after the view, which retains it. *)
ViewNext ==
    \/ ViewHandleMessage \/ ViewWillAppear \/ ServerGrants
    \/ ServerStep /\ UNCHANGED viewVars
    \/ Dealloc /\ UNCHANGED viewVars
    \/ RemoveAllChannels /\ UNCHANGED viewVars

(* The main thread as in MKServerModel; the server answers requests.        *)
ViewFairness ==
    /\ WF_allVars(ViewHandleMessage)
    /\ WF_allVars(RemoveAllChannels /\ UNCHANGED viewVars)
    /\ WF_allVars(ServerGrants)

ViewSpec == ViewInit /\ [][ViewNext]_allVars /\ ViewFairness

--------------------------------------------------------------------------------
(* UITableView never raises: every batch of deletions and insertions adds   *)
(* up with the rows before and after it, and names rows that are there,     *)
(* until a channel is moved (the table cannot show what the root does not   *)
(* reach any more).                                                         *)
UpdatesAddUp == moved = {} => ~raised /\ rowCount = Len(modelItems)

(* The table shows the model: each change of the tree, of its order and of  *)
(* who is where comes with a notification that the table heeds, new         *)
(* channels included, for which channelAdded: is never sent.                *)
TableShowsModel ==
    phase = "live" /\ Synced =>
        modelItems = Flattened(children, members, chanOrder, userOrder)

(* Whoever moves this user out of AutoChannel, the table brings him back    *)
(* for as long as that channel exists and is to be seen.                    *)
AutoShown == AutoChannel \in chans \cap Downward(Root)

BroughtBack ==
    phase = "live" /\ Synced /\ AutoShown
        ~> phase # "live" \/ Me \notin users \/ chanOf[Me] = AutoChannel \/ ~AutoShown
================================================================================
