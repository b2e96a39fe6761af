------------------------------ MODULE MCRejoin ------------------------------
(***************************************************************************)
(* A member leaves a public channel and wants it back: they ask for        *)
(* everything a member may ask of a channel, over and over, and so do      *)
(* those who would invite them.  Nobody hides it from them: the owner's    *)
(* switch is not used.                                                     *)
(***************************************************************************)
EXTENDS Governance

CONSTANT Leaver

\* What concerns a channel and its members, but for the switch.
ChannelOps ==
    { "joinWorkspace", "createChannel", "leaveChannel", "markChannelAsRead",
      "socketMarkChannelAsRead", "inviteToChannel" }

By(r) == req[r] # Idle /\ req[r].actor = Leaver
For(r) == req[r] # Idle /\ req[r].target = Leaver

\* Opening the channel and being invited are asked for again and again, a
\* request comes to an end, and a handler that may go on does not fail every time.
Trying ==
    /\ WF_vars(\E r \in Requests : Notify(r) \/ Abort(r))
    /\ \A c \in Channels :
         /\ SF_vars(\E r \in Requests : MarkReadLookup(r, Leaver, c))
         /\ SF_vars(\E r \in Requests : SocketMarkReadLookup(r, Leaver, c))
         /\ SF_vars(\E r \in Requests, u \in Users : InviteAuthorise(r, u, Leaver, c))
    /\ SF_vars(\E r \in Requests : By(r) /\ MarkReadCheck(r))
    /\ SF_vars(\E r \in Requests : By(r) /\ MarkReadUpsert(r))
    /\ SF_vars(\E r \in Requests : By(r) /\ SocketMarkReadUpsert(r))
    /\ SF_vars(\E r \in Requests : For(r) /\ InviteCheck(r))
    /\ SF_vars(\E r \in Requests : For(r) /\ InviteFilter(r))
    /\ SF_vars(\E r \in Requests : For(r) /\ InviteDedupe(r))
    /\ SF_vars(\E r \in Requests : For(r) /\ InviteInsert(r))

TryingSpec == Spec /\ Trying

\* A public channel that a member has left is theirs again if they want it
\* ("hidden per user so they can be intentionally rejoined later",
\* channelController 319-320).
PublicChannelsAreRejoined ==
    \A c \in Channels :
      access[c][Leaver] = "hidden" /\ type[c] = "PUBLIC"
        ~> c \in getWorkspaceChannels(Leaver) \/ ~ Exists(c) \/ ~ IsMember(Leaver)
=============================================================================
