-------------------------------- MODULE Notices --------------------------------
(***************************************************************************)
(* Who is notified of a message (module notifications): what the members   *)
(* of a channel have asked for, for the workspace and for the channel, and *)
(* the rows of notifications they get, read and list.                      *)
(*                                                                         *)
(* A client shows the settings by one query and the recipients of a        *)
(* message are chosen by another; each fills in what is missing.  A        *)
(* setting may change, a mute run out, a member come and go between the    *)
(* message and its notifications.  Quiet hours are stored and no query     *)
(* reads them.  'mentions' is kept and shown for a channel too, and the    *)
(* query of the recipients heeds it for the workspace alone.               *)
(***************************************************************************)
EXTENDS Naturals, FiniteSets

CONSTANTS
    Readers,     \* users of a workspace with one channel
    Posts,       \* messages of the channel, with their event
    AuthorOf, MentionsOf,
    MaxNotices   \* bound: changes of settings and members

Modes == {"all", "mentions", "muted"}
Untils == {"none", "later", "past"}

ASSUME PostAssumption ==
    AuthorOf \in [Posts -> Readers] /\ MentionsOf \in [Posts -> SUBSET Readers]
ASSUME NoticeAssumption == MaxNotices \in Nat

VARIABLES
    inSpace, inChannel,  \* members, of the workspace and of the channel
    spaceUp,             \* the workspace is active, in an active zone
    wish,                \* notification_preferences: mode, or "none" without a row
    channelWish,         \* notification_channel_preferences: mode and muted_until
    notice,              \* notifications: type by message and user
    readBy,              \* those with a read_at
    shown,               \* history: both settings as shown when a notice was written
    wishes               \* number of changes

settingVars == <<inSpace, inChannel, spaceUp, wish, channelWish, wishes>>
noticeVars  == <<settingVars, notice, readBy, shown>>

NoWish  == [mode |-> "none", until |-> "none"]
NoSight == [space |-> "none", channel |-> NoWish]

NoticesTypeOK ==
    /\ inSpace \subseteq Readers /\ inChannel \subseteq Readers /\ spaceUp \in BOOLEAN
    /\ wish \in [Readers -> Modes \cup {"none"}]
    /\ channelWish \in [Readers -> [mode : Modes \cup {"none"}, until : Untils]]
    /\ notice \in [Posts -> [Readers -> {"none", "message", "mention"}]]
    /\ readBy \subseteq Posts \X Readers
    /\ wishes \in 0..MaxNotices

NoticesInit ==
    /\ inSpace = Readers /\ inChannel = Readers /\ spaceUp = TRUE
    /\ wish = [u \in Readers |-> "none"] /\ channelWish = [u \in Readers |-> NoWish]
    /\ notice = [e \in Posts |-> [u \in Readers |-> "none"]] /\ readBy = {}
    /\ shown = [e \in Posts |-> [u \in Readers |-> NoSight]] /\ wishes = 0

-----------------------------------------------------------------------------
(* What a user sees of his settings: Repository.GetPreference, for a       *)
(* member of an active workspace, and GetChannelPreference, for a member   *)
(* of the channel.  "none" is the answer to anybody else.                  *)
GetPreference(u) ==
    IF u \notin inSpace \/ ~spaceUp THEN "none"
    ELSE IF wish[u] = "none" THEN "all" ELSE wish[u]

GetChannelPreference(u) ==
    IF u \notin inChannel \/ ~spaceUp THEN NoWish
    ELSE IF channelWish[u].mode = "none" THEN [NoWish EXCEPT !.mode = "all"] ELSE channelWish[u]

Settings(u) == [space |-> GetPreference(u), channel |-> GetChannelPreference(u)]

(* normalizePreferenceInput and normalizeChannelPreferenceInput: a mode    *)
(* that is not named is 'all'; no other is accepted.                       *)
Normalized(mode) == IF mode = "" THEN "all" ELSE mode
Accepted(mode) == Normalized(mode) \in Modes

Changes == wishes < MaxNotices /\ wishes' = wishes + 1 /\ UNCHANGED <<notice, readBy, shown>>

UpsertPreference(u) ==
    /\ Changes /\ u \in inSpace /\ spaceUp
    /\ \E mode \in Modes \cup {"", "loud"} :
          Accepted(mode) /\ wish' = [wish EXCEPT ![u] = Normalized(mode)]
    /\ UNCHANGED <<inSpace, inChannel, spaceUp, channelWish>>

UpsertChannelPreference(u) ==
    /\ Changes /\ u \in inChannel /\ spaceUp
    /\ \E mode \in Modes \cup {"", "loud"}, until \in {"none", "later"} :
          /\ Accepted(mode)
          /\ channelWish' =
                [channelWish EXCEPT ![u] = [mode |-> Normalized(mode), until |-> until]]
    /\ UNCHANGED <<inSpace, inChannel, spaceUp, wish>>

-----------------------------------------------------------------------------
(* The recipients of CreateMessageNotifications.                           *)

(* Mutant: 'mentions' for the workspace is read as 'all'.                  *)
WantsUnlessMuted(u, e) == wish[u] # "muted"

Wants(u, e) ==
    \/ wish[u] \in {"none", "all"}
    \/ wish[u] = "mentions" /\ u \in MentionsOf[e]

Hears(u) == channelWish[u].mode # "muted" /\ channelWish[u].until # "later"

Recipients(e) ==
    {u \in inChannel \ {AuthorOf[e]} :
        Wants(u, e) /\ Hears(u) /\ notice[e][u] = "none"}

(* One statement; it runs again when the event is retried.                 *)
CreateMessageNotifications(e) ==
    /\ notice' = [notice EXCEPT ![e] = [u \in Readers |->
                     IF u \notin Recipients(e) THEN @[u]
                     ELSE IF u \in MentionsOf[e] THEN "mention" ELSE "message"]]
    /\ shown' = [shown EXCEPT ![e] = [u \in Readers |->
                     IF u \notin Recipients(e) THEN @[u]
                     ELSE Settings(u)]]
    /\ UNCHANGED <<settingVars, readBy>>

(* ListForUser, MarkRead and MarkAllRead, of an active workspace.          *)
ListForUser(u) == {e \in Posts : notice[e][u] # "none" /\ spaceUp}

Reads(S) == readBy' = readBy \cup S /\ UNCHANGED <<settingVars, notice, shown>>

MarkRead(u)    == \E e \in ListForUser(u) : Reads({<<e, u>>})
MarkAllRead(u) == Reads(ListForUser(u) \X {u})

-----------------------------------------------------------------------------
(* Members, the zone and time.                                             *)

Toggled(S, u) == IF u \in S THEN S \ {u} ELSE S \cup {u}

MembersChange ==
    /\ Changes
    /\ \E u \in Readers :
          \/ inSpace' = Toggled(inSpace, u) /\ UNCHANGED <<inChannel, spaceUp>>
          \/ inChannel' = Toggled(inChannel, u) /\ UNCHANGED <<inSpace, spaceUp>>
          \/ spaceUp' = ~spaceUp /\ UNCHANGED <<inSpace, inChannel>>
    /\ UNCHANGED <<wish, channelWish>>

MuteRunsOut(u) ==
    /\ channelWish[u].until = "later"
    /\ channelWish' = [channelWish EXCEPT ![u].until = "past"]
    /\ UNCHANGED <<inSpace, inChannel, spaceUp, wish, wishes, notice, readBy, shown>>

NoticesNext ==
    \/ \E u \in Readers :
          \/ UpsertPreference(u) \/ UpsertChannelPreference(u)
          \/ MarkRead(u) \/ MarkAllRead(u) \/ MuteRunsOut(u)
    \/ \E e \in Posts : CreateMessageNotifications(e)
    \/ MembersChange

NoticesSpec == NoticesInit /\ [][NoticesNext]_noticeVars

-----------------------------------------------------------------------------
(* What settings ask for, as a client that shows them must read them: a    *)
(* 'mentions' of either kind asks for mentions only.                       *)
AskedFor(type, s) ==
    /\ s.space # "muted" /\ s.channel.mode # "muted" /\ s.channel.until # "later"
    /\ "mentions" \in {s.space, s.channel.mode} => type = "mention"

(* The 'mentions' of a channel, which the recipients' query does not heed: *)
(* nothing else of what was shown speaks against the notice.               *)
ChannelMentionsUnheeded(type, s) ==
    /\ s.channel.mode = "mentions" /\ type = "message"
    /\ s.space \notin {"muted", "mentions"} /\ s.channel.until # "later"

(* Between a message and its notices settings are saved, mutes run out and *)
(* members come and go.  A notice went to somebody whose settings, as two  *)
(* other queries showed them when it was written, asked for it: neither    *)
(* the workspace nor the channel muted, and a mention where the workspace  *)
(* was set to 'mentions'.  One setting is not heeded: who has set the      *)
(* channel to 'mentions', and is shown that, is told of every message.     *)
(* The author never is, and only a notice is read.                         *)
NoticesWereWanted ==
    /\ \A e \in Posts, u \in Readers : notice[e][u] # "none" =>
          /\ u # AuthorOf[e] /\ (notice[e][u] = "mention" <=> u \in MentionsOf[e])
          /\ \/ AskedFor(notice[e][u], shown[e][u])
             \/ ChannelMentionsUnheeded(notice[e][u], shown[e][u])
    /\ \A x \in readBy : notice[x[1]][x[2]] # "none"
=============================================================================
