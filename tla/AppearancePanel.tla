--------------------------- MODULE AppearancePanel ---------------------------
(***************************************************************************)
(* The appearance part of the system page (webui-log                        *)
(* SystemControlManager.vue, SystemAppearancePanel.vue, panelBackground.js,  *)
(* appearanceTextColor.js and appearanceButtonColor.js): two sets of colours *)
(* that are saved while the user is still picking, and the background of the *)
(* panels with its history of uploaded pictures.                             *)
(***************************************************************************)
EXTENDS WebPage

CONSTANTS
    Colors,         \* colours the user may pick
    Default,        \* the colour of a theme that has none of its own
    Urls            \* addresses of pictures

Themes == {"light", "dark"}
ColorKinds == {"text", "button"}
Background == "background"

Look(mode, url, upload) == [mode |-> mode, url |-> url, upload |-> upload]
Plain == Look("none", None, None)
DefaultColors == [t \in Themes |-> Default]

AppearanceServers ==
    {[text |-> DefaultColors, button |-> DefaultColors, background |-> Plain, history |-> uploads]
        : uploads \in {{}, Slots}}

AppearanceFresh ==
    [kind |-> "appearance", mounted |-> TRUE, busy |-> {}, visit |-> Background,
     theme |-> "light", colors |-> DefaultColors, colorTimer |-> FALSE,
     draft |-> Plain, shown |-> Plain, history |-> {}, historyOpen |-> FALSE, historyBusy |-> None]

-----------------------------------------------------------------------------
(* What the server does with pictures: a look that uses an upload is refused *)
(* when the upload is gone, and who forgets an upload in use goes plain.     *)
Choose(look) == [op |-> "special", key |-> "choose", at |-> None, val |-> look]
Upload == [op |-> "special", key |-> "upload", at |-> None, val |-> None]
Forget(upload) == [op |-> "special", key |-> "forget", at |-> None, val |-> upload]

(* The picture that stands for all of them; it is no number of an upload.    *)
EveryUpload == 0
Forgets(upload) == IF upload = EveryUpload THEN server.history ELSE {upload}

NewUpload == CHOOSE n \in Slots \ server.history : TRUE

PicturesAfter(request) ==
    CASE request.key = "choose" -> [server EXCEPT !.background = request.val]
      [] request.key = "upload" -> [server EXCEPT !.history = @ \cup {NewUpload}]
      [] request.key = "forget" ->
            [server EXCEPT !.history = @ \ Forgets(request.val),
                           !.background = IF @.mode = "upload" /\ @.upload \in Forgets(request.val)
                                          THEN Plain ELSE @]

PictureAllowed(request) ==
    CASE request.key = "choose" -> request.val.mode = "upload" => request.val.upload \in server.history
      [] request.key = "upload" -> Slots \ server.history # {}
      [] request.key = "forget" -> Forgets(request.val) \subseteq server.history

PictureAnswer(request) == IF request.key = "upload" THEN NewUpload ELSE request.val

ServePicture == \E i \in DOMAIN tasks : \E k \in Waiting(i) :
    LET request == tasks[i].ask[k]
    IN  /\ request.op = "special"
        /\ \/ Refuse(i, k)
           \/ /\ ~PictureAllowed(request)
              /\ GiveReply(i, k, Failed)
              /\ UNCHANGED <<page, server, dialog, spent>>
           \/ /\ PictureAllowed(request)
              /\ server' = PicturesAfter(request)
              /\ \/ GiveReply(i, k, Good(PictureAnswer(request))) /\ UNCHANGED spent
                 \/ GiveReply(i, k, Failed) /\ Fault
              /\ UNCHANGED <<page, dialog>>

-----------------------------------------------------------------------------
(* Colours.  A save that comes while another is under way is queued: when    *)
(* the answer is back, which replaces what the page has, it is made then.    *)
Saving == "colorSaving"
Queued == "colorQueued"

SaveColors(p) ==
    \/ /\ Saving \in p.busy
       /\ page' = Raise(p, {Queued})
       /\ UNCHANGED <<tasks, spent>>
    \/ /\ Saving \notin p.busy
       /\ page' = Raise(p, {Saving})
       /\ Begin("saveColors", One(Put(p.visit, p.colors)), None, {Saving})

(* The pickers are disabled during a save.  Dragging saves 180 ms after the  *)
(* last move, closing the picker and the default button save at once.        *)
ColorsInReach == Clickable /\ page.visit \in ColorKinds /\ Saving \notin page.busy

PickedColor(p, c) == [p EXCEPT !.colors[p.theme] = c]
KnownColors(p, colors) == [p EXCEPT !.colors = colors]

DragColor == \E c \in Colors :
    /\ ColorsInReach
    /\ page' = [PickedColor(page, c) EXCEPT !.colorTimer = TRUE]
    /\ OnlyPage

PickColor == \E c \in Colors \cup {Default} :
    /\ ColorsInReach
    /\ SaveColors(PickedColor(page, c))
    /\ UNCHANGED <<server, dialog>>

ColorTimerFires ==
    /\ page.colorTimer
    /\ SaveColors([page EXCEPT !.colorTimer = FALSE])
    /\ UNCHANGED <<server, dialog>>

ColorsSaved(i) ==
    LET known == KnownColors(page, Settled(i, "only", page.colors))
    IN  /\ i \in Replied("saveColors")
        /\ \/ /\ Queued \in page.busy
              /\ page' = [known EXCEPT !.busy = @ \ {Queued}]
              /\ Await(i, "saveColors", One(Put(page.visit, known.colors)), None, {Saving})
           \/ Queued \notin page.busy /\ page' = Lower(known, i) /\ End(i)
        /\ UNCHANGED <<server, dialog>>

(* loadTextColorSettings, loadButtonColorSettings                            *)
ColorsRead(i) ==
    /\ i \in Replied("loadColors")
    /\ page' = KnownColors(page, Settled(i, "only", page.colors))
    /\ End(i)
    /\ UNCHANGED <<server, dialog>>

-----------------------------------------------------------------------------
(* previewPanelBackground: a look with a picture shows once the picture has  *)
(* loaded, and a picture that does not load shows the plain look.            *)
InUse(look) ==
    Look(look.mode, IF look.mode = "url" THEN look.url ELSE None,
                    IF look.mode = "upload" THEN look.upload ELSE None)

HasPicture(look) == look.mode \in {"url", "upload"} /\ InUse(look) # Look(look.mode, None, None)
LoadPicture(look) == IF HasPicture(look) THEN One(Call("picture", None)) ELSE Nothing

(* An upload reads the history beside what it applies.                       *)
HistoryLoading == "historyLoading"
Beside(ask, lower) == IF HistoryLoading \in lower THEN Extend(ask, "history", Get("history")) ELSE ask

HistoryShown(i, p) ==
    IF HistoryLoading \in tasks[i].lower
    THEN [p EXCEPT !.history = Settled(i, "history", @), !.busy = @ \ {HistoryLoading}]
    ELSE p

Preview(i, p, then, lower) ==
    /\ page' = p
    /\ Await(i, "preview", Beside(LoadPicture(p.draft), lower), [look |-> InUse(p.draft), then |-> then], lower)

PreviewDraft(p) ==
    /\ page' = p
    /\ Begin("preview", LoadPicture(p.draft), [look |-> InUse(p.draft), then |-> "end"], {})
    /\ UNCHANGED <<server, dialog>>

(* applyPanelBackgroundSettings: the mode follows the address in the form,   *)
(* and a look with a picture is posted only after the picture has loaded.    *)
ModeToApply(draft) ==
    CASE draft.mode = "upload"                      -> "upload"
      [] draft.mode # "upload" /\ draft.url # None -> "url"
      [] draft.mode = "color" /\ draft.url = None  -> "color"
      [] OTHER                                      -> "none"

Applying(p) == Raise([p EXCEPT !.draft.mode = ModeToApply(p.draft)], {"applying"})

PostLook(i, p, look, lower) ==
    /\ page' = p
    /\ Await(i, "postLook", Beside(One(Choose(look)), lower), None, lower)

(* What was raised is lowered but for the history's, which is over by itself.*)
StillToLower(i) == tasks[i].lower \ {HistoryLoading}

Loaded(i) == "only" \in DOMAIN tasks[i].ask => Reply(i).ok

Previewed(i) ==
    LET m == tasks[i].mem
        p == [HistoryShown(i, page) EXCEPT !.shown = IF Loaded(i) THEN m.look ELSE Plain]
        beside == IF "uploading" \in tasks[i].lower THEN {HistoryLoading} ELSE {}
        q == Raise(Applying(p), beside)
        lower == StillToLower(i) \cup {"applying"} \cup beside
    IN  /\ i \in Replied("preview")
        /\ \/ /\ m.then = "end" \/ (m.then \in {"apply", "post"} /\ ~Loaded(i))
              /\ page' = Lower(p, i) /\ End(i)
           \/ /\ m.then = "apply" /\ Loaded(i)
              /\ \/ HasPicture(q.draft) /\ Preview(i, q, "post", lower)
                 \/ ~HasPicture(q.draft) /\ PostLook(i, q, InUse(q.draft), lower)
           \/ m.then = "post" /\ Loaded(i) /\ PostLook(i, p, m.look, StillToLower(i))
           \/ m.then = "again" /\ Preview(i, p, "forgotten", StillToLower(i))
           \/ m.then = "forgotten" /\ page' = Lower([p EXCEPT !.historyBusy = None], i) /\ End(i)
        /\ UNCHANGED <<server, dialog>>

LookPosted(i) ==
    LET p == HistoryShown(i, page)
    IN  /\ i \in Replied("postLook")
        /\ \/ Reply(i).ok /\ Preview(i, [p EXCEPT !.draft = Reply(i).val], "end", StillToLower(i))
           \/ ~Reply(i).ok /\ page' = Lower(p, i) /\ End(i)
        /\ UNCHANGED <<server, dialog>>

-----------------------------------------------------------------------------
(* The form of the background.  The Enter key in the address applies without *)
(* looking at the flags that disable the buttons.                            *)
BackgroundInReach == Clickable /\ Visiting(Background)
BackgroundIdle == BackgroundInReach /\ page.busy \cap {"applying", "uploading"} = {}

TypeUrl == \E u \in Urls \cup {None} :
    /\ BackgroundInReach
    /\ page' = [page EXCEPT !.draft.url = u]
    /\ OnlyPage

PickBackgroundColor == BackgroundIdle /\ PreviewDraft([page EXCEPT !.draft.mode = "color", !.draft.url = None])

(* A slider, and the choice of a theme.                                      *)
SlideBackground == BackgroundInReach /\ PreviewDraft(page)

SetTheme == \E theme \in Themes :
    /\ Clickable
    /\ PreviewDraft([page EXCEPT !.theme = theme])

ApplyBackground ==
    LET entered == {[page EXCEPT !.draft.mode = "url"]} \cup (IF BackgroundIdle THEN {page} ELSE {})
    IN  /\ BackgroundInReach
        /\ \E p \in entered :
            LET q == Applying(p)
            IN  /\ page' = q
                /\ \/ /\ HasPicture(q.draft)
                      /\ Begin("preview", LoadPicture(q.draft), [look |-> InUse(q.draft), then |-> "post"], {"applying"})
                   \/ /\ ~HasPicture(q.draft)
                      /\ Begin("postLook", One(Choose(InUse(q.draft))), None, {"applying"})
        /\ UNCHANGED <<server, dialog>>

(* onPanelBackgroundFileChange and usePanelBackgroundHistory                 *)
UploadPicture ==
    /\ BackgroundIdle
    /\ page' = Raise(page, {"uploading"})
    /\ Begin("upload", One(Upload), None, {"uploading"})
    /\ UNCHANGED <<server, dialog>>

Uploaded(i) ==
    /\ i \in Replied("upload")
    /\ \/ /\ Reply(i).ok
          /\ Preview(i, [page EXCEPT !.draft.mode = "upload", !.draft.upload = Reply(i).val], "apply", tasks[i].lower)
       \/ ~Reply(i).ok /\ page' = Lower(page, i) /\ End(i)
    /\ UNCHANGED <<server, dialog>>

HistoryInReach == BackgroundInReach /\ page.historyOpen

UseHistory == \E n \in page.history :
    LET p == [page EXCEPT !.draft.mode = "upload", !.draft.upload = n]
    IN  /\ HistoryInReach /\ page.historyBusy # n
        /\ page' = p
        /\ Begin("preview", LoadPicture(p.draft), [look |-> InUse(p.draft), then |-> "apply"], {})
        /\ UNCHANGED <<server, dialog>>

ToggleHistory ==
    /\ BackgroundIdle /\ HistoryLoading \notin page.busy
    /\ LET p == [page EXCEPT !.historyOpen = ~@]
       IN  \/ ~p.historyOpen /\ page' = p /\ UNCHANGED <<tasks, spent>>
           \/ /\ p.historyOpen
              /\ page' = Raise(p, {HistoryLoading})
              /\ Begin("loadHistory", One(Get("history")), None, {HistoryLoading})
    /\ UNCHANGED <<server, dialog>>

HistoryRead(i) ==
    /\ i \in Replied("loadHistory")
    /\ page' = Lower([page EXCEPT !.history = Settled(i, "only", @)], i)
    /\ End(i)
    /\ UNCHANGED <<server, dialog>>

(* deletePanelBackgroundHistory and clearPanelBackgroundHistory.  The mark   *)
(* of the picture that is being deleted is cleared by any deletion that ends.*)
DeleteHistory == \E upload \in page.history \cup {EveryUpload} :
    /\ HistoryInReach /\ page.historyBusy # upload
    /\ AskFirst("askForget", upload)
    /\ UNCHANGED <<page, server>>

ForgetAnswered(i) ==
    /\ i \in Replied("askForget")
    /\ \/ /\ Reply(i).val
          /\ page' = [page EXCEPT !.historyBusy = tasks[i].mem]
          /\ Await(i, "forget", One(Forget(tasks[i].mem)), tasks[i].mem, {})
       \/ ~Reply(i).val /\ page' = page /\ End(i)
    /\ UNCHANGED <<server, dialog>>

(* loadPanelBackgroundHistory beside loadPanelBackgroundSettings, which does *)
(* nothing while a look is applied or uploaded.                              *)
BackgroundReads(p) ==
    GetAll({"history"} \cup (IF p.busy \cap {"applying", "uploading"} = {} THEN {Background} ELSE {}))

Forgotten(i) ==
    /\ i \in Replied("forget")
    /\ \/ /\ Reply(i).ok
          /\ page' = Raise(page, {HistoryLoading})
          /\ Await(i, "loadBackground", BackgroundReads(page), tasks[i].mem, {HistoryLoading})
       \/ ~Reply(i).ok /\ page' = [page EXCEPT !.historyBusy = None] /\ End(i)
    /\ UNCHANGED <<server, dialog>>

(* Who has forgotten all pictures previews once more.                        *)
BackgroundRead(i) ==
    LET p == HistoryShown(i, page)
        upload == tasks[i].mem
        got == Background \in DOMAIN tasks[i].ask /\ tasks[i].got[Background].ok
        then == CASE upload = None        -> "end"
                  [] upload = EveryUpload -> "again"
                  [] OTHER                -> "forgotten"
    IN  /\ i \in Replied("loadBackground")
        /\ \/ got /\ Preview(i, [p EXCEPT !.draft = tasks[i].got[Background].val], then, StillToLower(i))
           \/ ~got /\ then = "again" /\ Preview(i, p, "forgotten", StillToLower(i))
           \/ ~got /\ then = "forgotten" /\ page' = Lower([p EXCEPT !.historyBusy = None], i) /\ End(i)
           \/ ~got /\ then = "end" /\ page' = Lower(p, i) /\ End(i)
        /\ UNCHANGED <<server, dialog>>

-----------------------------------------------------------------------------
(* resetAppearanceSettings shows the defaults, then posts all three.         *)
ResetAppearance ==
    /\ Clickable /\ page.busy \cap {"applying", "uploading", Saving} = {}
    /\ AskFirst("askReset", None)
    /\ UNCHANGED <<page, server>>

ResetAnswered(i) ==
    /\ i \in Replied("askReset")
    /\ \/ /\ Reply(i).val
          /\ page' = [page EXCEPT !.theme = "light", !.colors = DefaultColors, !.draft = Plain,
                                  !.shown = Plain, !.historyOpen = FALSE]
          /\ Await(i, "postReset", [k \in {"text", "button", Background} |->
                        IF k = Background THEN Choose(Plain) ELSE Put(k, DefaultColors)], None, {})
       \/ ~Reply(i).val /\ page' = page /\ End(i)
    /\ UNCHANGED <<server, dialog>>

ResetPosted(i) ==
    /\ i \in Replied("postReset")
    /\ End(i)
    /\ UNCHANGED <<page, server, dialog>>

AppearanceMounted == \E visit \in ColorKinds \cup {Background} :
    LET p == [AppearanceFresh EXCEPT !.visit = visit]
    IN  \/ /\ visit = Background
           /\ page' = Raise(p, {HistoryLoading})
           /\ Begin("loadBackground", BackgroundReads(p), None, {HistoryLoading})
        \/ /\ visit # Background
           /\ page' = p
           /\ Begin("loadColors", One(Get(visit)), None, {})

AppearanceUnmounted == [page EXCEPT !.mounted = FALSE, !.colorTimer = FALSE]

-----------------------------------------------------------------------------
AppearanceEvent ==
    \/ DragColor \/ PickColor \/ ColorTimerFires \/ ServePicture \/ ResetAppearance
    \/ TypeUrl \/ PickBackgroundColor \/ SlideBackground \/ SetTheme \/ ApplyBackground
    \/ UploadPicture \/ UseHistory \/ ToggleHistory \/ DeleteHistory

AppearanceResume(i) ==
    \/ ColorsSaved(i) \/ ColorsRead(i) \/ Previewed(i) \/ LookPosted(i) \/ Uploaded(i)
    \/ HistoryRead(i) \/ ForgetAnswered(i) \/ Forgotten(i) \/ BackgroundRead(i)
    \/ ResetAnswered(i) \/ ResetPosted(i)

=============================================================================
