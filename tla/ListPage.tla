------------------------------ MODULE ListPage -------------------------------
(***************************************************************************)
(* The page of local lists (webui-log ListManager.vue).  Each list has a    *)
(* draft: the text last known to be saved and the text in the editor.  A    *)
(* text is the set of its lines; a line is marked with the list it was      *)
(* written for, so that text which strays from one list to another shows.   *)
(***************************************************************************)
EXTENDS WebPage

CONSTANTS
    FixedLists,     \* lists that every installation has
    GroupLists,     \* lists of the special groups the user may have created
    FirstList       \* the list that the page opens

ASSUME FirstListAssumption == FirstList \in FixedLists

Lists == FixedLists \cup GroupLists

ASSUME ListsAssumption == {"groups", None} \cap Lists = {}

OldLine(t) == <<t, "old">>
NewLine(t) == <<t, "new">>
Lines == {OldLine(t) : t \in Lists} \cup {NewLine(t) : t \in Lists}

ListServer == [r \in Lists \cup {"groups"} |-> IF r = "groups" THEN GroupLists ELSE {OldLine(r)}]

ListFresh ==
    [kind |-> "list", mounted |-> TRUE, busy |-> {}, selected |-> None,
     content |-> {}, drafts |-> Nothing, groups |-> {}]

(* profiles                                                                  *)
Profiles == FixedLists \cup page.groups

HasDraft(t) == t \in DOMAIN page.drafts
Draft(original, content) == [original |-> original, content |-> content]
Dirty(t) == HasDraft(t) /\ page.drafts[t].content # page.drafts[t].original
DirtyLists == {t \in DOMAIN page.drafts : Dirty(t)}

-----------------------------------------------------------------------------
(* The part of loadList before its request: a list with a draft is shown at  *)
(* once, any other is fetched.  The page goes blank while it loads.          *)
ShowDraft(t) == [page EXCEPT !.selected = t, !.content = page.drafts[t].content]
ShowLoading(t) == Raise([page EXCEPT !.selected = t, !.content = {}], {"loading"})
Fetch(t) == One(Get(t))

SelectList == \E t \in Profiles :
    /\ Clickable
    /\ \/ /\ HasDraft(t)
          /\ page' = ShowDraft(t)
          /\ UNCHANGED <<tasks, spent>>
       \/ /\ ~HasDraft(t)
          /\ page' = ShowLoading(t)
          /\ Begin("loadList", Fetch(t), t, {"loading"})
    /\ UNCHANGED <<server, dialog>>

(* The rest of loadList.  The editor shows the text only if the list is      *)
(* still the selected one; a failure leaves the list without a draft.        *)
(* Mutant: the text is shown though another list has been selected.          *)
ListShownAnyway(t, text) ==
    [page EXCEPT !.drafts = Extend(@, t, Draft(text, text)), !.content = text]

ListShown(t, text) ==
    LET loaded == [page EXCEPT !.drafts = Extend(@, t, Draft(text, text))]
    IN  IF page.selected = t THEN [loaded EXCEPT !.content = text] ELSE loaded

ListLoaded(i) ==
    /\ i \in Replied("loadList")
    /\ page' = Lower(IF Reply(i).ok THEN ListShown(tasks[i].mem, Reply(i).val) ELSE page, i)
    /\ End(i)
    /\ UNCHANGED <<server, dialog>>

-----------------------------------------------------------------------------
(* onEditorInput.  The editor is bound to content, so by the time the        *)
(* handler runs content is the new text: the first input to a list without a *)
(* draft becomes both its original and its content.                          *)
EditorInput(text) ==
    LET t == page.selected
        original == IF HasDraft(t) THEN page.drafts[t].original ELSE text
    IN  [page EXCEPT !.content = text, !.drafts = Extend(@, t, Draft(original, text))]

TypeInEditor ==
    /\ Clickable /\ "loading" \notin page.busy /\ page.selected # None
    /\ page' = EditorInput(page.content \cup {NewLine(page.selected)})
    /\ OnlyPage

-----------------------------------------------------------------------------
(* saveList posts the lists that are dirty at the click one after the other. *)
(* What is posted is the draft's text at that moment; what is kept after the *)
(* answer is the text that was posted.                                       *)
PostList(t) == One(Put(t, page.drafts[t].content))

SaveList == \E t \in DirtyLists :
    /\ Clickable /\ page.busy \cap {"loading", "saving"} = {} /\ page.selected # None
    /\ page' = Raise(page, {"saving"})
    /\ Begin("saveList", PostList(t), [tag |-> t, left |-> DirtyLists \ {t}], {"saving"})
    /\ UNCHANGED <<server, dialog>>

AfterPost(i) ==
    LET posted == tasks[i].ask["only"].val
    IN  IF Reply(i).ok THEN [page EXCEPT !.drafts[tasks[i].mem.tag] = Draft(posted, posted)] ELSE page

ShowActiveDraft(p) ==
    IF p.selected \in DOMAIN p.drafts THEN [p EXCEPT !.content = p.drafts[p.selected].content] ELSE p

ListSaved(i) ==
    LET left == tasks[i].mem.left
    IN  /\ i \in Replied("saveList")
        /\ \/ /\ left = {}
              /\ page' = Lower(ShowActiveDraft(AfterPost(i)), i)
              /\ End(i)
           \/ \E t \in left :
              /\ page' = AfterPost(i)
              /\ Await(i, "saveList", PostList(t), [tag |-> t, left |-> left \ {t}], {"saving"})
        /\ UNCHANGED <<server, dialog>>

-----------------------------------------------------------------------------
(* init and handleGlobalRefresh: the special groups first, then the selected *)
(* list (the first one when none is) unless it has unsaved edits.            *)
ListMounted ==
    /\ page' = ListFresh
    /\ Begin("init", One(Get("groups")), None, {})

ListRefresh ==
    /\ page.mounted
    /\ Begin("listRefresh", One(Get("groups")), None, {})
    /\ UNCHANGED <<page, server, dialog>>

ProfilesLoaded(i) ==
    LET known == [page EXCEPT !.groups = Settled(i, "only", {})]
        t == IF tasks[i].fn = "init" /\ page.selected = None THEN FirstList ELSE page.selected
        nothingToDo == t = None \/ (tasks[i].fn = "init" /\ page.selected # None)
    IN  /\ i \in Replied("init") \cup Replied("listRefresh")
        /\ \/ /\ nothingToDo \/ Dirty(t)
              /\ page' = known
              /\ End(i)
           \/ /\ ~nothingToDo /\ HasDraft(t) /\ ~Dirty(t)
              /\ page' = [ShowDraft(t) EXCEPT !.groups = known.groups]
              /\ End(i)
           \/ /\ ~nothingToDo /\ ~HasDraft(t)
              /\ page' = [ShowLoading(t) EXCEPT !.groups = known.groups]
              /\ Await(i, "loadList", Fetch(t), t, {"loading"})
        /\ UNCHANGED <<server, dialog>>

-----------------------------------------------------------------------------
ListEvent == SelectList \/ TypeInEditor \/ SaveList \/ ListRefresh
ListResume(i) == ListLoaded(i) \/ ListSaved(i) \/ ProfilesLoaded(i)

=============================================================================
