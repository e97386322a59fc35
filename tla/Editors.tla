-------------------------------- MODULE Editors --------------------------------
(***************************************************************************)
(* The two page editors of the panel: the blocks of an event's page and a  *)
(* producer's storefront.  An editor loads a page once, works on a copy    *)
(* and sends all of it; the request, the write and its answer are apart.   *)
(***************************************************************************)
EXTENDS Catalog, SequencesExt

CONSTANTS
    Images,            \* images the storage has given out
    Covers, Items,     \* bounds of a hero's covers, and of a list's items
    OneOff             \* optional sections that have one field or none

VARIABLES
    page,              \* EventPage rows; rev counts their writes
    ed,                \* the page editor of each tab
    sent,              \* what a tab's editor has asked for
    upload,            \* an image on its way to the storage
    front, fed         \* OrgLandingPage rows, and their editors

editorVars == <<page, ed, sent, upload, front, fed>>

Looks == {"light", "dark", "partial"}          \* a colour half typed is no colour
Lists == {"faq", "lineup"}
Galleries == {"hero", "gallery"}
Filled == Lists \cup {"gallery", "video"}      \* sections that must hold something
addGroups == {"hero", "faq", "lineup", "video"} \cup OneOff   \* no gallery is added any more

NoImage == "none"
Blank == ""
Block(type, content) == [type |-> type, visible |-> TRUE, content |-> content]
newBlock(type) == Block(type, IF type \in Lists THEN <<Blank>> ELSE <<>>)

defaultPageBlocks == <<newBlock("hero"), newBlock("description"), newBlock("tickets")>>
NoRow == [look |-> "light", banner |-> NoImage, blocks |-> defaultPageBlocks, rev |-> 0]

(* A page saved before sections had covers keeps its one banner as cover.  *)
seedHeroCovers(blocks, banner) ==
    [i \in DOMAIN blocks |->
        IF blocks[i].type = "hero" /\ blocks[i].content = <<>> /\ banner # NoImage
        THEN [blocks[i] EXCEPT !.content = <<banner>>] ELSE blocks[i]]
heroCover0(blocks) ==
    LET heroes == {i \in DOMAIN blocks : blocks[i].type = "hero"}
    IN IF heroes # {} /\ blocks[Min(heroes)].content # <<>> THEN blocks[Min(heroes)].content[1] ELSE NoImage

(* Blank items are dropped, and a section that is left with nothing is a   *)
(* problem.  (SelectSeq, in a form that TLAPS can reason about.)           *)
nonBlank(items) == {j \in DOMAIN items : items[j] # Blank}
withoutBlanks(items) ==
    LET nth(n) == CHOOSE j \in nonBlank(items) : Cardinality({i \in nonBlank(items) : i <= j}) = n
    IN [n \in 1..Cardinality(nonBlank(items)) |-> items[nth(n)]]
cleaned(b) == IF b.type \in Lists THEN [b EXCEPT !.content = withoutBlanks(@)] ELSE b
cleanBlocks(blocks) == [i \in DOMAIN blocks |-> cleaned(blocks[i])]
problem(blocks) == \E i \in DOMAIN blocks : blocks[i].type \in Filled /\ cleaned(blocks[i]).content = <<>>

(* What the server takes: one place to sell tickets, no section twice.     *)
eventPageBlocksSchema(blocks) ==
    /\ \E i \in DOMAIN blocks : blocks[i].type = "tickets"
    /\ \A i, j \in DOMAIN blocks : blocks[i].type = blocks[j].type => i = j

(***************************************************************************)
(* The page editor                                                         *)
(***************************************************************************)
NoEditor == [event |-> 0]
NoRequest == [at |-> "none"]
NoUpload == [type |-> "none"]
editing(t) == ed[t].event # 0
screen(t) == [look |-> ed[t].look, banner |-> ed[t].banner, blocks |-> ed[t].blocks]
dirty(t) == screen(t) # ed[t].baseline

(* What a page shows: its visible sections that hold something, and under  *)
(* a hero without covers the page's banner.  A preview shows the draft.    *)
HeroBlock(b, banner) ==
    IF b.type = "hero" /\ b.content = <<>> /\ banner # NoImage THEN [b EXCEPT !.content = <<banner>>] ELSE b
renderBlock(b, banner) ==
    IF b.visible /\ (b.type \in Lists \cup {"gallery"} => b.content # <<>>) THEN <<HeroBlock(b, banner)>> ELSE <<>>
EventPageView(p) == FlattenSeq([i \in DOMAIN p.blocks |-> renderBlock(p.blocks[i], p.banner)])
preview(t) == EventPageView([screen(t) EXCEPT !.banner = heroCover0(ed[t].blocks)])

getPage(t, e) ==
    LET row == page[e]
        loaded == [look |-> row.look, banner |-> row.banner,
                   blocks |-> seedHeroCovers(row.blocks, row.banner)]
    IN /\ exists(e) /\ event[e].org = Staff[t] /\ ~editing(t) /\ left.edits > 0
       /\ ed' = [ed EXCEPT ![t] = [event |-> e, look |-> loaded.look, banner |-> loaded.banner,
                                   blocks |-> loaded.blocks, baseline |-> loaded, rev |-> row.rev]]
       /\ UNCHANGED <<page, sent, upload, front, fed, left>>

change(t, blocks) ==
    /\ editing(t) /\ Spend("edits")
    /\ ed' = [ed EXCEPT ![t].blocks = blocks]
    /\ UNCHANGED <<page, sent, upload, front, fed>>

setLook(t, look) ==
    /\ editing(t) /\ ed[t].look # look /\ Spend("edits")
    /\ ed' = [ed EXCEPT ![t].look = look]
    /\ UNCHANGED <<page, sent, upload, front, fed>>

move(t, i) ==
    LET b == ed[t].blocks
    IN /\ i + 1 \in DOMAIN b
       /\ change(t, [b EXCEPT ![i] = b[i + 1], ![i + 1] = b[i]])
hide(t, i) ==
    /\ ed[t].blocks[i].type # "tickets"
    /\ change(t, [ed[t].blocks EXCEPT ![i].visible = ~@])
removeBlock(t, i) ==
    /\ ed[t].blocks[i].type # "tickets"
    /\ change(t, RemoveAt(ed[t].blocks, i))
addBlock(t, type) ==
    /\ editing(t) /\ \A i \in DOMAIN ed[t].blocks : ed[t].blocks[i].type # type
    /\ change(t, Append(ed[t].blocks, newBlock(type)))

(* The form of a section.                                                  *)
setConfig(t, i, content) == change(t, [ed[t].blocks EXCEPT ![i].content = content])
setItem(t, i, j, x) ==
    /\ ed[t].blocks[i].type \in Lists /\ ed[t].blocks[i].content[j] # x
    /\ setConfig(t, i, [ed[t].blocks[i].content EXCEPT ![j] = x])
addItem(t, i) ==
    /\ ed[t].blocks[i].type \in Lists /\ Len(ed[t].blocks[i].content) < Items
    /\ setConfig(t, i, Append(ed[t].blocks[i].content, Blank))
removeItem(t, i, j) ==
    /\ ed[t].blocks[i].type \in Lists => Len(ed[t].blocks[i].content) > 1
    /\ ed[t].blocks[i].type \in Lists \cup Galleries
    /\ setConfig(t, i, RemoveAt(ed[t].blocks[i].content, j))
moveLeft(t, i, j) ==
    LET c == ed[t].blocks[i].content
    IN /\ ed[t].blocks[i].type = "hero" /\ j > 1
       /\ setConfig(t, i, [c EXCEPT ![j - 1] = c[j], ![j] = c[j - 1]])
setField(t, i, x) ==
    /\ ed[t].blocks[i].type \notin Lists \cup Galleries /\ ed[t].blocks[i].content # x
    /\ setConfig(t, i, x)

(* The images the section had when the upload began are those it gets      *)
(* back, with the new one: what was changed meanwhile is undone.           *)
startUpload(t, i) ==
    LET b == ed[t].blocks[i]
    IN /\ b.type \in Galleries /\ Len(b.content) < Covers
       /\ upload[t] = NoUpload /\ Spend("edits")
       /\ ~terminal(ed[t].event)
       /\ upload' = [upload EXCEPT ![t] = [type |-> b.type, had |-> b.content]]
       /\ UNCHANGED <<page, ed, sent, front, fed>>
onUploaded(t, url) ==
    LET u == upload[t]
        b == ed[t].blocks
    IN /\ u # NoUpload
       /\ ed' = [ed EXCEPT ![t].blocks = [i \in DOMAIN b |->
              IF b[i].type = u.type THEN [b[i] EXCEPT !.content = Append(u.had, url)] ELSE b[i]]]
       /\ upload' = [upload EXCEPT ![t] = NoUpload]
       /\ UNCHANGED <<page, sent, front, fed, left>>

(* What is sent also becomes what the editor shows once it is answered.    *)
save(t) ==
    LET blocks == cleanBlocks(ed[t].blocks)
    IN /\ editing(t) /\ dirty(t) /\ ed[t].look # "partial" /\ sent[t] = NoRequest
       /\ ~problem(ed[t].blocks)
       /\ sent' = [sent EXCEPT ![t] = [at |-> "server", look |-> ed[t].look,
                       banner |-> heroCover0(blocks), blocks |-> blocks]]
       /\ UNCHANGED <<page, ed, upload, front, fed, left>>

updatePage(t) ==
    LET e == ed[t].event
        s == sent[t]
        row == [look |-> s.look, banner |-> s.banner, blocks |-> s.blocks, rev |-> page[e].rev + 1]
    IN /\ s.at = "server"
       /\ \/ /\ terminal(e) \/ ~eventPageBlocksSchema(s.blocks)
             /\ sent' = [sent EXCEPT ![t] = NoRequest] /\ UNCHANGED page
          \/ /\ ~terminal(e) /\ eventPageBlocksSchema(s.blocks)
             /\ page' = [page EXCEPT ![e] = row]
             /\ sent' = [sent EXCEPT ![t] = [at |-> "answer", look |-> s.look, banner |-> s.banner,
                             blocks |-> s.blocks, rev |-> row.rev]]
       /\ UNCHANGED <<ed, upload, front, fed, left>>

(* Mutant: what is on screen counts as saved, whatever was sent.           *)
answerOnScreen(t) ==
    LET s == sent[t]
        now == [look |-> ed[t].look, banner |-> s.banner, blocks |-> s.blocks]
    IN /\ s.at = "answer"
       /\ ed' = [ed EXCEPT ![t] = [@ EXCEPT !.banner = s.banner, !.blocks = s.blocks,
                                            !.baseline = now, !.rev = s.rev]]
       /\ sent' = [sent EXCEPT ![t] = NoRequest]
       /\ UNCHANGED <<page, upload, front, fed, left>>

(* The look changed meanwhile stays, unsaved; the sections are overwritten.*)
answer(t) ==
    LET s == sent[t]
        saved == [look |-> s.look, banner |-> s.banner, blocks |-> s.blocks]
    IN /\ s.at = "answer"
       /\ ed' = [ed EXCEPT ![t] = [@ EXCEPT !.banner = s.banner, !.blocks = s.blocks,
                                            !.baseline = saved, !.rev = s.rev]]
       /\ sent' = [sent EXCEPT ![t] = NoRequest]
       /\ UNCHANGED <<page, upload, front, fed, left>>

(* The answer never comes: the editor keeps its copy, and counts it unsaved.*)
loseAnswer(t) ==
    /\ sent[t] # NoRequest /\ Spend("faults")
    /\ sent' = [sent EXCEPT ![t] = NoRequest]
    /\ UNCHANGED <<page, ed, upload, front, fed>>

leave(t) ==
    /\ editing(t) /\ sent[t] = NoRequest /\ upload[t] = NoUpload /\ Spend("edits")
    /\ ed' = [ed EXCEPT ![t] = NoEditor]
    /\ UNCHANGED <<page, sent, upload, front, fed>>

(***************************************************************************)
(* The storefront: whether it is public, its texts, its trust items        *)
(***************************************************************************)
EMPTY == [enabled |-> FALSE, look |-> "light", items |-> <<>>]
set(t, f) ==
    /\ Spend("window") /\ fed[t].form # f
    /\ fed' = [fed EXCEPT ![t].form = f, ![t].saved = FALSE]
    /\ UNCHANGED <<page, ed, sent, upload, front>>
setTrustItem(t, j, x) == j \in DOMAIN fed[t].form.items /\ set(t, [fed[t].form EXCEPT !.items[j] = x])
addTrustItem(t) ==
    /\ Len(fed[t].form.items) < Items
    /\ set(t, [fed[t].form EXCEPT !.items = Append(@, Blank)])
removeTrustItem(t, j) == j \in DOMAIN fed[t].form.items /\ set(t, [fed[t].form EXCEPT !.items = RemoveAt(@, j)])

submitStorefront(t) ==
    /\ fed[t].req = EMPTY /\ fed[t].form # EMPTY /\ fed[t].form.look # "partial"
    /\ fed' = [fed EXCEPT ![t].saved = FALSE,
                  ![t].req = [fed[t].form EXCEPT !.items = withoutBlanks(@)]]
    /\ UNCHANGED <<page, ed, sent, upload, front, left>>
(* The answer says "saved" of whatever the form holds by then.             *)
updateStorefront(t) ==
    /\ fed[t].req # EMPTY
    /\ front' = [front EXCEPT ![Staff[t]] = fed[t].req]
    /\ fed' = [fed EXCEPT ![t].req = EMPTY, ![t].saved = TRUE]
    /\ UNCHANGED <<page, ed, sent, upload, left>>

(* A storefront shows its producer's events that are on sale.              *)
getPublicBySlug(i, o) ==
    IF front[o].enabled /\ mayServe(i, o)
    THEN {e \in Events : exists(e) /\ event[e].org = o /\ event[e].status = "PUBLISHED"} ELSE {}

(***************************************************************************)
(* The whole                                                               *)
(***************************************************************************)
Legacy == [NoRow EXCEPT !.banner = "old", !.rev = 1]
EditorsInit ==
    /\ page \in [Events -> {NoRow, Legacy}]
    /\ \A e \in Events : ~exists(e) \/ left.edits = 0 => page[e] = NoRow
    /\ ed = [t \in Tabs |-> NoEditor]
    /\ sent = [t \in Tabs |-> NoRequest]
    /\ upload = [t \in Tabs |-> NoUpload]
    /\ front = [o \in Orgs |-> EMPTY]
    /\ fed = [t \in Tabs |-> [form |-> EMPTY, req |-> EMPTY, saved |-> FALSE]]

editSection(t) ==
    \E i \in DOMAIN ed[t].blocks :
        \/ move(t, i) \/ hide(t, i) \/ removeBlock(t, i) \/ addItem(t, i) \/ startUpload(t, i)
        \/ \E x \in {<<>>, <<"given">>} : setField(t, i, x)
        \/ \E j \in DOMAIN ed[t].blocks[i].content :
             removeItem(t, i, j) \/ moveLeft(t, i, j) \/ \E x \in {Blank, "given"} : setItem(t, i, j, x)

EditorsNext ==
    \E t \in Tabs :
        \/ save(t) \/ updatePage(t) \/ answer(t) \/ loseAnswer(t) \/ leave(t)
        \/ \E e \in Events : getPage(t, e)
        \/ \E look \in Looks : setLook(t, look)
        \/ \E type \in addGroups : addBlock(t, type)
        \/ \E url \in Images : onUploaded(t, url)
        \/ editing(t) /\ editSection(t)
        \/ \E look \in Looks : set(t, [fed[t].form EXCEPT !.look = look])
        \/ set(t, [fed[t].form EXCEPT !.enabled = ~@])
        \/ addTrustItem(t) \/ submitStorefront(t) \/ updateStorefront(t)
        \/ \E j \in 1..Items : removeTrustItem(t, j) \/ \E x \in {Blank, "given"} : setTrustItem(t, j, x)

EditorsTypeOK ==
    /\ \A e \in Events : eventPageBlocksSchema(page[e].blocks) /\ ~problem(page[e].blocks)
    /\ \A o \in Orgs : Blank \notin ToSet(front[o].items)

(* "Tudo salvo": an editor with nothing to save holds what is stored, and  *)
(* its preview is the page the public gets, unless someone else saved the  *)
(* page since it was loaded or last saved.  Edits go on while a save is on *)
(* its way, and its answer may not come.                                   *)
SavedMeansStored ==
    \A t \in Tabs : editing(t) =>
        LET row == page[ed[t].event]
        IN ~dirty(t) /\ ed[t].rev = row.rev =>
               /\ ed[t].look = row.look /\ preview(t) = EventPageView(row)
               /\ ed[t].blocks = seedHeroCovers(row.blocks, row.banner)
================================================================================
