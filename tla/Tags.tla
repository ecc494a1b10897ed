--------------------------------- MODULE Tags ---------------------------------
(***************************************************************************)
(* Workspace tags (src/tools/docs.ts): the options of the workspace and    *)
(* the tag entries of its pages, both in the workspace root. An entry is a *)
(* string: the id of an option, or a bare label, which these tools read    *)
(* but never write. Labels are taken up to case.                           *)
(* Every page entry has its tags array, as creation writes it.             *)
(***************************************************************************)
EXTENDS Naturals, FiniteSets, Sequences, SequencesExt, YjsMerge

CONSTANTS TagCalls,      \* the tool calls
          Pages,         \* the registered pages
          FreshPage,     \* the one a template is instantiated on; at first another
                         \* client has listed the tag on it, by its label
          FirstTag,      \* the id of the tag there is at first
          FirstName,     \* and its name
          OtherName      \* a name no tag has at first

ASSUME TagsAssumption == FreshPage \in Pages /\ FirstTag \notin TagCalls

VARIABLES gDoc,       \* the options, in order, and the pages' entries
          gPhase, gUpdate, gStale   \* see DocUpdates
tagVars == <<gDoc, gPhase, gUpdate, gStale>>

(* Strings: a tag's id, or a name.                                         *)
Id(t) == [id |-> t]
Name(n) == [name |-> n]
TagNames == {Name(FirstName), Name(OtherName)}
TagIdOrNames == TagNames \cup {Id(FirstTag)}

Option(id, value) == [id |-> id, value |-> value]
TagEntry(page, entry, by) == [page |-> page, entry |-> entry, by |-> by]
Holding(tags, strings) == {e \in tags : e.entry \in strings}
OnPage(tags, p) == {e \in tags : e.page = p}

Options(d) == Range(d.options)
byValueLower(d, value) == {o \in Options(d) : o.value = value}
FirstOption(d, found) ==
  d.options[CHOOSE i \in DOMAIN d.options :
              d.options[i] \in found /\ \A j \in 1..i - 1 : d.options[j] \notin found]

LabelOf(d, entry) ==
  LET found == {o \in Options(d) : o.id = entry}
  IN  IF found = {} THEN entry ELSE FirstOption(d, found).value
resolveTagLabels(d, p) == {LabelOf(d, e.entry) : e \in OnPage(d.tags, p)}
Listed(d, p, tag) ==
  tag \in resolveTagLabels(d, p) \cup {e.entry : e \in OnPage(d.tags, p)}

(* The new option of a call has the call for its id.                       *)
ensureWorkspaceTagOption(d, c, tag) ==
  IF byValueLower(d, tag) # {} THEN d
  ELSE [d EXCEPT !.options = Append(@, Option(Id(c), tag))]

(* Mutant: labels are left beside the id.                                  *)
syncIdsOnly(tags, p, c, tag, option) ==
  IF Holding(OnPage(tags, p), {option.id}) # {} THEN tags
  ELSE tags \cup {TagEntry(p, option.id, c)}

(* One entry with the option's id replaces all that mean the tag.          *)
syncTagArrayToOption(tags, p, c, tag, option) ==
  LET matched == Holding(OnPage(tags, p), {option.id, option.value, tag})
      ids     == Holding(matched, {option.id})
  IN  (tags \ matched) \cup
        (IF ids = {} THEN {TagEntry(p, option.id, c)} ELSE {CHOOSE e \in ids : TRUE})

AddedTag(d, c, p, tag) ==
  LET made   == ensureWorkspaceTagOption(d, c, tag)
      option == FirstOption(made, byValueLower(made, tag))
  IN  [made EXCEPT !.tags = syncTagArrayToOption(@, p, c, tag, option)]

(* Mutant: only the string that was given goes, not the id it means.       *)
RemovedString(d, p, tag) == [d EXCEPT !.tags = @ \ Holding(OnPage(@, p), {tag})]

RemovedTag(d, p, tag) ==
  LET found == byValueLower(d, tag)
      means == {tag} \cup (IF found = {} THEN {} ELSE {FirstOption(d, found).id})
  IN  [d EXCEPT !.tags = @ \ Holding(OnPage(@, p), means)]

(* An id, or a name that one tag has.                                      *)
findTagOptionForDeletion(d, tag) ==
  LET byId == {o \in Options(d) : o.id = tag}
  IN  IF byId # {} THEN {FirstOption(d, byId)}
      ELSE IF Cardinality(byValueLower(d, tag)) = 1 THEN byValueLower(d, tag) ELSE {}

(* Bare labels stay: the pages are searched for the id only.               *)
DeletedTag(d, option) ==
  [d EXCEPT !.options = WithoutItems(@, {o \in Options(d) : o.id = option.id}),
            !.tags = @ \ Holding(@, {option.id})]

(* instantiate_template_native gives the new page the template's entries.  *)
SyncedRawTags(d, c, p, template) ==
  [d EXCEPT !.tags = (@ \ OnPage(@, p)) \cup
                     {TagEntry(p, e.entry, c) : e \in OnPage(@, template)}]

-----------------------------------------------------------------------------
TagMerge(now, base, made) ==
  [options |-> MergedList(now.options, base.options, made.options),
   tags    |-> MergedSet(now.tags, base.tags, made.tags)]

GU == INSTANCE DocUpdates WITH Calls <- TagCalls, Merge <- TagMerge,
        doc <- gDoc, phase <- gPhase, update <- gUpdate, stale <- gStale

TagsInit ==
  /\ gDoc = [options |-> <<Option(Id(FirstTag), Name(FirstName))>>,
             tags |-> {TagEntry(p, Id(FirstTag), FirstTag) : p \in Pages \ {FreshPage}}
                      \cup {TagEntry(FreshPage, Name(FirstName), FirstTag)}]
  /\ GU!UpdatesInit

TagRequest(op, page, tag) == {[op |-> op, page |-> page, tag |-> tag]}

Answer(c, d, asked) == IF d = gDoc THEN GU!Answered(c, asked) ELSE GU!Handled(c, {d}, asked)

createTag(c) == \E tag \in TagIdOrNames :
  Answer(c, ensureWorkspaceTagOption(gDoc, c, tag), {})
addTagToDoc(c) == \E p \in Pages, tag \in TagIdOrNames :
  Answer(c, AddedTag(gDoc, c, p, tag), TagRequest("add", p, tag))
removeTagFromDoc(c) == \E p \in Pages, tag \in TagIdOrNames :
  Answer(c, RemovedTag(gDoc, p, tag), TagRequest("remove", p, tag))
onUnregisteredPage(c) == GU!Handled(c, {}, {})
deleteTag(c) == \E tag \in TagIdOrNames :
  GU!Handled(c, {DeletedTag(gDoc, o) : o \in findTagOptionForDeletion(gDoc, tag)},
             TagRequest("delete", FreshPage, tag))
syncRawTagsToWorkspacePage(c) == \E template \in Pages \ {FreshPage} :
  /\ OnPage(gDoc.tags, template) # {}
  /\ GU!Handled(c, {SyncedRawTags(gDoc, c, FreshPage, template)}, {})

TagsNext ==
  \/ \E c \in TagCalls :
       \/ createTag(c) \/ addTagToDoc(c) \/ removeTagFromDoc(c) \/ onUnregisteredPage(c)
       \/ deleteTag(c) \/ syncRawTagsToWorkspacePage(c)
       \/ GU!MergeUpdate(c) \/ GU!LoseAck(c)
  \/ GU!UpdatesDone

TagsSpec == TagsInit /\ [][TagsNext]_tagVars

-----------------------------------------------------------------------------
(* While updates are merged in order, every id a page lists has its        *)
(* option, no two tags share a name, and no page lists a tag twice, be it  *)
(* by id and by label: what delete_tag, add_tag_to_doc and create_tag keep *)
(* together across the options and the pages.                              *)
TagsStayWhole ==
  ~gStale =>
    /\ \A e \in gDoc.tags : e.entry \in TagNames \/ \E o \in Options(gDoc) : o.id = e.entry
    /\ \A i, j \in DOMAIN gDoc.options :
         gDoc.options[i].value = gDoc.options[j].value => i = j
    /\ \A e, f \in gDoc.tags : e.page = f.page /\ e # f =>
         LabelOf(gDoc, e.entry) # LabelOf(gDoc, f.entry)

Others(d, p, tag) == resolveTagLabels(d, p) \ {tag, LabelOf(d, tag)}

(* When nothing was merged late, the last call is what list_docs_by_tag    *)
(* shows: a tag that was added by its name is on the page, one that was    *)
(* removed is not, one that was deleted is on no page that did not have it *)
(* as a bare label, and no other tag of any page has come or gone. (An id  *)
(* given to add_tag_to_doc is taken for a name and unseats its tag.)       *)
TagRequestsAreKept ==
  (\A o \in TagCalls : gPhase[o] # "late") =>
    \A c \in {x \in TagCalls : gPhase[x] = "merged"} : \A a \in gUpdate[c].asked :
      LET was == gUpdate[c].base IN
      /\ a.op = "add" => Listed(gDoc, a.page, a.tag)
      /\ a.op = "remove" => ~Listed(gDoc, a.page, a.tag)
      /\ a.op = "delete" => \A p \in Pages :
           Listed(gDoc, p, LabelOf(was, a.tag)) =>
             \E e \in OnPage(was.tags, p) : e.entry = LabelOf(was, a.tag)
      /\ a.op # "add" \/ a.tag \in TagNames =>
           \A p \in Pages : Others(was, p, a.tag) =
                            resolveTagLabels(gDoc, p) \ {a.tag, LabelOf(was, a.tag)}
=============================================================================
