------------------------------ MODULE TarFilter ------------------------------
(***************************************************************************)
(* What filter_tar (write.rs) makes of the archive of a derived layer,     *)
(* entry by entry, and what `ostree commit --tree=tar` makes of the result.*)
(*                                                                         *)
(* A path is a top level directory and a name in it, "" for the directory  *)
(* itself; "repo" stands for sysroot/ostree/repo, where the base image     *)
(* keeps its objects and the files of /usr are hardlinks to them.  A tool  *)
(* writes all paths of an archive in one style: usr/a, ./usr/a or /usr/a.  *)
(* The content of a file is named by the path it was first written at.     *)
(***************************************************************************)
EXTENDS Integers, FiniteSets

CONSTANTS Paths,       \* the paths an archive may have, each at most once
          MaxEntries   \* bound on the entries of an archive

Tops == {"usr", "etc", "var", "tmp", "boot", "repo"}
Path(top, name) == [top |-> top, name |-> name]

ASSUME PathsAssumption == Paths \subseteq [top : Tops, name : STRING]
ASSUME MaxEntriesAssumption == MaxEntries \in Nat

VARIABLES style,    \* how the archive writes its paths
          config,   \* TarImportConfig
          layer,    \* the entries read so far: what the layer contains
          changed,  \* changed_sysroot_objects: the paths whose data is kept
          targets,  \* new_sysroot_link_targets
          tree,     \* what the output unpacks to
          filtered, \* how often which name was filtered
          status

vars == <<style, config, layer, changed, targets, tree, filtered, status>>

Nothing == [p \in {} |-> p]
Put(f, x, value) == [y \in DOMAIN f \cup {x} |-> IF y = x THEN value ELSE f[y]]
Excluded == {"tmp"}   \* of EXCLUDED_TOPLEVEL_PATHS

-----------------------------------------------------------------------------
(***************************************************************************)
(* normalize_validate_path.  Children of an excluded directory are         *)
(* filtered under their own name, everything else under its top level.     *)
(***************************************************************************)
IsFiltered(path) ==
    \/ path.top \in Excluded /\ path.name # ""
    \/ path.top \in {"boot", "repo"} /\ ~config.allow_nonusr
FilteredAs(path) == IF path.top \in Excluded THEN path.name ELSE path.top
Normalized(path) ==
    [path EXCEPT !.top = CASE @ = "etc" -> "usr/etc"
                           [] @ = "var" /\ config.remap_factory_var -> "usr/share/factory/var"
                           [] OTHER -> @]

\* Mutation of RemapEtcPath.
RemapNothing(path) == path

(***************************************************************************)
(* remap_etc_path, for the targets of hardlinks.                           *)
(***************************************************************************)
RemapEtcPath(path) == IF path.top = "etc" THEN [path EXCEPT !.top = "usr/etc"] ELSE path

(***************************************************************************)
(* Whether the text of a path begins with REPO_PREFIX.  A leading slash is *)
(* taken off the path of an entry, but not off the target of a link, where *)
(* the prefix is looked for in the wrong variable.                         *)
(***************************************************************************)
PathInRepo(path) == path.top = "repo" /\ style # "dot"
TargetInRepo(path) == path.top = "repo" /\ style = "rel"

-----------------------------------------------------------------------------
Init ==
    /\ style \in {"rel", "dot", "abs"}
    /\ config \in [allow_nonusr : BOOLEAN, remap_factory_var : BOOLEAN]
    /\ layer = Nothing /\ changed = {} /\ targets = Nothing
    /\ tree = Nothing /\ filtered = Nothing /\ status = "filtering"

(***************************************************************************)
(* The entries that may come next: a new file or directory, or a hardlink  *)
(* to a file that came before, which shares its content and its time.      *)
(***************************************************************************)
File(path, modified) == [path |-> path, type |-> "file", target |-> path, data |-> path, modified |-> modified]
Directory(path) == [File(path, TRUE) EXCEPT !.type = "directory"]
Link(path, target) ==
    [path |-> path, type |-> "link", target |-> target,
     data |-> layer[target].data, modified |-> layer[target].modified]
NextEntries ==
    LET free == Paths \ DOMAIN layer
        files == {p \in free : p.name # ""}
    IN  (UNION {{File(p, b) : b \in BOOLEAN} : p \in files})
        \cup (UNION {{Link(p, t) : t \in {t \in DOMAIN layer : t.name # ""}} : p \in files})
        \cup {Directory(p) : p \in free \ files}

Read(e) ==
    /\ status = "filtering" /\ Cardinality(DOMAIN layer) < MaxEntries
    /\ layer' = Put(layer, e.path, e)
    /\ UNCHANGED <<style, config>>

(***************************************************************************)
(* The two branches that come before the path is normalised.               *)
(***************************************************************************)
IsObject(e) == PathInRepo(e.path) /\ e.modified /\ e.type = "file"
IsObjectLink(e) ==
    ~PathInRepo(e.path) /\ e.type = "link" /\ e.modified /\ TargetInRepo(e.target)

CacheObject(e) ==
    /\ Read(e) /\ IsObject(e)
    /\ changed' = changed \cup {e.path}
    /\ UNCHANGED <<targets, tree, filtered, status>>

\* Mutation of KeptObject.
SomeObject(e) == CHOOSE o \in changed : TRUE

(***************************************************************************)
(* The first link to a kept object takes its data, and later ones become   *)
(* links to the first.  Both are written where the archive has them.       *)
(***************************************************************************)
KeptObject(e) == e.target
MakeCanonical(e) ==
    /\ Read(e) /\ IsObjectLink(e) /\ e.target \in changed
    /\ tree' = Put(tree, e.path, KeptObject(e))
    /\ changed' = changed \ {e.target}
    /\ targets' = Put(targets, e.target, e.path)
    /\ UNCHANGED <<filtered, status>>

Relink(e) ==
    /\ Read(e) /\ IsObjectLink(e) /\ e.target \notin changed /\ e.target \in DOMAIN targets
    /\ tree' = Put(tree, e.path, tree[targets[e.target]])
    /\ UNCHANGED <<changed, targets, filtered, status>>

UnhandledLink(e) ==
    /\ Read(e) /\ IsObjectLink(e) /\ e.target \notin changed \cup DOMAIN targets
    /\ UNCHANGED <<changed, targets, tree, filtered, status>>

Filter(e) ==
    /\ Read(e) /\ ~IsObject(e) /\ ~IsObjectLink(e) /\ IsFiltered(e.path)
    /\ LET name == FilteredAs(e.path)
       IN  filtered' = Put(filtered, name, IF name \in DOMAIN filtered THEN filtered[name] + 1 ELSE 1)
    /\ UNCHANGED <<changed, targets, tree, status>>

(***************************************************************************)
(* copy_entry.  The child fails at a hardlink to what it has not unpacked. *)
(***************************************************************************)
Copy(e) ==
    /\ Read(e) /\ ~IsObject(e) /\ ~IsObjectLink(e) /\ ~IsFiltered(e.path)
    /\ LET target == RemapEtcPath(e.target)
       IN  IF e.type # "link"
           THEN tree' = Put(tree, Normalized(e.path), e.path) /\ status' = status
           ELSE IF target \in DOMAIN tree
           THEN tree' = Put(tree, Normalized(e.path), tree[target]) /\ status' = status
           ELSE tree' = tree /\ status' = "failed"
    /\ UNCHANGED <<changed, targets, filtered>>

(***************************************************************************)
(* An entry whose path goes up is refused and ends the import.             *)
(***************************************************************************)
Refuse ==
    /\ status = "filtering" /\ status' = "refused"
    /\ UNCHANGED <<style, config, layer, changed, targets, tree, filtered>>
Finish ==
    /\ status = "filtering" /\ status' = "done"
    /\ UNCHANGED <<style, config, layer, changed, targets, tree, filtered>>

Next ==
    \/ \E e \in NextEntries :
          \/ CacheObject(e) \/ MakeCanonical(e) \/ Relink(e) \/ UnhandledLink(e)
          \/ Filter(e) \/ Copy(e)
    \/ Refuse \/ Finish
Spec == Init /\ [][Next]_vars

-----------------------------------------------------------------------------
(***************************************************************************)
(* The archives the filter handles.  A link that is kept must lead to a    *)
(* path that is kept too, and is not moved or is moved to usr/etc.  A link *)
(* to a modified object of the repository must name the object itself, as  *)
(* a relative path, and have a path that is kept and not moved.            *)
(***************************************************************************)
Kept == {p \in DOMAIN layer : ~IsFiltered(p) /\ ~IsObject(layer[p])}
ToObject(e) == e.target.top = "repo" /\ e.modified /\ e.path.top # "repo"
Handled(e) ==
    IF ToObject(e)
    THEN /\ style = "rel" /\ layer[e.target].type = "file"
         /\ e.path \in Kept /\ Normalized(e.path) = e.path
    ELSE e.path \in Kept => e.target \in Kept /\ Normalized(e.target).top \in {e.target.top, "usr/etc"}
Supported == \A p \in DOMAIN layer : layer[p].type = "link" => Handled(layer[p])

(***************************************************************************)
(* Of a supported archive the commit has exactly the paths that are kept,  *)
(* where they are kept, with the content the layer gives them, in whatever *)
(* order entries come; and every entry outside of the repository that is   *)
(* dropped was counted for image_filtered_content_warning.                 *)
(***************************************************************************)
Dropped(name) == {p \in DOMAIN layer \ Kept : FilteredAs(p) = name /\ ~IsObject(layer[p])}
FilteredExact ==
    Supported =>
        /\ status # "failed"
        /\ DOMAIN tree = {Normalized(p) : p \in Kept}
        /\ \A p \in Kept : tree[Normalized(p)] = layer[p].data
        /\ \A p \in DOMAIN layer \ Kept : ~IsObject(layer[p]) =>
              filtered[FilteredAs(p)] = Cardinality(Dropped(FilteredAs(p)))

(***************************************************************************)
(* Whatever the archive, supported or not, a path of the commit has the    *)
(* content that the layer has at that path or at the one it was moved      *)
(* from: no link is ever led to other data.                                *)
(***************************************************************************)
NeverMisled ==
    \A loc \in DOMAIN tree :
        \E p \in DOMAIN layer : loc \in {p, Normalized(p)} /\ tree[loc] = layer[p].data
=============================================================================
