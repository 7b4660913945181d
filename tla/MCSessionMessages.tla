-------------------------- MODULE MCSessionMessages --------------------------
(* Small instances of SessionMessages for TLC. *)
EXTENDS SessionMessages

Symmetry == Permutations(Sessions) \cup Permutations(Readers)

Vintage(objects, files, unread) == [schema |-> objects, applied |-> files, phantom |-> unread]

(***************************************************************************)
(* What each store may find of its own: nothing, the tables of its first   *)
(* version, with and without the record of it, the later columns.  In a    *)
(* vintage one store finds one of these and the others are current, or the *)
(* database is empty.                                                      *)
(***************************************************************************)
OwnVintages(store) ==
  CASE store = "envelopes" ->
         {Vintage({"envelopes"}, f, FALSE) : f \in {{}, {"001_envelopes"}}}
    [] store = "projects" ->
         {Vintage({"projects"}, f, FALSE) : f \in {{}, {"001_projects"}}}
           \cup {Vintage({"projects", "icon_path"}, {}, FALSE)}
    [] store = "notifications" ->
         {Vintage({"notifications"}, {}, unread) : unread \in BOOLEAN}
           \cup {Vintage({"notifications", "api_key"}, {}, FALSE)}
    [] store = "sessions" ->
         {Vintage({"sessions", "session_messages"}, {}, FALSE),
          Vintage({"sessions", "session_messages", "insert_order", "set_insert_order"}, {}, FALSE)}
    [] OTHER -> {}

FilesOf(store) == {f \in Range(Migrations) : f.store = store}
ObjectsOf(store) == UNION {{st.object : st \in Range(f.body)} : f \in FilesOf(store)}
NamesOf(stores) == UNION {{f.name : f \in FilesOf(s)} : s \in stores \cap Tracks}
Stores == {f.store : f \in Range(Migrations)}
Empty == Vintage({}, {}, FALSE)
UpToDate == Vintage(Objects, NamesOf(Stores), FALSE)

EarlierVersions ==
  {Empty, UpToDate} \cup
  UNION {{Vintage((Objects \ ObjectsOf(store)) \cup own.schema,
                  NamesOf(Stores \ {store}) \cup own.applied,
                  own.phantom) : own \in OwnVintages(store) \cup {Empty}} : store \in Stores}
=============================================================================
