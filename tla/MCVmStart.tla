------------------------------ MODULE MCVmStart ------------------------------
(* Modules of every kind that load, link and start tell apart. *)
EXTENDS VmStart

MCClones == {"clone"}

Func(f) == [kind |-> "func", name |-> f, typed |-> TRUE]
Good(names) == [f \in names |-> "good"]

(* Sections, whose lengths are one byte long, or as given. *)
Section(type, fields) == [type |-> type, len |-> <<1>>, room |-> 9] @@ fields
Custom(name, data) == Section("custom", [name |-> name, naming |-> "inside", data |-> data])
Exporting(marker) ==
    Section("export", [exports |-> <<[name |-> "memory", kind |-> "other", sound |-> TRUE],
                                     [name |-> marker, kind |-> "func", sound |-> TRUE]>>])
Types == Section("other", [content |-> "types"])
Bodies == Section("other", [content |-> "code"])
Exports == Exporting("proxy_abi_version_0_2_1")
File(sections) == [magic |-> TRUE, short |-> FALSE, sections |-> sections]
Plain == File(<<Types, Exports, Bodies, Custom("name", "sound"), Custom(SignatureName, "good")>>)

Reactor == [file |-> File(<<Types, Custom("precompiled_v8", "good"), Exports,
                            Custom("wavm.precompiled_object", "bad"), Bodies,
                            Custom("name", "sound"), Custom(SignatureName, "good")>>),
            valid |-> TRUE,
            imports |-> <<Func("proxy_log"), Func("get_property"), Func("environ_get")>>,
            exports |-> Good({"_initialize", "main", "malloc", "on_vm_start", "on_request_headers"})]

Longest == [Types EXCEPT !.len = <<128, 128, 128, 128, 3>>, !.room = 3 * 128 ^ 4]
MCCodes == [
    reactor  |-> Reactor,
    command  |-> [Reactor EXCEPT !.file.sections[3] = Exporting("proxy_abi_version_0_1_0"),
                     !.exports = Good({"_start", "proxy_on_memory_allocate", "on_request_headers"})],
    foreign  |-> [Reactor EXCEPT !.file = [Plain EXCEPT !.sections[2] = Exporting("proxy_abi_version_0_2_0")],
                     !.imports = <<Func("call_foreign_function"), Func("get_property")>>,
                     !.exports = Good({"malloc", "on_foreign_function", "on_vm_start"})],
    newer    |-> [Reactor EXCEPT !.file.sections[3] = Exporting("proxy_abi_version_0_2_0"),
                     !.imports = <<[kind |-> "memory", name |-> "m", typed |-> TRUE], Func("get_log_level")>>],
    longest  |-> [Reactor EXCEPT !.file = [Plain EXCEPT !.sections[1] = Longest]],
    mistyped |-> [Reactor EXCEPT !.imports[1].typed = FALSE],
    global   |-> [Reactor EXCEPT !.imports = <<[kind |-> "global", name |-> "g", typed |-> TRUE]>>],
    badsig   |-> [Reactor EXCEPT !.exports["on_vm_start"] = "bad"],
    nomalloc |-> [Reactor EXCEPT !.exports = Good({"_start"})],
    unsigned |-> [Reactor EXCEPT !.file = File(<<Types, Custom(SignatureName, "good"), Exports, Bodies>>)],
    toolong  |-> [Reactor EXCEPT !.file.sections[5].len = <<128, 128, 128, 128, 4>>],
    cut      |-> [Reactor EXCEPT !.file.sections[3].room = 0],
    straddle |-> [Reactor EXCEPT !.file.sections[4].naming = "outside"],
    noabi    |-> [Reactor EXCEPT !.file.sections[3] = Exporting("run")],
    tiny     |-> [Reactor EXCEPT !.file.short = TRUE],
    text     |-> [Reactor EXCEPT !.file.magic = FALSE],
    invalid  |-> [Reactor EXCEPT !.file = Plain, !.valid = FALSE]]
=============================================================================
