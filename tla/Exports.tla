------------------------------- MODULE Exports -------------------------------
(***************************************************************************)
(* The host functions (exports.cc), each as the steps it takes in their order.    *)
(* A step may end the function with an error; what the steps do is told by          *)
(* HostCalls:                                                                  *)
(*   "type"       an argument is out of range                                   *)
(*   "read"       getMemory of what the guest points at                          *)
(*   "find"       a thing of that name or kind may not be there                   *)
(*   "self"       the context answers, out of itself or the stores              *)
(*   "ask"        the embedder is asked, which may call guests meanwhile           *)
(*   "ask anyway" the same, and the function goes on whatever the answer           *)
(*   "effective"  the effective context is set                                   *)
(*   "pairs"      the header map is marshalled, or what the guest gave is parsed    *)
(*   "copy"       copyToPointerSize: memory of the guest is allocated, and written  *)
(*   "write"      setWord, setMemory or setDatatype                              *)
(*   "raise"      the flag that stops the iteration is raised                     *)
(***************************************************************************)
On(steps) == [root |-> FALSE, steps |-> steps]          \* contextOrEffectiveContext()
OnRoot(steps) == [root |-> TRUE, steps |-> steps]       \* and its root_context()

set_property == On(<<"read", "self">>)
get_property == On(<<"read", "self", "copy">>)
get_configuration == On(<<"copy">>)
get_status == OnRoot(<<"self", "write", "copy">>)

continue_request == On(<<"ask">>)
continue_response == On(<<"ask">>)
continue_stream == On(<<"type", "ask">>)
close_stream == On(<<"type", "ask">>)
send_local_response == On(<<"read", "ask anyway", "raise">>)
clear_route_cache == On(<<"ask anyway">>)
set_effective_context == On(<<"find", "effective">>)
done == On(<<"self">>)
call_foreign_function == On(<<"read", "find", "ask anyway", "write">>)

get_shared_data == On(<<"read", "self", "copy", "write">>)
set_shared_data == On(<<"read", "self">>)
register_shared_queue == On(<<"read", "self", "write">>)
dequeue_shared_queue == On(<<"self", "copy">>)
resolve_shared_queue == On(<<"read", "self", "write">>)
enqueue_shared_queue == On(<<"read", "self">>)

add_header_map_value == On(<<"type", "read", "self">>)
get_header_map_value == On(<<"type", "read", "self", "copy">>)
replace_header_map_value == On(<<"type", "read", "self">>)
remove_header_map_value == On(<<"type", "read", "self">>)
get_header_map_pairs == On(<<"type", "self", "copy", "pairs">>)
set_header_map_pairs == On(<<"type", "read", "pairs">>)
get_header_map_size == On(<<"type", "self", "write">>)

get_buffer_bytes == On(<<"type", "find", "type", "copy">>)
get_buffer_status == On(<<"type", "find", "write">>)
set_buffer_bytes == On(<<"type", "find", "read", "self">>)

BadHttpCallUnprobed == OnRoot(<<"read", "ask anyway", "write">>)
http_call == OnRoot(<<"read", "write", "ask anyway", "write">>)
grpc_call == OnRoot(<<"read", "ask", "write">>)
grpc_stream == OnRoot(<<"read", "ask", "write">>)
grpc_cancel == OnRoot(<<"ask">>)
grpc_close == OnRoot(<<"ask">>)
grpc_send == OnRoot(<<"read", "ask">>)

define_metric == On(<<"read", "self", "write">>)
increment_metric == On(<<"self">>)
record_metric == On(<<"self">>)
get_metric == On(<<"self", "write">>)

set_tick_period_milliseconds == On(<<"self">>)
get_current_time_nanoseconds == On(<<"write">>)
log == On(<<"type", "read", "self">>)
get_log_level == On(<<"write">>)

(* Of WASI only what deals with the standard streams, the environment, the clock and       *)
(* random numbers; the rest answers with a fixed error, or with nothing.              *)
pthread_equal == On(<<>>)
emscripten_notify_memory_growth == On(<<>>)
args_get == On(<<>>)
path_open == On(<<>>)
fd_prestat_get == On(<<>>)
fd_prestat_dir_name == On(<<>>)
fd_write == On(<<"type", "read", "self", "write">>)
fd_read == On(<<>>)
fd_seek == On(<<"self">>)
fd_close == On(<<"self">>)
fd_fdstat_get == On(<<"type", "write">>)
environ_get == On(<<"write">>)
environ_sizes_get == On(<<"write">>)
args_sizes_get == On(<<"write">>)
clock_time_get == On(<<"type", "write">>)
random_get == On(<<"type", "write">>)
proc_exit == On(<<"self">>)

HostFunctions == [
    set_property |-> set_property, get_property |-> get_property,
    get_configuration |-> get_configuration, get_status |-> get_status,
    continue_request |-> continue_request, continue_response |-> continue_response,
    continue_stream |-> continue_stream, close_stream |-> close_stream,
    send_local_response |-> send_local_response,
    clear_route_cache |-> clear_route_cache,
    set_effective_context |-> set_effective_context, done |-> done,
    call_foreign_function |-> call_foreign_function,
    get_shared_data |-> get_shared_data, set_shared_data |-> set_shared_data,
    register_shared_queue |-> register_shared_queue,
    dequeue_shared_queue |-> dequeue_shared_queue,
    resolve_shared_queue |-> resolve_shared_queue,
    enqueue_shared_queue |-> enqueue_shared_queue,
    add_header_map_value |-> add_header_map_value,
    get_header_map_value |-> get_header_map_value,
    replace_header_map_value |-> replace_header_map_value,
    remove_header_map_value |-> remove_header_map_value,
    get_header_map_pairs |-> get_header_map_pairs,
    set_header_map_pairs |-> set_header_map_pairs,
    get_header_map_size |-> get_header_map_size,
    get_buffer_bytes |-> get_buffer_bytes, get_buffer_status |-> get_buffer_status,
    set_buffer_bytes |-> set_buffer_bytes, http_call |-> http_call,
    grpc_call |-> grpc_call, grpc_stream |-> grpc_stream,
    grpc_cancel |-> grpc_cancel, grpc_close |-> grpc_close, grpc_send |-> grpc_send,
    define_metric |-> define_metric, increment_metric |-> increment_metric,
    record_metric |-> record_metric, get_metric |-> get_metric,
    set_tick_period_milliseconds |-> set_tick_period_milliseconds,
    get_current_time_nanoseconds |-> get_current_time_nanoseconds, log |-> log,
    get_log_level |-> get_log_level, path_open |-> path_open,
    fd_prestat_get |-> fd_prestat_get, fd_prestat_dir_name |-> fd_prestat_dir_name,
    fd_write |-> fd_write, fd_read |-> fd_read, fd_seek |-> fd_seek,
    fd_close |-> fd_close, fd_fdstat_get |-> fd_fdstat_get,
    environ_get |-> environ_get, environ_sizes_get |-> environ_sizes_get,
    args_sizes_get |-> args_sizes_get, clock_time_get |-> clock_time_get,
    random_get |-> random_get, proc_exit |-> proc_exit, args_get |-> args_get,
    pthread_equal |-> pthread_equal,
    emscripten_notify_memory_growth |-> emscripten_notify_memory_growth]
=============================================================================
