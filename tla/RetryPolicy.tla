----------------------------- MODULE RetryPolicy -----------------------------
(***************************************************************************)
(* The decorators of retry/policy.py: which exceptions of the wrapped call  *)
(* are met with another attempt, and how many attempts there are.  Any      *)
(* other exception reaches the caller at once.                              *)
(***************************************************************************)
EXTENDS Integers

\* The classes of the exceptions that the wrapped calls raise.
Ancestors ==
    [ OSError           |-> {"OSError"},
      KafkaError        |-> {"KafkaError", "RuntimeError"},
      DownloadError     |-> {"DownloadError", "IngestionError", "PipelineError"},
      IcebergWriteError |-> {"IcebergWriteError", "StorageError", "PipelineError"} ]

\* Mutant of RetriedTypes: network and storage errors of the pipeline are retried.
RetriedTypesOfPipeline ==
    [ network |-> {"ConnectionError", "TimeoutError", "OSError", "IngestionError"},
      kafka   |-> {"KafkaError", "ConnectionError", "TimeoutError"},
      storage |-> {"ConnectionError", "TimeoutError", "OSError", "StorageError"} ]

\* retry_if_exception_type(...) of the three policies.
RetriedTypes ==
    [ network |-> {"ConnectionError", "TimeoutError", "OSError"},
      kafka   |-> {"KafkaError", "ConnectionError", "TimeoutError"},
      storage |-> {"ConnectionError", "TimeoutError", "OSError"} ]

\* stop_after_attempt(...)
Attempts == [network |-> 3, kafka |-> 5, storage |-> 3]

\* The policy tries again after this exception, while attempts are left; after
\* the last one it raises MaxRetriesExceededError.
IsRetried(policy, exception) ==
    Ancestors[exception] \intersect RetriedTypes[policy] # {}

=============================================================================
