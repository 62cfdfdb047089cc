\* The prompt on stderr of a process that was not given the flag.
CONSTANTS
  EnvLevels = {"", "DEBUG"}
  Options = {{}, {"quiet"}, {"verbose"}, {"unsafe_debug_prompt"}}
SPECIFICATION LogSpec
INVARIANTS PromptNeedsFlag
