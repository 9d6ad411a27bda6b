SPECIFICATION SSpec
CONSTANTS
  Queries <- MCQueries
  Sizes = {1}
  Free = {1}
INVARIANTS FailedNotSearched
