\* Two requests define one version at the same time.
SPECIFICATION TemplatesSpec
CONSTANTS
    TemplateServer = {h1, h2}
    MaxTemplateVersion = 1
    MaxUploads = 1
    MaxDefinitions = 3
PROPERTIES DefinitionHistoryKept
CHECK_DEADLOCK FALSE
